-------------------------- MODULE WorldFilesProofs --------------------------
(* Theorems about the files of a world and its LOCK (WorldFiles), for any  *)
(* number of processes and calls, and any of their ends.                   *)
EXTENDS WorldFiles, TLAPS, FiniteSetTheorems, SequenceTheorems,
        WellFoundedInduction, NaturalsInduction

----------------------------------------------------------------------------
(* The stages of a call.                                                   *)

\* Those of a call that has the lock, and the others
Held == {"locked", "logs", "snapshot", "edit", "clean", "open", "flush", "merge", "destroy"}
Free == {"none", "listed", "insert", "fcntl", "close", "destroyed", "unlink",
         "convert", "archive", "torn", "copy", "retire"}

\* ... among them those of a call that does not touch the files of the world
Idle(d) == d.pc \in {"none", "listed", "insert", "fcntl", "close", "destroyed", "unlink"}

USE DEF Idle

Stage(d) ==
    /\ "pc" \in DOMAIN d /\ d.pc \in Held \cup Free \cup {"temp", "rename"}
    /\ d.pc \in Held => "ino" \in DOMAIN d
    /\ d.pc \in Free => "ino" \notin DOMAIN d
    /\ d.pc \in {"temp", "rename"} => /\ "why" \in DOMAIN d /\ d.why \in {"new", "open", "repair"}
                                      /\ d.why = "repair" <=> "ino" \notin DOMAIN d
    /\ d.pc \in {"logs", "snapshot", "edit"} => "why" \in DOMAIN d /\ d.why \in {"open", "job"}

StagesInv == DOMAIN db = Handles /\ \A h \in Handles : Stage(db[h])

Owns(h)    == "ino" \in DOMAIN db[h]
InLocks(h) == Owns(h) \/ db[h].pc = "fcntl"

(* A process that has a world open, or is about to lock it, is in locks_, and
   once.  As long as no lock was dropped the owner holds the record lock of the
   LOCK file there is, so that no other process gets it. *)
LockInv ==
    /\ \A h \in Handles : InLocks(h) => ProcessOf[h] \in locked
    /\ \A h, g \in Handles : InLocks(h) /\ InLocks(g) /\ ProcessOf[h] = ProcessOf[g] => h = g
    /\ ~dropped =>
          /\ \A h \in Handles : Owns(h) => /\ lock.exists /\ db[h].ino = lock.ino
                                           /\ <<ProcessOf[h], lock.ino>> \in fcntl
          /\ \A h, g \in Handles : Owns(h) /\ Owns(g) => h = g

OwnerInv == StagesInv /\ LockInv

----------------------------------------------------------------------------
(* The lock, where a step leaves it alone.                                 *)

\* A step of a call that has the lock, or that has not, and goes on that way
LEMMA KeepsLock ==
    ASSUME OwnerInv, NEW h \in Handles, UNCHANGED lockVars,
           DOMAIN db' = Handles, \A g \in Handles \ {h} : db'[g] = db[g],
           Stage(db'[h]), db[h].pc # "fcntl", db'[h].pc # "fcntl",
           "ino" \in DOMAIN db'[h] <=> "ino" \in DOMAIN db[h],
           "ino" \in DOMAIN db[h] => db'[h].ino = db[h].ino
    PROVE  OwnerInv'
<1>1. StagesInv'
  BY DEF OwnerInv, StagesInv
<1>2. \A g \in Handles : /\ (Owns(g))' = Owns(g) /\ (Owns(g) => db'[g].ino = db[g].ino)
                         /\ (InLocks(g))' = InLocks(g)
  BY DEF Owns, InLocks
<1> QED BY <1>1, <1>2 DEF OwnerInv, LockInv, lockVars

\* Step() to another stage, without a word about the lock
LEMMA StepKeeps ==
    ASSUME OwnerInv, NEW h \in Handles, NEW to, Step(h, to), UNCHANGED lockVars,
           "ino" \notin DOMAIN to, db[h].pc # "fcntl",
           Stage(Changed(db[h], to)), Changed(db[h], to).pc # "fcntl"
    PROVE  OwnerInv'
<1>1. /\ DOMAIN db' = Handles /\ \A g \in Handles \ {h} : db'[g] = db[g]
      /\ db'[h] = Changed(db[h], to)
  BY DEF Step, OwnerInv, StagesInv
<1>2. /\ "ino" \in DOMAIN db'[h] <=> "ino" \in DOMAIN db[h]
      /\ "ino" \in DOMAIN db[h] => db'[h].ino = db[h].ino
  BY <1>1 DEF Changed
<1> QED BY <1>1, <1>2, KeepsLock

----------------------------------------------------------------------------
(* The steps.                                                              *)

LEMMA SimpleSteps ==
    ASSUME OwnerInv, NEW h \in Handles,
           \/ NewDB(h) \/ WriteSnapshot(h) \/ WriteTemp(h) \/ EndClean(h) \/ StartMerge(h)
           \/ ArchiveLog(h) \/ WriteDescriptor(h) \/ InstallDescriptor(h) \/ OpenLog(h)
           \/ SwitchLog(h)
    PROVE  OwnerInv'
<1> Stage(db[h])
  BY DEF OwnerInv, StagesInv
<1>1. CASE NewDB(h)
  <2> DEFINE to == [pc |-> "temp", why |-> "new", mfile |-> 1]
  <2>1. Step(h, to) /\ UNCHANGED lockVars
    BY <1>1 DEF NewDB
  <2>2. "ino" \notin DOMAIN to /\ db[h].pc # "fcntl"
    BY <1>1 DEF NewDB, At
  <2>3. Stage(Changed(db[h], to)) /\ Changed(db[h], to).pc # "fcntl"
    BY <1>1 DEF NewDB, At, Changed, Stage, Held, Free
  <2> QED BY <2>1, <2>2, <2>3, StepKeeps
<1>2. CASE WriteSnapshot(h)
  <2> DEFINE to == [pc |-> "edit"]
  <2>1. Step(h, to) /\ UNCHANGED lockVars
    BY <1>2 DEF WriteSnapshot
  <2>2. "ino" \notin DOMAIN to /\ db[h].pc # "fcntl"
    BY <1>2 DEF WriteSnapshot, At
  <2>3. Stage(Changed(db[h], to)) /\ Changed(db[h], to).pc # "fcntl"
    BY <1>2 DEF WriteSnapshot, At, Changed, Stage, Held, Free
  <2> QED BY <2>1, <2>2, <2>3, StepKeeps
<1>3. CASE WriteTemp(h)
  <2> DEFINE to == [pc |-> "rename"]
  <2>1. Step(h, to) /\ UNCHANGED lockVars
    BY <1>3 DEF WriteTemp
  <2>2. "ino" \notin DOMAIN to /\ db[h].pc # "fcntl"
    BY <1>3 DEF WriteTemp, At
  <2>3. Stage(Changed(db[h], to)) /\ Changed(db[h], to).pc # "fcntl"
    BY <1>3 DEF WriteTemp, At, Changed, Stage, Held, Free
  <2> QED BY <2>1, <2>2, <2>3, StepKeeps
<1>4. CASE EndClean(h)
  <2> DEFINE to == [pc |-> "open", adds |-> {}, dels |-> {}]
  <2>1. Step(h, to) /\ UNCHANGED lockVars
    BY <1>4 DEF EndClean
  <2>2. "ino" \notin DOMAIN to /\ db[h].pc # "fcntl"
    BY <1>4 DEF EndClean, At
  <2>3. Stage(Changed(db[h], to)) /\ Changed(db[h], to).pc # "fcntl"
    BY <1>4 DEF EndClean, At, Changed, Stage, Held, Free
  <2> QED BY <2>1, <2>2, <2>3, StepKeeps
<1>5. CASE StartMerge(h)
  <2> DEFINE to == [pc |-> "merge", dels |-> db[h].files]
  <2>1. Step(h, to) /\ UNCHANGED lockVars
    BY <1>5 DEF StartMerge
  <2>2. "ino" \notin DOMAIN to /\ db[h].pc # "fcntl"
    BY <1>5 DEF StartMerge, At
  <2>3. Stage(Changed(db[h], to)) /\ Changed(db[h], to).pc # "fcntl"
    BY <1>5 DEF StartMerge, At, Changed, Stage, Held, Free
  <2> QED BY <2>1, <2>2, <2>3, StepKeeps
<1>6. CASE ArchiveLog(h)
  <2> DEFINE to == [pc |-> "convert"]
  <2>1. Step(h, to) /\ UNCHANGED lockVars
    BY <1>6 DEF ArchiveLog
  <2>2. "ino" \notin DOMAIN to /\ db[h].pc # "fcntl"
    BY <1>6 DEF ArchiveLog, At
  <2>3. Stage(Changed(db[h], to)) /\ Changed(db[h], to).pc # "fcntl"
    BY <1>6 DEF ArchiveLog, At, Changed, Stage, Held, Free
  <2> QED BY <2>1, <2>2, <2>3, StepKeeps
<1>7. CASE WriteDescriptor(h)
  <2> DEFINE to == [pc |-> "retire"]
  <2>1. Step(h, to) /\ UNCHANGED lockVars
    BY <1>7 DEF WriteDescriptor
  <2>2. "ino" \notin DOMAIN to /\ db[h].pc # "fcntl"
    BY <1>7 DEF WriteDescriptor, At
  <2>3. Stage(Changed(db[h], to)) /\ Changed(db[h], to).pc # "fcntl"
    BY <1>7 DEF WriteDescriptor, At, Changed, Stage, Held, Free
  <2> QED BY <2>1, <2>2, <2>3, StepKeeps
<1>8. CASE InstallDescriptor(h)
  <2> DEFINE to == [pc |-> "temp", why |-> "repair", mfile |-> 1]
  <2>1. Step(h, to) /\ UNCHANGED lockVars
    BY <1>8 DEF InstallDescriptor
  <2>2. "ino" \notin DOMAIN to /\ db[h].pc # "fcntl"
    BY <1>8 DEF InstallDescriptor, At
  <2>3. Stage(Changed(db[h], to)) /\ Changed(db[h], to).pc # "fcntl"
    BY <1>8 DEF InstallDescriptor, At, Changed, Stage, Held, Free
  <2> QED BY <2>1, <2>2, <2>3, StepKeeps
<1>9. CASE OpenLog(h)
  <2> DEFINE to == [pc |-> "snapshot", log |-> db[h].next, next |-> db[h].next + 1]
  <2>1. Step(h, to) /\ UNCHANGED lockVars
    BY <1>9 DEF OpenLog, NewLogFile
  <2>2. "ino" \notin DOMAIN to /\ db[h].pc # "fcntl"
    BY <1>9 DEF OpenLog, At
  <2>3. Stage(Changed(db[h], to)) /\ Changed(db[h], to).pc # "fcntl"
    BY <1>9 DEF OpenLog, At, Changed, Stage, Held, Free
  <2> QED BY <2>1, <2>2, <2>3, StepKeeps
<1>10. CASE SwitchLog(h)
  <2> DEFINE to == [pc |-> "flush", log |-> db[h].next, next |-> db[h].next + 1]
  <2>1. Step(h, to) /\ UNCHANGED lockVars
    BY <1>10 DEF SwitchLog, NewLogFile
  <2>2. "ino" \notin DOMAIN to /\ db[h].pc # "fcntl"
    BY <1>10 DEF SwitchLog, At
  <2>3. Stage(Changed(db[h], to)) /\ Changed(db[h], to).pc # "fcntl"
    BY <1>10 DEF SwitchLog, At, Changed, Stage, Held, Free
  <2> QED BY <2>1, <2>2, <2>3, StepKeeps
<1> QED BY <1>1, <1>2, <1>3, <1>4, <1>5, <1>6, <1>7, <1>8, <1>9, <1>10

LEMMA OtherSteps ==
    ASSUME OwnerInv, NEW h \in Handles,
           \/ RecoverLog(h) \/ LogEdit(h) \/ \E sync \in BOOLEAN : Write(h, sync)
           \/ BuildTable(h) \/ ConvertLogToTable(h) \/ ScanTable(h) \/ ArchiveTable(h)
           \/ RepairTable(h) \/ ArchiveManifest(h)
    PROVE  OwnerInv'
<1> Stage(db[h])
  BY DEF OwnerInv, StagesInv
<1>1. CASE RecoverLog(h)
  <2> DEFINE n == Min(db[h].todo)
             E == ToSet(logs[n].ents)
             next == IF E = {} THEN db[h].next ELSE db[h].next + 1
             to == [todo |-> db[h].todo \ {n}, last |-> Max({db[h].last} \cup E),
                    adds |-> IF E = {} THEN db[h].adds ELSE db[h].adds \cup {db[h].next},
                    next |-> Max({next, n + 1})]
  <2>1. Step(h, to) /\ UNCHANGED lockVars
    BY <1>1 DEF RecoverLog
  <2>2. "ino" \notin DOMAIN to /\ db[h].pc # "fcntl"
    BY <1>1 DEF RecoverLog, At
  <2>3. Stage(Changed(db[h], to)) /\ Changed(db[h], to).pc # "fcntl"
    BY <1>1 DEF RecoverLog, At, Changed, Stage, Held, Free
  <2> QED BY <2>1, <2>2, <2>3, StepKeeps
<1>2. CASE LogEdit(h)
  <2> DEFINE to == [pc |-> IF db[h].why = "open" THEN "temp" ELSE "clean",
                    files |-> (db[h].files \ db[h].dels) \cup db[h].adds]
  <2>1. Step(h, to) /\ UNCHANGED lockVars
    BY <1>2 DEF LogEdit
  <2>2. "ino" \notin DOMAIN to /\ db[h].pc # "fcntl"
    BY <1>2 DEF LogEdit, At
  <2>3. Stage(Changed(db[h], to)) /\ Changed(db[h], to).pc # "fcntl"
    BY <1>2 DEF LogEdit, At, Changed, Stage, Held, Free
  <2> QED BY <2>1, <2>2, <2>3, StepKeeps
<1>3. CASE \E sync \in BOOLEAN : Write(h, sync)
  <2> DEFINE to == [last |-> db[h].last + 1, mem |-> db[h].mem \cup {db[h].last + 1}]
  <2>1. Step(h, to) /\ UNCHANGED lockVars
    BY <1>3 DEF Write
  <2>2. "ino" \notin DOMAIN to /\ db[h].pc # "fcntl"
    BY <1>3 DEF Write, At
  <2>3. Stage(Changed(db[h], to)) /\ Changed(db[h], to).pc # "fcntl"
    BY <1>3 DEF Write, At, Changed, Stage, Held, Free
  <2> QED BY <2>1, <2>2, <2>3, StepKeeps
<1>4. CASE BuildTable(h)
  <2> DEFINE to == [pc |-> "edit", why |-> "job", adds |-> {db[h].next}, next |-> db[h].next + 1,
                    mem |-> IF db[h].pc = "flush" THEN {} ELSE db[h].mem]
  <2>1. Step(h, to) /\ UNCHANGED lockVars
    BY <1>4 DEF BuildTable
  <2>2. "ino" \notin DOMAIN to /\ db[h].pc # "fcntl"
    BY <1>4 DEF BuildTable, At
  <2>3. Stage(Changed(db[h], to)) /\ Changed(db[h], to).pc # "fcntl"
    BY <1>4 DEF BuildTable, At, Changed, Stage, Held, Free
  <2> QED BY <2>1, <2>2, <2>3, StepKeeps
<1>5. CASE ConvertLogToTable(h)
  <2>0. PICK n \in db[h].todo :
           LET E == ToSet(logs[n].ents)
           IN  Step(h, [pc |-> "archive", todo |-> db[h].todo \ {n}, log |-> n,
                        scan |-> IF E = {} THEN db[h].scan ELSE db[h].scan \cup {db[h].next},
                        next |-> db[h].next + 1])
    BY <1>5 DEF ConvertLogToTable
  <2> DEFINE E == ToSet(logs[n].ents)
             to == [pc |-> "archive", todo |-> db[h].todo \ {n}, log |-> n,
                    scan |-> IF E = {} THEN db[h].scan ELSE db[h].scan \cup {db[h].next},
                    next |-> db[h].next + 1]
  <2>1. Step(h, to) /\ UNCHANGED lockVars
    BY <1>5, <2>0 DEF ConvertLogToTable
  <2>2. "ino" \notin DOMAIN to /\ db[h].pc # "fcntl"
    BY <1>5, <2>0 DEF ConvertLogToTable, At
  <2>3. Stage(Changed(db[h], to)) /\ Changed(db[h], to).pc # "fcntl"
    BY <1>5, <2>0 DEF ConvertLogToTable, At, Changed, Stage, Held, Free
  <2> QED BY <2>1, <2>2, <2>3, StepKeeps
<1>6. CASE ScanTable(h)
  <2>1. At(h, "convert") /\ UNCHANGED lockVars
    BY <1>6 DEF ScanTable
  <2>2. PICK n \in db[h].scan :
           \/ Step(h, [scan |-> db[h].scan \ {n}, good |-> db[h].good \cup {n}])
           \/ Step(h, [pc |-> "torn", next |-> db[h].next + 1,
                       table |-> n, copy |-> db[h].next, ents |-> tables[n].ents])
    BY <1>6 DEF ScanTable
  <2>3. CASE Step(h, [scan |-> db[h].scan \ {n}, good |-> db[h].good \cup {n}])
    <3> DEFINE to == [scan |-> db[h].scan \ {n}, good |-> db[h].good \cup {n}]
    <3>1. "ino" \notin DOMAIN to /\ db[h].pc # "fcntl"
      BY <2>1 DEF At
    <3>2. Stage(Changed(db[h], to)) /\ Changed(db[h], to).pc # "fcntl"
      BY <2>1 DEF At, Changed, Stage, Held, Free
    <3> QED BY <2>1, <2>3, <3>1, <3>2, StepKeeps
  <2>4. CASE Step(h, [pc |-> "torn", next |-> db[h].next + 1,
                      table |-> n, copy |-> db[h].next, ents |-> tables[n].ents])
    <3> DEFINE to == [pc |-> "torn", next |-> db[h].next + 1,
                      table |-> n, copy |-> db[h].next, ents |-> tables[n].ents]
    <3>1. "ino" \notin DOMAIN to /\ db[h].pc # "fcntl"
      BY <2>1 DEF At
    <3>2. Stage(Changed(db[h], to)) /\ Changed(db[h], to).pc # "fcntl"
      BY <2>1 DEF At, Changed, Stage, Held, Free
    <3> QED BY <2>1, <2>4, <3>1, <3>2, StepKeeps
  <2> QED BY <2>2, <2>3, <2>4
<1>7. CASE RepairTable(h)
  <2> DEFINE to == [pc |-> "convert", good |-> IF db[h].ents = {} THEN db[h].good
                                              ELSE db[h].good \cup {db[h].table}]
  <2>1. Step(h, to) /\ UNCHANGED lockVars
    BY <1>7 DEF RepairTable
  <2>2. "ino" \notin DOMAIN to /\ db[h].pc # "fcntl"
    BY <1>7 DEF RepairTable, At
  <2>3. Stage(Changed(db[h], to)) /\ Changed(db[h], to).pc # "fcntl"
    BY <1>7 DEF RepairTable, At, Changed, Stage, Held, Free
  <2> QED BY <2>1, <2>2, <2>3, StepKeeps
<1>8. CASE ArchiveManifest(h)
  <2>0. PICK n \in db[h].retire : Step(h, [retire |-> db[h].retire \ {n}])
    BY <1>8 DEF ArchiveManifest
  <2> DEFINE to == [retire |-> db[h].retire \ {n}]
  <2>1. Step(h, to) /\ UNCHANGED lockVars
    BY <1>8, <2>0 DEF ArchiveManifest
  <2>2. "ino" \notin DOMAIN to /\ db[h].pc # "fcntl"
    BY <1>8, <2>0 DEF ArchiveManifest, At
  <2>3. Stage(Changed(db[h], to)) /\ Changed(db[h], to).pc # "fcntl"
    BY <1>8, <2>0 DEF ArchiveManifest, At, Changed, Stage, Held, Free
  <2> QED BY <2>1, <2>2, <2>3, StepKeeps
<1>9. CASE ArchiveTable(h)
  <2> DEFINE to == [pc |-> "copy", scan |-> db[h].scan \ {db[h].table}]
  <2>1. Step(h, to) /\ UNCHANGED lockVars
    BY <1>9 DEF ArchiveTable
  <2>2. "ino" \notin DOMAIN to /\ db[h].pc # "fcntl"
    BY <1>9 DEF ArchiveTable, At
  <2>3. Stage(Changed(db[h], to)) /\ Changed(db[h], to).pc # "fcntl"
    BY <1>9 DEF ArchiveTable, At, Changed, Stage, Held, Free
  <2> QED BY <2>1, <2>2, <2>3, StepKeeps
<1> QED BY <1>1, <1>2, <1>3, <1>4, <1>5, <1>6, <1>7, <1>8, <1>9

\* A call that has not got the lock ends, or begins, or closes.
LEMMA Outside ==
    ASSUME OwnerInv, NEW h \in Handles, UNCHANGED lockVars, NEW d,
           db' = [db EXCEPT ![h] = d], Stage(d), d.pc \in Free \ {"fcntl"},
           "ino" \notin DOMAIN db[h], db[h].pc # "fcntl"
    PROVE  OwnerInv'
<1>1. DOMAIN db' = Handles /\ db'[h] = d /\ \A g \in Handles \ {h} : db'[g] = db[g]
  BY DEF OwnerInv, StagesInv
<1>2. d.pc # "fcntl" /\ "ino" \notin DOMAIN d
  BY DEF OwnerInv, StagesInv, Stage, Held, Free
<1> QED BY <1>1, <1>2, KeepsLock

LEMMA GoneIsFree == Stage(Gone) /\ Gone.pc \in Free /\ Gone.pc = "none" /\ "ino" \notin DOMAIN Gone
BY DEF Gone, Stage, Free, Held

\* Somebody who was in locks_ leaves it, and takes record locks of his process
\* along at most.
LEMMA Leaves ==
    ASSUME OwnerInv, NEW h \in Handles, InLocks(h), locked' = locked \ {ProcessOf[h]},
           \A l \in fcntl \ fcntl' : l[1] = ProcessOf[h], UNCHANGED <<lock, dropped>>,
           DOMAIN db' = Handles, \A g \in Handles \ {h} : db'[g] = db[g],
           Stage(db'[h]), db'[h].pc \in Free \ {"fcntl"}
    PROVE  OwnerInv'
<1>1. StagesInv'
  BY DEF OwnerInv, StagesInv
<1>2. ~(InLocks(h))' /\ \A g \in Handles \ {h} : (InLocks(g))' = InLocks(g)
  BY DEF InLocks, Owns, Stage, Free
<1>3. \A g \in Handles : (InLocks(g))' => InLocks(g) /\ g # h /\ ProcessOf[g] # ProcessOf[h]
  BY <1>2 DEF OwnerInv, LockInv
<1>4. \A g \in Handles : (Owns(g))' => /\ Owns(g) /\ db'[g] = db[g]
                                       /\ <<ProcessOf[g], lock.ino>> \in fcntl =>
                                             <<ProcessOf[g], lock.ino>> \in fcntl'
  BY <1>3 DEF Owns, InLocks
<1>5. (\A g \in Handles : InLocks(g) => ProcessOf[g] \in locked)'
  BY <1>3 DEF OwnerInv, LockInv
<1>6. (\A g, k \in Handles : InLocks(g) /\ InLocks(k) /\ ProcessOf[g] = ProcessOf[k] => g = k)'
  BY <1>3 DEF OwnerInv, LockInv
<1>7. ~dropped' => (/\ \A g \in Handles : Owns(g) => /\ lock.exists /\ db[g].ino = lock.ino
                                                     /\ <<ProcessOf[g], lock.ino>> \in fcntl
                    /\ \A g, k \in Handles : Owns(g) /\ Owns(k) => g = k)'
  BY <1>4 DEF OwnerInv, LockInv
<1> QED BY <1>1, <1>5, <1>6, <1>7 DEF OwnerInv, LockInv

LEMMA Unlocks ==
    ASSUME OwnerInv, NEW h \in Handles, Owns(h), NEW then \in {"close", "destroyed"},
           UnlockFile(h, then)
    PROVE  OwnerInv'
<1>1. /\ DOMAIN db' = Handles /\ \A g \in Handles \ {h} : db'[g] = db[g]
      /\ db'[h] = [pc |-> then, fd |-> db[h].ino]
      /\ fcntl' = fcntl \ {<<ProcessOf[h], db[h].ino>>} /\ locked' = locked \ {ProcessOf[h]}
      /\ UNCHANGED <<lock, dropped>>
  BY DEF UnlockFile, OwnerInv, StagesInv
<1>2. \A l \in fcntl \ fcntl' : l[1] = ProcessOf[h]
  BY <1>1
<1>3. Stage(db'[h]) /\ db'[h].pc \in Free \ {"fcntl"}
  BY <1>1 DEF Stage, Held, Free
<1> QED BY <1>1, <1>2, <1>3, Leaves DEF InLocks

LEMMA Destructs ==
    ASSUME OwnerInv, NEW h \in Handles, Owns(h), Destruct(h)
    PROVE  OwnerInv'
BY Unlocks DEF Destruct

\* open() creates the LOCK file only where no owner relies on one.
LEMMA Opens ==
    ASSUME OwnerInv, NEW h \in Handles, NEW call, OpenLock(h, call),
           "ino" \notin DOMAIN db[h], db[h].pc # "fcntl", "ino" \notin DOMAIN call
    PROVE  OwnerInv'
<1>1. /\ lock' = [exists |-> TRUE, ino |-> Inode] /\ UNCHANGED <<fcntl, locked, dropped>>
      /\ DOMAIN db' = Handles /\ \A g \in Handles \ {h} : db'[g] = db[g]
      /\ db'[h] = Changed(call, [pc |-> "insert", fd |-> Inode])
  BY DEF OpenLock, OwnerInv, StagesInv
<1>2. Stage(db'[h]) /\ db'[h].pc = "insert" /\ "ino" \notin DOMAIN db'[h]
  BY <1>1 DEF Changed, Stage, Held, Free
<1>3. \A g \in Handles : (Owns(g))' = Owns(g) /\ (InLocks(g))' = InLocks(g)
                         /\ (Owns(g) => db'[g] = db[g])
  BY <1>1, <1>2 DEF Owns, InLocks
<1>4. ~dropped /\ (\E g \in Handles : Owns(g)) => lock'.ino = lock.ino /\ lock'.exists
  BY <1>1 DEF OwnerInv, LockInv, Inode
<1>5. StagesInv'
  BY <1>1, <1>2 DEF OwnerInv, StagesInv
<1> QED BY <1>1, <1>3, <1>4, <1>5 DEF OwnerInv, LockInv

LEMMA Inserts ==
    ASSUME OwnerInv, NEW h \in Handles, InsertLock(h)
    PROVE  OwnerInv'
<1> DEFINE p == ProcessOf[h]
<1>1. db[h].pc = "insert" /\ UNCHANGED <<lock, fcntl, dropped>> /\ Stage(db[h])
  BY DEF InsertLock, At, OwnerInv, StagesInv
<1>2. "ino" \notin DOMAIN db[h]
  BY <1>1 DEF Stage, Held, Free
<1>3. CASE p \in locked /\ Step(h, [pc |-> "close"]) /\ UNCHANGED locked
  <2> DEFINE d == Changed(db[h], [pc |-> "close"])
  <2>1. Stage(d) /\ d.pc \in Free \ {"fcntl"}
    BY <1>1, <1>2 DEF Changed, Stage, Held, Free
  <2>2. db' = [db EXCEPT ![h] = d] /\ UNCHANGED lockVars
    BY <1>1, <1>3 DEF Step, lockVars
  <2> HIDE DEF d
  <2> QED BY <1>1, <1>2, <2>1, <2>2, Outside
<1>4. CASE p \notin locked /\ Step(h, [pc |-> "fcntl"]) /\ locked' = locked \cup {p}
  <2>1. /\ DOMAIN db' = Handles /\ \A g \in Handles \ {h} : db'[g] = db[g]
        /\ db'[h] = Changed(db[h], [pc |-> "fcntl"])
    BY <1>4 DEF Step, OwnerInv, StagesInv
  <2>2. Stage(db'[h]) /\ "ino" \notin DOMAIN db'[h]
    BY <1>1, <1>2, <2>1 DEF Changed, Stage, Held, Free
  <2>3. StagesInv'
    BY <2>1, <2>2 DEF OwnerInv, StagesInv
  <2>4. /\ \A g \in Handles : (Owns(g))' => Owns(g) /\ db'[g] = db[g]
        /\ \A g \in Handles : (InLocks(g))' => g = h \/ InLocks(g)
        /\ \A g \in Handles : InLocks(g) => ProcessOf[g] # p
    BY <1>4, <2>1, <2>2 DEF Owns, InLocks, OwnerInv, LockInv
  <2>5. (\A g \in Handles : InLocks(g) => ProcessOf[g] \in locked)'
    BY <1>4, <2>4 DEF OwnerInv, LockInv
  <2>6. (\A g, k \in Handles : InLocks(g) /\ InLocks(k) /\ ProcessOf[g] = ProcessOf[k] => g = k)'
    BY <2>4 DEF OwnerInv, LockInv
  <2> QED BY <1>1, <2>3, <2>4, <2>5, <2>6 DEF OwnerInv, LockInv
<1> QED BY <1>3, <1>4 DEF InsertLock

\* fcntl() of the LOCK file that is there succeeds only where nobody owns the world.
LEMMA Locks ==
    ASSUME OwnerInv, NEW h \in Handles, SetLock(h)
    PROVE  OwnerInv'
<1> DEFINE p  == ProcessOf[h]
           fd == db[h].fd
<1>1. /\ db[h].pc = "fcntl" /\ ~LockedByOther(p, fd) /\ fcntl' = fcntl \cup {<<p, fd>>}
      /\ dropped' = (dropped \/ lock # [exists |-> TRUE, ino |-> fd]) /\ UNCHANGED <<lock, locked>>
      /\ DOMAIN db' = Handles /\ \A g \in Handles \ {h} : db'[g] = db[g]
      /\ \/ db'[h] = [pc |-> "destroy", ino |-> fd, list |-> db[h].list]
         \/ db'[h] = [pc |-> "locked", ino |-> fd]
  BY DEF SetLock, At, OwnerInv, StagesInv
<1>2. Stage(db'[h]) /\ "ino" \in DOMAIN db'[h] /\ db'[h].ino = fd
  BY <1>1 DEF Stage, Held, Free
<1> DEFINE there == [exists |-> TRUE, ino |-> fd]
<1>11. ~dropped' => ~dropped /\ lock = there
  <2>1. dropped' = (dropped \/ lock # there)
    BY <1>1
  <2> HIDE DEF there
  <2> QED BY <2>1, Zenon
<1>12. ~dropped' => lock.exists /\ lock.ino = fd
  BY <1>11
<1> HIDE DEF there
<1>3. StagesInv'
  BY <1>1, <1>2 DEF OwnerInv, StagesInv
<1>4. \A g \in Handles : /\ (InLocks(g))' => InLocks(g)
                         /\ (Owns(g))' /\ g # h => Owns(g) /\ db'[g] = db[g]
  BY <1>1 DEF InLocks, Owns
<1>5. \A g \in Handles : Owns(g) => ProcessOf[g] # p
  BY <1>1 DEF InLocks, Owns, OwnerInv, LockInv, StagesInv, Stage, Held, Free
<1>6. ASSUME NEW g \in Handles, Owns(g), ~dropped'
      PROVE  FALSE
  <2>1. lock.ino = fd /\ <<ProcessOf[g], lock.ino>> \in fcntl
    BY <1>6, <1>11, <1>12 DEF OwnerInv, LockInv
  <2>2. ProcessOf[g] \in Processes \ {p}
    BY <1>5, <1>6, WorldFilesAssumption
  <2> QED BY <1>1, <2>1, <2>2 DEF LockedByOther
<1>7. ~dropped' => lock'.exists /\ db'[h].ino = lock'.ino /\ <<p, lock'.ino>> \in fcntl'
  <2>1. lock' = lock /\ <<p, fd>> \in fcntl'
    BY <1>1
  <2> QED BY <1>2, <1>12, <2>1
<1>8. \A g \in Handles : ~dropped' /\ (Owns(g))' => g = h
  BY <1>4, <1>6
<1>9. (\A g \in Handles : InLocks(g) => ProcessOf[g] \in locked)'
  BY <1>1, <1>4 DEF OwnerInv, LockInv
<1>10. (\A g, k \in Handles : InLocks(g) /\ InLocks(k) /\ ProcessOf[g] = ProcessOf[k] => g = k)'
  BY <1>4 DEF OwnerInv, LockInv
<1> QED BY <1>3, <1>7, <1>8, <1>9, <1>10 DEF OwnerInv, LockInv

LEMMA LockFails ==
    ASSUME OwnerInv, NEW h \in Handles, SetLockFails(h)
    PROVE  OwnerInv'
<1>1. /\ db[h].pc = "fcntl" /\ fcntl' = fcntl \ {<<ProcessOf[h], db[h].fd>>}
      /\ locked' = locked \ {ProcessOf[h]} /\ UNCHANGED <<lock, dropped>>
      /\ DOMAIN db' = Handles /\ db'[h] = Gone /\ \A g \in Handles \ {h} : db'[g] = db[g]
  BY DEF SetLockFails, At, OwnerInv, StagesInv
<1>2. \A l \in fcntl \ fcntl' : l[1] = ProcessOf[h]
  BY <1>1
<1>3. Stage(db'[h]) /\ db'[h].pc \in Free \ {"fcntl"}
  BY <1>1, GoneIsFree
<1> QED BY <1>1, <1>2, <1>3, Leaves DEF InLocks

\* close() takes the record lock of an owner only where it says so.
LEMMA Closes ==
    ASSUME OwnerInv, NEW h \in Handles, CloseLock(h)
    PROVE  OwnerInv'
<1> DEFINE l == <<ProcessOf[h], db[h].fd>>
<1>1. /\ db[h].pc \in {"close", "destroyed"} /\ fcntl' = fcntl \ {l}
      /\ dropped' = (dropped \/ l \in fcntl) /\ UNCHANGED <<lock, locked>>
      /\ DOMAIN db' = Handles /\ \A g \in Handles \ {h} : db'[g] = db[g]
      /\ db'[h] = Gone \/ db'[h] = [pc |-> "unlink"]
  BY DEF CloseLock, OwnerInv, StagesInv
<1> HIDE DEF l
<1>2. Stage(db'[h]) /\ db'[h].pc # "fcntl" /\ "ino" \notin DOMAIN db'[h]
  BY <1>1, GoneIsFree DEF Stage, Held, Free
<1>3. Stage(db[h])
  BY DEF OwnerInv, StagesInv
<1>4. "ino" \notin DOMAIN db[h]
  BY <1>1, <1>3 DEF Stage, Held, Free
<1>5. \A g \in Handles : (Owns(g))' = Owns(g) /\ (InLocks(g))' = InLocks(g)
                         /\ (Owns(g) => db'[g] = db[g])
  BY <1>1, <1>2, <1>4 DEF Owns, InLocks
<1>6. StagesInv'
  BY <1>1, <1>2 DEF OwnerInv, StagesInv
<1>7. ~dropped' => ~dropped /\ fcntl' = fcntl
  BY <1>1
<1> QED BY <1>1, <1>5, <1>6, <1>7 DEF OwnerInv, LockInv

LEMMA LockingSteps ==
    ASSUME OwnerInv, NEW h \in Handles,
           \/ Open(h) \/ ReadManifest(h) \/ EditFails(h) \/ RenameTemp(h) \/ SetCurrentFails(h)
           \/ Close(h) \/ ListFiles(h) \/ LockToDestroy(h) \/ EndDestroy(h) \/ DeleteLock(h)
           \/ FindFiles(h)
    PROVE  OwnerInv'
<1>0. Stage(db[h])
  BY DEF OwnerInv, StagesInv
<1>1. CASE Open(h)
  <2>1. OpenLock(h, Gone) /\ "ino" \notin DOMAIN db[h] /\ db[h].pc # "fcntl"
    BY <1>1, GoneIsFree DEF Open
  <2> QED BY <2>1, GoneIsFree, Opens
<1>2. CASE ReadManifest(h)
  <2>1. Owns(h) /\ db[h].pc = "locked"
    BY <1>0, <1>2 DEF ReadManifest, At, Stage, Owns, Held
  <2>2. CASE Destruct(h)
    BY <2>1, <2>2, Destructs
  <2>3. CASE ~Destruct(h)
    <3> DEFINE s  == Contents(manifests, current)
               to == [mfile |-> s.next, next |-> s.next + 1,
                      pc |-> "logs", why |-> "open", files |-> s.files, log |-> s.log,
                      last |-> s.last, mem |-> {}, adds |-> {}, dels |-> {}, err |-> FALSE,
                      todo |-> {n \in DOMAIN logs : n >= s.log}]
    <3>1. Step(h, to) /\ UNCHANGED lockVars
      BY <1>2, <2>3 DEF ReadManifest
    <3>2. "ino" \notin DOMAIN to /\ db[h].pc # "fcntl"
      BY <2>1
    <3>3. Stage(Changed(db[h], to)) /\ Changed(db[h], to).pc # "fcntl"
      BY <1>0, <2>1 DEF Changed, Stage, Held, Free
    <3> QED BY <3>1, <3>2, <3>3, StepKeeps
  <2> QED BY <2>2, <2>3
<1>3. CASE EditFails(h)
  <2>1. Owns(h) /\ db[h].pc = "edit"
    BY <1>0, <1>3 DEF EditFails, At, Stage, Owns, Held
  <2>2. CASE Destruct(h)
    BY <2>1, <2>2, Destructs
  <2>3. CASE ~Destruct(h)
    <3> DEFINE to == [pc |-> "open", err |-> TRUE]
    <3>1. Step(h, to) /\ UNCHANGED lockVars
      BY <1>3, <2>3 DEF EditFails
    <3>2. "ino" \notin DOMAIN to /\ db[h].pc # "fcntl"
      BY <2>1
    <3>3. Stage(Changed(db[h], to)) /\ Changed(db[h], to).pc # "fcntl"
      BY <1>0, <2>1 DEF Changed, Stage, Held, Free
    <3> QED BY <3>1, <3>2, <3>3, StepKeeps
  <2> QED BY <2>2, <2>3
<1>4. CASE RenameTemp(h)
  <2>1. db[h].pc = "rename" /\ UNCHANGED lockVars
    BY <1>4 DEF RenameTemp, At
  <2>2. CASE db[h].why = "new" /\ Step(h, [pc |-> "locked"])
    <3> DEFINE to == [pc |-> "locked"]
    <3>1. "ino" \notin DOMAIN to /\ db[h].pc # "fcntl"
      BY <2>1
    <3>2. Stage(Changed(db[h], to)) /\ Changed(db[h], to).pc # "fcntl"
      BY <1>0, <2>1, <2>2 DEF Changed, Stage, Held, Free
    <3> QED BY <2>1, <2>2, <3>1, <3>2, StepKeeps
  <2>3. CASE db[h].why = "open" /\ Step(h, [pc |-> "clean"])
    <3> DEFINE to == [pc |-> "clean"]
    <3>1. "ino" \notin DOMAIN to /\ db[h].pc # "fcntl"
      BY <2>1
    <3>2. Stage(Changed(db[h], to)) /\ Changed(db[h], to).pc # "fcntl"
      BY <1>0, <2>1, <2>3 DEF Changed, Stage, Held, Free
    <3> QED BY <2>1, <2>3, <3>1, <3>2, StepKeeps
  <2>4. CASE db[h].why = "repair" /\ db' = [db EXCEPT ![h] = Gone]
    <3>1. "ino" \notin DOMAIN db[h] /\ Gone.pc \in Free \ {"fcntl"}
      BY <1>0, <2>1, <2>4, GoneIsFree DEF Stage
    <3> QED BY <2>1, <2>4, <3>1, GoneIsFree, Outside
  <2> QED BY <1>4, <2>2, <2>3, <2>4 DEF RenameTemp
<1>5. CASE SetCurrentFails(h)
  <2>1. CASE db[h].why = "repair"
    <3>1. /\ "ino" \notin DOMAIN db[h] /\ db' = [db EXCEPT ![h] = Gone] /\ UNCHANGED lockVars
          /\ Gone.pc \in Free \ {"fcntl"} /\ db[h].pc # "fcntl"
      BY <1>0, <1>5, <2>1, GoneIsFree DEF SetCurrentFails, Stage
    <3> QED BY <3>1, GoneIsFree, Outside
  <2>2. CASE db[h].why # "repair"
    <3>1. Owns(h) /\ Destruct(h)
      BY <1>0, <1>5, <2>2 DEF SetCurrentFails, Stage, Owns
    <3> QED BY <3>1, Destructs
  <2> QED BY <2>1, <2>2
<1>6. CASE Close(h)
  <2>1. Owns(h) /\ Destruct(h)
    BY <1>0, <1>6 DEF Close, At, Stage, Owns, Held
  <2> QED BY <2>1, Destructs
<1>7. CASE ListFiles(h)
  <2> DEFINE d == [pc |-> "listed", list |-> Listing]
  <2>1. /\ db' = [db EXCEPT ![h] = d] /\ UNCHANGED lockVars
        /\ "ino" \notin DOMAIN db[h] /\ db[h].pc # "fcntl"
    BY <1>7, GoneIsFree DEF ListFiles
  <2>2. Stage(d) /\ d.pc \in Free \ {"fcntl"}
    BY DEF Stage, Held, Free
  <2> HIDE DEF d
  <2> QED BY <2>1, <2>2, Outside
<1>8. CASE LockToDestroy(h)
  <2>1. OpenLock(h, db[h]) /\ "ino" \notin DOMAIN db[h] /\ db[h].pc # "fcntl"
    BY <1>0, <1>8 DEF LockToDestroy, At, Stage, Free
  <2> QED BY <2>1, Opens
<1>9. CASE EndDestroy(h)
  <2>1. Owns(h) /\ UnlockFile(h, "destroyed")
    BY <1>0, <1>9 DEF EndDestroy, At, Stage, Owns, Held
  <2> QED BY <2>1, Unlocks
<1>10. CASE DeleteLock(h)
  <2>1. /\ db' = [db EXCEPT ![h] = Gone] /\ db[h].pc = "unlink" /\ UNCHANGED <<fcntl, locked>>
        /\ dropped' = (dropped \/ \E p \in Processes : <<p, lock.ino>> \in fcntl)
    BY <1>10 DEF DeleteLock, At
  <2>2. DOMAIN db' = Handles /\ db'[h] = Gone /\ \A g \in Handles \ {h} : db'[g] = db[g]
    BY <2>1 DEF OwnerInv, StagesInv
  <2>3. \A g \in Handles : /\ (Owns(g))' => Owns(g) /\ db'[g] = db[g]
                           /\ (InLocks(g))' => InLocks(g)
    BY <2>2, GoneIsFree DEF Owns, InLocks
  <2>4. ~dropped' => ~dropped /\ \A g \in Handles : ~Owns(g)
    BY <2>1, WorldFilesAssumption DEF OwnerInv, LockInv
  <2>5. StagesInv'
    BY <2>2, GoneIsFree DEF OwnerInv, StagesInv
  <2> QED BY <2>1, <2>3, <2>4, <2>5 DEF OwnerInv, LockInv
<1>11. CASE FindFiles(h)
  <2> DEFINE d == [pc |-> "convert", todo |-> DOMAIN logs, scan |-> DOMAIN tables, good |-> {},
                   retire |-> DOMAIN manifests,
                   next |-> Max(DOMAIN logs \cup DOMAIN tables \cup temps \cup {0}) + 1]
  <2>1. /\ db' = [db EXCEPT ![h] = d] /\ UNCHANGED lockVars
        /\ "ino" \notin DOMAIN db[h] /\ db[h].pc # "fcntl"
    BY <1>11, GoneIsFree DEF FindFiles
  <2>2. Stage(d) /\ d.pc \in Free \ {"fcntl"}
    BY DEF Stage, Held, Free
  <2> HIDE DEF d
  <2> QED BY <2>1, <2>2, Outside
<1> QED BY <1>1, <1>2, <1>3, <1>4, <1>5, <1>6, <1>7, <1>8, <1>9, <1>10, <1>11

\* Where no call changes its stage
LEMMA OthersKeep ==
    ASSUME OwnerInv, UNCHANGED <<lockVars, db>>
    PROVE  OwnerInv'
BY DEF OwnerInv, StagesInv, LockInv, Owns, InLocks, lockVars

LEMMA ACrash ==
    ASSUME OwnerInv, NEW p \in Processes, Crash(p)
    PROVE  OwnerInv'
<1>1. /\ db' = [h \in Handles |-> IF ProcessOf[h] = p THEN Gone ELSE db[h]]
      /\ fcntl' = {l \in fcntl : l[1] # p} /\ locked' = locked \ {p} /\ UNCHANGED <<lock, dropped>>
  BY DEF Crash
<1>2. StagesInv'
  BY <1>1, GoneIsFree DEF OwnerInv, StagesInv
<1>3. \A g \in Handles : /\ (Owns(g))' => Owns(g) /\ db'[g] = db[g] /\ ProcessOf[g] # p
                         /\ (InLocks(g))' => InLocks(g) /\ ProcessOf[g] # p
  BY <1>1, GoneIsFree DEF Owns, InLocks
<1>4. (\A g \in Handles : InLocks(g) => ProcessOf[g] \in locked)'
  BY <1>1, <1>3 DEF OwnerInv, LockInv
<1>5. (\A g, k \in Handles : InLocks(g) /\ InLocks(k) /\ ProcessOf[g] = ProcessOf[k] => g = k)'
  BY <1>3 DEF OwnerInv, LockInv
<1>6. ASSUME ~dropped', NEW g \in Handles, (Owns(g))'
      PROVE  /\ lock'.exists /\ db'[g].ino = lock'.ino /\ <<ProcessOf[g], lock'.ino>> \in fcntl'
             /\ \A k \in Handles : (Owns(k))' => k = g
  <2>1. Owns(g) /\ db'[g] = db[g] /\ ProcessOf[g] # p /\ ~dropped
    BY <1>1, <1>3, <1>6
  <2>2. /\ lock.exists /\ db[g].ino = lock.ino /\ <<ProcessOf[g], lock.ino>> \in fcntl
        /\ \A k \in Handles : Owns(k) => k = g
    BY <2>1 DEF OwnerInv, LockInv
  <2> QED BY <1>1, <1>3, <2>1, <2>2
<1> QED BY <1>2, <1>4, <1>5, <1>6 DEF OwnerInv, LockInv

LEMMA AMachineCrash ==
    ASSUME OwnerInv, MachineCrash
    PROVE  OwnerInv'
<1>1. db' = [h \in Handles |-> Gone]
  BY DEF MachineCrash
<1>2. StagesInv' /\ \A g \in Handles : ~(Owns(g))' /\ ~(InLocks(g))'
  BY <1>1, GoneIsFree DEF StagesInv, Owns, InLocks
<1> QED BY <1>2 DEF OwnerInv, LockInv

LEMMA OwnerInit == Init => OwnerInv
BY GoneIsFree DEF Init, OwnerInv, StagesInv, LockInv, Owns, InLocks

LEMMA OwnerStep == OwnerInv /\ [Next]_vars => OwnerInv'
<1> SUFFICES ASSUME OwnerInv, [Next]_vars PROVE OwnerInv'
  OBVIOUS
<1>1. CASE UNCHANGED vars
  BY <1>1, OthersKeep DEF vars
<1>2. ASSUME NEW h \in Handles, OpenStep(h) PROVE OwnerInv'
  <2>1. CASE NewDB(h) \/ OpenLog(h) \/ WriteSnapshot(h) \/ WriteTemp(h) \/ EndClean(h)
    BY <2>1, SimpleSteps
  <2>2. CASE RecoverLog(h) \/ LogEdit(h)
    BY <2>2, OtherSteps
  <2>3. CASE Open(h) \/ ReadManifest(h) \/ EditFails(h) \/ RenameTemp(h) \/ SetCurrentFails(h)
    BY <2>3, LockingSteps
  <2>4. CASE DeleteObsoleteFile(h)
    BY <2>4, OthersKeep DEF DeleteObsoleteFile
  <2> QED BY <1>2, <2>1, <2>2, <2>3, <2>4 DEF OpenStep
<1>3. ASSUME NEW h \in Handles, WorldStep(h) PROVE OwnerInv'
  <2>1. CASE SwitchLog(h) \/ StartMerge(h)
    BY <2>1, SimpleSteps
  <2>2. CASE BuildTable(h) \/ \E sync \in BOOLEAN : Write(h, sync)
    BY <2>2, OtherSteps
  <2>3. CASE Close(h)
    BY <2>3, LockingSteps
  <2> QED BY <1>3, <2>1, <2>2, <2>3 DEF WorldStep
<1>4. ASSUME NEW h \in Handles, DestroyStep(h) PROVE OwnerInv'
  <2>1. CASE ListFiles(h) \/ LockToDestroy(h) \/ EndDestroy(h) \/ DeleteLock(h)
    BY <2>1, LockingSteps
  <2>2. CASE DestroyFile(h)
    BY <2>2, OthersKeep DEF DestroyFile
  <2> QED BY <1>4, <2>1, <2>2 DEF DestroyStep
<1>7. ASSUME NEW h \in Handles, LockStep(h) PROVE OwnerInv'
  BY <1>7, Inserts, Locks, LockFails, Closes DEF LockStep
<1>5. ASSUME NEW h \in Handles, RepairStep(h) PROVE OwnerInv'
  <2>1. CASE ArchiveLog(h) \/ WriteDescriptor(h) \/ InstallDescriptor(h)
    BY <2>1, SimpleSteps
  <2>2. CASE \/ ConvertLogToTable(h) \/ ScanTable(h) \/ ArchiveTable(h) \/ RepairTable(h)
             \/ ArchiveManifest(h)
    BY <2>2, OtherSteps
  <2>3. CASE FindFiles(h)
    BY <2>3, LockingSteps
  <2> QED BY <1>5, <2>1, <2>2, <2>3 DEF RepairStep
<1>6. ASSUME NEW n \in DOMAIN tables, Damage(n) PROVE OwnerInv'
  BY <1>6, OthersKeep DEF Damage
<1> QED BY <1>1, <1>2, <1>3, <1>4, <1>5, <1>6, <1>7, ACrash, AMachineCrash DEF Next

(* Whatever opens, failures, destructions, repairs and ends of processes come
   together: a process that has a world open is in locks_ with it, once, and
   as long as no lock was dropped the owner of the world holds the kernel's
   lock of the LOCK file that is there (PosixEnv::LockFile(), UnlockFile()). *)
THEOREM OwnerInvariant == Spec => []OwnerInv
<1>1. Init => OwnerInv
  BY OwnerInit
<1>2. OwnerInv /\ [Next]_vars => OwnerInv'
  BY OwnerStep
<1> QED BY <1>1, <1>2, PTL DEF Spec

(* No two calls have the same world open, in one process or in two, unless a
   lock was dropped before: the exclusion that DB::Open() and DestroyDB() get
   from LockFile(). *)
THEOREM WorldHasOneOwner == Spec => []OneOwnerUnlessDropped
<1>1. OwnerInv => OneOwnerUnlessDropped
  <2> SUFFICES ASSUME OwnerInv, ~dropped PROVE Cardinality(Owners) <= 1
    BY DEF OneOwnerUnlessDropped
  <2>1. \A h, g \in Owners : h = g
    BY DEF Owners, OwnerInv, LockInv, Owns
  <2>2. CASE Owners = {}
    BY <2>2, FS_EmptySet
  <2>3. CASE Owners # {}
    <3>1. PICK h \in Owners : Owners = {h}
      BY <2>1, <2>3
    <3>2. Cardinality({h}) = 1
      BY FS_Singleton
    <3> QED BY <3>1, <3>2
  <2> QED BY <2>2, <2>3
<1> QED BY <1>1, OwnerInvariant, PTL

----------------------------------------------------------------------------
(* What a world holds.  The operators of this part take the files, so that *)
(* they can be compared before and after a step.                           *)

EntsOf(l) == ToSet(l.ents)
SureOf(l) == ToSet(SubSeq(l.ents, 1, l.synced))
IsSure(t) == t.ok /\ t.synced

InTables(e, F, ts)     == \E n \in DOMAIN ts : n \in F /\ e \in ts[n].ents
SureInTables(e, F, ts) == \E n \in DOMAIN ts : n \in F /\ IsSure(ts[n]) /\ e \in ts[n].ents
InLogs(e, K, ls)       == \E n \in DOMAIN ls : n \in K /\ e \in EntsOf(ls[n])
SureInLogs(e, K, ls)   == \E n \in DOMAIN ls : n \in K /\ e \in SureOf(ls[n])

\* The entries A are in the tables F or in the logs K; S are, and stay there
\* when the machine stops.
Hold(A, F, K, ts, ls)     == \A e \in A : InTables(e, F, ts) \/ InLogs(e, K, ls)
HoldSafe(S, F, K, ts, ls) == \A e \in S : SureInTables(e, F, ts) \/ SureInLogs(e, K, ls)
Keeps(A, S, F, K, ts, ls) == Hold(A, F, K, ts, ls) /\ HoldSafe(S, F, K, ts, ls)

From(k) == {n \in Nat : n >= k}

\* What Recover() makes of a MANIFEST, and what it would make of it after a
\* stop of the machine
ViewOf(m)     == Replay(m.recs)
SureViewOf(m) == Replay(SubSeq(m.recs, 1, m.synced))

\* The view of an Open() or a job that has logged its edit
LoggedView(d) == [files |-> d.files, full |-> TRUE, log |-> d.log, next |-> d.next, last |-> d.last]

NumbersOf(v) ==
    v.full => /\ v.next \in Nat /\ v.log \in Nat /\ v.last \in Nat /\ v.log < v.next
              /\ \A n \in v.files : n < v.next

\* The tables F are there and hold nothing written later than last.
GoodTables(F, last, ts) == \A n \in F : n \in DOMAIN ts /\ \A e \in ts[n].ents : e <= last

Lists(v, A, S, ts, ls) ==
    IF v.full THEN Keeps(A, S, v.files, From(v.log), ts, ls) ELSE A = {} /\ S = {}

----------------------------------------------------------------------------
(* The invariant: the files.                                               *)

Edits == [adds : SUBSET (Nat \ {0}), dels : SUBSET (Nat \ {0}), full : {FALSE}]
         \cup [adds : SUBSET (Nat \ {0}), dels : SUBSET (Nat \ {0}), full : {TRUE},
               log : Nat, next : Nat, last : Nat]

FilesInv ==
    /\ DOMAIN manifests \subseteq Nat \ {0} /\ current \in Nat /\ temps \subseteq Nat
    /\ \A n \in DOMAIN manifests : /\ manifests[n] \in [recs : Seq(Edits), synced : Nat]
                                   /\ manifests[n].synced <= Len(manifests[n].recs)
    /\ DOMAIN logs \subseteq Nat \ {0}
    /\ \A n \in DOMAIN logs : /\ logs[n] \in [ents : Seq(Nat), synced : Nat]
                              /\ logs[n].synced <= Len(logs[n].ents)
    /\ DOMAIN tables \subseteq Nat \ {0}
    /\ \A n \in DOMAIN tables : tables[n] \in [ents : SUBSET Nat, ok : BOOLEAN, synced : BOOLEAN]
    /\ acked \subseteq Nat /\ safe \subseteq acked /\ undone \in BOOLEAN

\* Numbers of files and of entries have a greatest: Max() is defined.
BoundInv ==
    \E b \in Nat :
        /\ \A n \in temps \cup DOMAIN logs \cup DOMAIN tables : n \in 0..b
        /\ \A n \in DOMAIN logs : \A e \in EntsOf(logs[n]) : e \in 0..b
        /\ \A n \in DOMAIN tables : \A e \in tables[n].ents : e \in 0..b
        /\ \A h \in Handles : db[h].pc = "copy" => \A e \in db[h].ents : e \in 0..b

\* Nothing is lost from the disk, but for what RepairTable() is copying.
DiskInv ==
    (\A h \in Handles : db[h].pc # "copy") =>
        Keeps(acked, safe, DOMAIN tables, DOMAIN logs, tables, logs)

\* The MANIFEST of CURRENT, in whatever state the world is
CurrentInv ==
    current \in DOMAIN manifests =>
        LET v == ViewOf(manifests[current])
            s == SureViewOf(manifests[current])
        IN  /\ NumbersOf(v) /\ NumbersOf(s)
            /\ v.full => /\ v.next > 0 /\ (current < v.next \/ current = 1)
                         /\ \A n \in s.files : n < v.next
            /\ s.full => s.next > 0 /\ (current < s.next \/ current = 1)

WorldInv ==
    ~undone =>
        /\ current > 1 => /\ current \in DOMAIN manifests
                          /\ ViewOf(manifests[current]).full /\ SureViewOf(manifests[current]).full
        /\ current \in DOMAIN manifests =>
              LET v == ViewOf(manifests[current])
                  s == SureViewOf(manifests[current])
              IN  /\ v.full => GoodTables(v.files, v.last, tables)
                  /\ s.full => GoodTables(s.files, s.last, tables)
                  /\ s.full => HoldSafe(safe, s.files, From(s.log), tables, logs)
                  /\ v.full /\ v.next = 1 => acked = {}
                  /\ s.full /\ s.next = 1 => acked = {}
        /\ Lists(Contents(manifests, current), acked, safe, tables, logs)

----------------------------------------------------------------------------
(* The invariant: the calls.                                               *)

Opening(d) == \/ d.pc \in {"logs", "snapshot"}
              \/ d.pc \in {"edit", "temp", "rename"} /\ d.why = "open"
Working(d) == \/ d.pc \in {"clean", "open", "flush", "merge"}
              \/ d.pc = "edit" /\ d.why = "job"
Creating(d)  == d.pc \in {"temp", "rename"} /\ d.why = "new"
Repairs(d) == \/ d.pc \in {"convert", "archive", "torn", "copy", "retire"}
              \/ d.pc \in {"temp", "rename"} /\ d.why = "repair"

SessionType(d) ==
    /\ {"pc", "why", "mfile", "next", "files", "log", "last", "mem", "adds", "dels",
        "err", "todo", "ino"} \subseteq DOMAIN d
    /\ d.mfile \in Nat \ {0} /\ d.next \in Nat /\ d.log \in Nat /\ d.last \in Nat
    /\ d.files \subseteq Nat \ {0} /\ d.adds \subseteq Nat \ {0} /\ d.dels \subseteq Nat \ {0}
    /\ d.mem \subseteq Nat /\ d.err \in BOOLEAN
    /\ d.mfile < d.next /\ d.log < d.next
    /\ \A n \in d.files \cup d.adds : n < d.next

\* An Open() between Recover() and the rename of CURRENT
OpeningInv(d) ==
    /\ SessionType(d) /\ d.why = "open" /\ d.dels = {} /\ d.mem = {} /\ ~d.err
    /\ d.mfile = current => current = 1 /\ (~undone => acked = {})
    /\ current \in DOMAIN manifests =>
          \A n \in ViewOf(manifests[current]).files \cup SureViewOf(manifests[current]).files :
             n < d.next
    /\ GoodTables(d.adds, d.last, tables)
    /\ ~undone => GoodTables(d.files, d.last, tables)
    /\ IF d.pc = "logs"
       THEN /\ d.todo \subseteq DOMAIN logs
            /\ \A n \in DOMAIN logs : n \in d.todo \/ n < d.next
            /\ Keeps(acked, safe, d.files \cup d.adds, d.todo, tables, logs)
       ELSE /\ d.log \in DOMAIN logs /\ EntsOf(logs[d.log]) = {}
            /\ \A n \in DOMAIN logs : n <= d.log
            /\ Keeps(acked, safe, d.files \cup d.adds, {}, tables, logs)
    /\ d.pc \in {"edit", "temp", "rename"} => d.mfile \in DOMAIN manifests
    /\ d.pc = "edit" =>
          manifests[d.mfile] = [recs |-> <<Record(d.files, {})>>, synced |-> 0]
    /\ d.pc \in {"temp", "rename"} => /\ d.adds \subseteq d.files
                                      /\ ViewOf(manifests[d.mfile]) = LoggedView(d)
                                      /\ manifests[d.mfile].synced = Len(manifests[d.mfile].recs)

\* An open world, and its jobs
WorkingInv(d) ==
    LET v == ViewOf(manifests[current])
    IN  /\ SessionType(d) /\ d.mfile = current /\ current \in DOMAIN manifests
        /\ v.full /\ v.next > 1 /\ v.next <= d.next /\ v.log <= d.log /\ v.last <= d.last
        /\ d.log \in DOMAIN logs /\ \A n \in DOMAIN logs : n <= d.log
        /\ \A n \in DOMAIN logs : n >= v.log => \A e \in EntsOf(logs[n]) : e <= d.last
        /\ \A e \in d.mem : e <= d.last
        /\ Lists(v, acked, safe, tables, logs)
        /\ d.err => d.pc = "open"
        /\ ~d.err => manifests[current].synced = Len(manifests[current].recs) /\ v.files = d.files
        /\ (~d.err /\ d.pc \in {"clean", "open", "merge"}) =>
              v.log = d.log /\ EntsOf(logs[d.log]) \subseteq d.mem
        /\ (~d.err /\ d.pc \in {"open", "flush"}) => d.adds = {} /\ d.dels = {}
        /\ d.pc = "flush" => /\ EntsOf(logs[d.log]) = {}
                             /\ \A n \in DOMAIN logs : n >= v.log => EntsOf(logs[n]) \subseteq d.mem
        /\ d.pc = "merge" => d.dels = d.files /\ d.dels \subseteq DOMAIN tables
        /\ d.pc = "edit" =>
              \E n0 \in DOMAIN tables :
                 /\ d.adds = {n0} /\ IsSure(tables[n0])
                 /\ \A n \in DOMAIN tables : n \in d.dels => tables[n].ents \subseteq tables[n0].ents
                 /\ EntsOf(logs[d.log]) \subseteq d.mem
                 /\ \A n \in DOMAIN logs :
                       n >= v.log => n = d.log \/ EntsOf(logs[n]) \subseteq tables[n0].ents
                 /\ ~undone => \A e \in tables[n0].ents : e <= d.last

\* RepairDB(), between the listing of the directory and the new CURRENT
RepairInv(d) ==
    /\ {"pc", "todo", "scan", "good", "retire", "next"} \subseteq DOMAIN d
    /\ undone /\ d.next \in Nat \ {0} /\ d.good \subseteq Nat \ {0} /\ d.scan \subseteq Nat \ {0}
    /\ \A n \in DOMAIN tables \cup DOMAIN logs : n < d.next
    /\ d.good \cup d.scan \subseteq DOMAIN tables /\ d.good \cap d.scan = {}
    /\ d.pc \in {"convert", "torn", "retire", "temp", "rename"} =>
          \A n \in DOMAIN tables : n \in d.good \cup d.scan \/ tables[n].ents = {}
    /\ d.pc = "convert" => DOMAIN logs = d.todo
    /\ d.pc = "archive" =>
          /\ {"log"} \subseteq DOMAIN d /\ d.log \notin d.todo /\ DOMAIN logs = d.todo \cup {d.log}
          /\ \A n \in DOMAIN tables : n \in d.good \cup d.scan \/ tables[n].ents = {}
          /\ Keeps(acked, safe, DOMAIN tables, d.todo, tables, logs)
    /\ d.pc = "torn" =>
          /\ {"table", "copy", "ents"} \subseteq DOMAIN d
          /\ d.todo = {} /\ DOMAIN logs = {}
          /\ d.table \in d.scan /\ ~tables[d.table].ok /\ d.ents = tables[d.table].ents
          /\ d.copy \in DOMAIN tables /\ d.copy \notin d.good \cup d.scan
    /\ d.pc = "copy" =>
          /\ {"table", "copy", "ents"} \subseteq DOMAIN d
          /\ d.todo = {} /\ DOMAIN logs = {}
          /\ d.ents \subseteq Nat /\ d.table \in Nat \ {0} /\ d.table < d.next
          /\ d.table \notin DOMAIN tables /\ d.copy \in DOMAIN tables
          /\ d.copy \notin d.good \cup d.scan
          /\ \A n \in DOMAIN tables : n \in d.good \cup d.scan \/ tables[n].ents = {}
          /\ \A e \in acked : InTables(e, DOMAIN tables, tables) \/ e \in d.ents
          /\ \A e \in safe : SureInTables(e, DOMAIN tables, tables)
    /\ d.pc \in {"retire", "temp", "rename"} => d.todo = {} /\ d.scan = {} /\ DOMAIN logs = {}
    /\ d.pc \in {"temp", "rename"} =>
          /\ {"mfile", "why"} \subseteq DOMAIN d /\ d.mfile = 1 /\ 1 \in DOMAIN manifests
          /\ manifests[1].synced = 0
          /\ LET v == ViewOf(manifests[1])
             IN  /\ v.full /\ v.files = d.good /\ v.log = 0 /\ v.next = d.next /\ v.last \in Nat
                 /\ \A n \in d.good : \A e \in tables[n].ents : e <= v.last

CallInv(d) ==
    /\ Opening(d) => OpeningInv(d)
    /\ Working(d) => WorkingInv(d)
    /\ Repairs(d) => RepairInv(d)
    /\ Creating(d) =>
          /\ {"mfile", "why"} \subseteq DOMAIN d /\ d.mfile = 1 /\ current = 0
          /\ 1 \in DOMAIN manifests
          /\ manifests[1] = [recs |-> <<FullRecord({}, {}, 0, 2, 0)>>, synced |-> 0]
    /\ d.pc = "destroy" => undone /\ acked = {} /\ safe = {}
    /\ (Idle(d) \/ d.pc \in {"locked", "destroy"} \/ Opening(d) \/ Working(d) \/ Creating(d))
          => "retire" \notin DOMAIN d

CallsInv == \A h \in Handles : CallInv(db[h])
AloneInv == \A h, g \in Handles : Repairs(db[h]) /\ g # h => db[g] = Gone

NoTwoOwners == \A h, g \in Handles : Owns(h) /\ Owns(g) => h = g

WholeInv == /\ FilesInv /\ BoundInv /\ DiskInv /\ CurrentInv /\ WorldInv
            /\ CallsInv /\ AloneInv

----------------------------------------------------------------------------
(* Numbers, sequences and MANIFESTs.                                       *)

LEMMA LeastNumber ==
    ASSUME NEW T \in SUBSET Nat, T # {}
    PROVE  \E x \in T : \A y \in T : x <= y
<1>1. PICK x \in T : \A y \in T : ~(<<y, x>> \in OpToRel(<, Nat))
  BY NatLessThanWellFounded, WFMin
<1>2. OpToRel(<, Nat) = {ss \in Nat \X Nat : ss[1] < ss[2]}
  BY Zenon DEF OpToRel
<1>3. ASSUME NEW y \in T
      PROVE  x <= y
  <2>1. ~(<<y, x>> \in {ss \in Nat \X Nat : ss[1] < ss[2]})
    BY <1>1, <1>2, Zenon
  <2> QED BY <2>1
<1> QED BY <1>3

LEMMA MinIn ==
    ASSUME NEW T \in SUBSET Nat, T # {}
    PROVE  Min(T) \in T /\ \A y \in T : Min(T) <= y
BY LeastNumber DEF Min

\* Max() of a set that has an upper bound
LEMMA MaxIn ==
    ASSUME NEW T \in SUBSET Nat, T # {}, NEW b \in Nat, \A y \in T : y <= b
    PROVE  Max(T) \in T /\ \A y \in T : Max(T) >= y
<1> DEFINE U == {b - y : y \in T}
<1>1. \A y \in T : b - y \in Nat
  OBVIOUS
<1>2. U \in SUBSET Nat /\ U # {}
  BY <1>1
<1>3. PICK u \in U : \A w \in U : u <= w
  BY <1>2, LeastNumber
<1>4. PICK x \in T : u = b - x
  BY <1>3
<1>5. ASSUME NEW y \in T PROVE x >= y
  BY <1>3, <1>4, b - y \in U
<1> QED BY <1>4, <1>5 DEF Max

LEMMA SetOfEmpty == ToSet(<<>>) = {}
BY DEF ToSet

LEMMA SetOfAppend ==
    ASSUME NEW s \in Seq(Nat), NEW e \in Nat
    PROVE  /\ Append(s, e) \in Seq(Nat) /\ Len(Append(s, e)) = Len(s) + 1
           /\ ToSet(Append(s, e)) = ToSet(s) \cup {e}
           /\ SubSeq(Append(s, e), 1, Len(s) + 1) = Append(s, e)
           /\ \A k \in 0..Len(s) : SubSeq(Append(s, e), 1, k) = SubSeq(s, 1, k)
<1>1. Append(s, e) \in Seq(Nat) /\ Len(Append(s, e)) = Len(s) + 1
  OBVIOUS
<1>2. ToSet(Append(s, e)) \subseteq ToSet(s) \cup {e}
  BY <1>1 DEF ToSet
<1>3. ToSet(s) \subseteq ToSet(Append(s, e))
  <2> SUFFICES ASSUME NEW i \in DOMAIN s PROVE s[i] \in ToSet(Append(s, e))
    BY DEF ToSet
  <2>1. Append(s, e)[i] = s[i] /\ i \in DOMAIN Append(s, e)
    OBVIOUS
  <2> QED BY <2>1 DEF ToSet
<1>4. e \in ToSet(Append(s, e))
  <2>1. Append(s, e)[Len(s) + 1] = e /\ Len(s) + 1 \in DOMAIN Append(s, e)
    OBVIOUS
  <2> QED BY <2>1 DEF ToSet
<1>5. SubSeq(Append(s, e), 1, Len(s) + 1) = Append(s, e)
  BY <1>1, SubSeqFull
<1>6. ASSUME NEW k \in 0..Len(s) PROVE SubSeq(Append(s, e), 1, k) = SubSeq(s, 1, k)
  <2>1. /\ SubSeq(Append(s, e), 1, k) \in Seq(Nat) /\ Len(SubSeq(Append(s, e), 1, k)) = k
        /\ SubSeq(s, 1, k) \in Seq(Nat) /\ Len(SubSeq(s, 1, k)) = k
    BY <1>1
  <2>2. \A i \in 1..k : SubSeq(Append(s, e), 1, k)[i] = SubSeq(s, 1, k)[i]
    BY <1>1
  <2> QED BY <2>1, <2>2, SeqEqual
<1> QED BY <1>1, <1>2, <1>3, <1>4, <1>5, <1>6

LEMMA SetOfSubSeq ==
    ASSUME NEW s \in Seq(Nat), NEW k \in 0..Len(s)
    PROVE  /\ SubSeq(s, 1, k) \in Seq(Nat) /\ Len(SubSeq(s, 1, k)) = k
           /\ ToSet(SubSeq(s, 1, k)) \subseteq ToSet(s) /\ ToSet(s) \subseteq Nat
           /\ SubSeq(SubSeq(s, 1, k), 1, k) = SubSeq(s, 1, k)
           /\ SubSeq(s, 1, Len(s)) = s
<1>1. SubSeq(s, 1, k) \in Seq(Nat) /\ Len(SubSeq(s, 1, k)) = k
  OBVIOUS
<1>2. SubSeq(SubSeq(s, 1, k), 1, k) = SubSeq(s, 1, k)
  BY <1>1, SubSeqFull
<1>3. SubSeq(s, 1, Len(s)) = s
  BY SubSeqFull
<1>4. ToSet(SubSeq(s, 1, k)) \subseteq ToSet(s)
  <2> SUFFICES ASSUME NEW i \in 1..k PROVE SubSeq(s, 1, k)[i] \in ToSet(s)
    BY <1>1 DEF ToSet
  <2>1. SubSeq(s, 1, k)[i] = s[i] /\ i \in DOMAIN s
    OBVIOUS
  <2> QED BY <2>1 DEF ToSet
<1>5. ToSet(s) \subseteq Nat
  BY DEF ToSet
<1> QED BY <1>1, <1>2, <1>3, <1>4, <1>5

\* A prefix of the records of a MANIFEST
LEMMA Prefix ==
    ASSUME NEW recs \in Seq(Edits), NEW k \in 0..Len(recs)
    PROVE  /\ SubSeq(recs, 1, k) \in Seq(Edits) /\ Len(SubSeq(recs, 1, k)) = k
           /\ SubSeq(SubSeq(recs, 1, k), 1, k) = SubSeq(recs, 1, k)
           /\ SubSeq(recs, 1, Len(recs)) = recs
<1>1. SubSeq(recs, 1, k) \in Seq(Edits) /\ Len(SubSeq(recs, 1, k)) = k
  OBVIOUS
<1>2. SubSeq(SubSeq(recs, 1, k), 1, k) = SubSeq(recs, 1, k)
  BY <1>1, SubSeqFull
<1>3. SubSeq(recs, 1, Len(recs)) = recs
  BY SubSeqFull
<1> QED BY <1>1, <1>2, <1>3

LEMMA AppendPrefix ==
    ASSUME NEW recs \in Seq(Edits), NEW r \in Edits
    PROVE  /\ Append(recs, r) \in Seq(Edits) /\ Len(Append(recs, r)) = Len(recs) + 1
           /\ SubSeq(Append(recs, r), 1, Len(recs) + 1) = Append(recs, r)
           /\ \A k \in 0..Len(recs) : SubSeq(Append(recs, r), 1, k) = SubSeq(recs, 1, k)
<1>1. Append(recs, r) \in Seq(Edits) /\ Len(Append(recs, r)) = Len(recs) + 1
  OBVIOUS
<1>5. SubSeq(Append(recs, r), 1, Len(recs) + 1) = Append(recs, r)
  BY <1>1, SubSeqFull
<1>6. ASSUME NEW k \in 0..Len(recs) PROVE SubSeq(Append(recs, r), 1, k) = SubSeq(recs, 1, k)
  <2>1. /\ SubSeq(Append(recs, r), 1, k) \in Seq(Edits) /\ Len(SubSeq(Append(recs, r), 1, k)) = k
        /\ SubSeq(recs, 1, k) \in Seq(Edits) /\ Len(SubSeq(recs, 1, k)) = k
    BY <1>1
  <2>2. \A i \in 1..k : SubSeq(Append(recs, r), 1, k)[i] = SubSeq(recs, 1, k)[i]
    BY <1>1
  <2> QED BY <2>1, <2>2, SeqEqual
<1> QED BY <1>1, <1>5, <1>6

\* VersionSet::Recover() of a MANIFEST without records
LEMMA ReplayOfNothing ==
    Replay(<<>>) = [files |-> {}, full |-> FALSE, log |-> 0, next |-> 0, last |-> 0]
<1>1. LiveFiles(<<>>) = {}
  BY DEF LiveFiles
<1>2. {i \in 1..Len(<<>>) : <<>>[i].full} = {}
  OBVIOUS
<1> QED BY <1>1, <1>2 DEF Replay

LEMMA FilesOfAppend ==
    ASSUME NEW recs \in Seq(Edits), NEW r \in Edits
    PROVE  LiveFiles(Append(recs, r)) = (LiveFiles(recs) \ r.dels) \cup r.adds
<1> DEFINE all == Append(recs, r)
           L == Len(recs)
<1>1. L \in Nat /\ Len(all) = L + 1 /\ all[L + 1] = r /\ \A i \in 1..L : all[i] = recs[i]
  OBVIOUS
<1>2. ASSUME NEW n PROVE n \in LiveFiles(all) <=> (n \in LiveFiles(recs) /\ n \notin r.dels) \/ n \in r.adds
  <2>1. n \in LiveFiles(all) <=> \E i \in 1..L + 1 : n \in all[i].adds
                                   /\ \A j \in i + 1..L + 1 : n \notin all[j].dels
    BY <1>1 DEF LiveFiles
  <2>2. n \in LiveFiles(recs) <=> \E i \in 1..L : n \in recs[i].adds
                                   /\ \A j \in i + 1..L : n \notin recs[j].dels
    BY <1>1 DEF LiveFiles
  <2> HIDE DEF all
  <2>3. ASSUME n \in r.adds PROVE n \in LiveFiles(all)
    BY <1>1, <2>1, <2>3
  <2>4. ASSUME n \in LiveFiles(recs), n \notin r.dels PROVE n \in LiveFiles(all)
    <3>1. PICK i \in 1..L : n \in recs[i].adds /\ \A j \in i + 1..L : n \notin recs[j].dels
      BY <2>2, <2>4
    <3>2. \A j \in i + 1..L + 1 : j = L + 1 \/ j \in i + 1..L
      BY <1>1
    <3> QED BY <1>1, <2>1, <2>4, <3>1, <3>2
  <2>5. ASSUME n \in LiveFiles(all), n \notin r.adds
        PROVE  n \in LiveFiles(recs) /\ n \notin r.dels
    <3>1. PICK i \in 1..L + 1 : n \in all[i].adds /\ \A j \in i + 1..L + 1 : n \notin all[j].dels
      BY <2>1, <2>5
    <3>2. i \in 1..L
      BY <1>1, <2>5, <3>1
    <3>3. L + 1 \in i + 1..L + 1 /\ \A j \in i + 1..L : j \in i + 1..L + 1 /\ j \in 1..L
      BY <1>1, <3>2
    <3> QED BY <1>1, <2>2, <3>1, <3>2, <3>3
  <2> QED BY <2>3, <2>4, <2>5
<1> QED BY <1>2

\* Every record but those of WriteSnapshot() says all numbers.
LEMMA ReplayOfAppend ==
    ASSUME NEW recs \in Seq(Edits), NEW r \in Edits, r.full
    PROVE  Replay(Append(recs, r)) =
              [files |-> (Replay(recs).files \ r.dels) \cup r.adds, full |-> TRUE,
               log |-> r.log, next |-> r.next, last |-> r.last]
<1> DEFINE all == Append(recs, r)
           full == {i \in 1..Len(all) : all[i].full}
<1>1. Len(recs) \in Nat /\ Len(all) = Len(recs) + 1 /\ all[Len(recs) + 1] = r
  OBVIOUS
<1>2. full \in SUBSET Nat /\ Len(recs) + 1 \in full /\ \A y \in full : y <= Len(recs) + 1
  BY <1>1
<1>3. Max(full) \in full /\ \A y \in full : Max(full) >= y
  BY <1>1, <1>2, MaxIn
<1>9. \A m : m \in full /\ (\A y \in full : m >= y) => m = Len(recs) + 1
  <2> HIDE DEF full, all
  <2> QED BY <1>1, <1>2
<1>4. Max(full) = Len(recs) + 1
  BY <1>3, <1>9, Zenon
<1>5. Replay(recs).files = LiveFiles(recs)
  BY DEF Replay
<1>6. LiveFiles(all) = (LiveFiles(recs) \ r.dels) \cup r.adds
  BY FilesOfAppend
<1>7. full # {} /\ all[Max(full)] = r
  BY <1>1, <1>2, <1>4
<1>8. Replay(all) = [files |-> LiveFiles(all), full |-> TRUE, log |-> r.log, next |-> r.next,
                     last |-> r.last]
  BY <1>7 DEF Replay
<1> QED BY <1>5, <1>6, <1>8

LEMMA ReplayOfOne ==
    ASSUME NEW r \in Edits
    PROVE  /\ r.full => Replay(<<r>>) = [files |-> r.adds, full |-> TRUE, log |-> r.log,
                                         next |-> r.next, last |-> r.last]
           /\ ~r.full => /\ Replay(<<r>>).files = r.adds /\ Replay(<<r>>).full = FALSE
           /\ <<r>> \in Seq(Edits) /\ Len(<<r>>) = 1 /\ SubSeq(<<r>>, 1, 0) = <<>>
<1>1. <<>> \in Seq(Edits) /\ Append(<<>>, r) = <<r>> /\ <<r>> \in Seq(Edits) /\ Len(<<r>>) = 1
  OBVIOUS
<1>2. SubSeq(<<r>>, 1, 0) = <<>>
  BY <1>1
<1>3. LiveFiles(<<>>) = {} /\ Replay(<<>>).files = {}
  BY ReplayOfNothing DEF LiveFiles
<1>4. LiveFiles(<<r>>) = r.adds
  <2>1. LiveFiles(Append(<<>>, r)) = (LiveFiles(<<>>) \ r.dels) \cup r.adds
    BY <1>1, FilesOfAppend
  <2> QED BY <1>1, <1>3, <2>1, Zenon
<1>5. CASE r.full
  BY <1>1, <1>2, <1>3, <1>5, ReplayOfAppend
<1>6. CASE ~r.full
  <2>1. {i \in 1..Len(<<r>>) : <<r>>[i].full} = {}
    BY <1>1, <1>6
  <2> QED BY <1>1, <1>2, <1>4, <1>6, <2>1 DEF Replay
<1> QED BY <1>5, <1>6

----------------------------------------------------------------------------
(* Files that come, go and stay.                                           *)

LEMMA KeepsOn ==
    ASSUME NEW A, NEW S, NEW F, NEW K, NEW ts, NEW ls, Keeps(A, S, F, K, ts, ls),
           NEW A2, NEW S2, NEW F2, NEW K2, NEW ts2, NEW ls2, A2 \subseteq A, S2 \subseteq S,
           \A n \in DOMAIN ts : n \in F => n \in F2 /\ n \in DOMAIN ts2 /\ ts2[n] = ts[n],
           \A n \in DOMAIN ls : n \in K => n \in K2 /\ n \in DOMAIN ls2 /\ ls2[n] = ls[n]
    PROVE  Keeps(A2, S2, F2, K2, ts2, ls2)
<1>1. ASSUME NEW e \in A2 PROVE InTables(e, F2, ts2) \/ InLogs(e, K2, ls2)
  <2>1. InTables(e, F, ts) \/ InLogs(e, K, ls)
    BY <1>1 DEF Keeps, Hold
  <2> QED BY <2>1 DEF InTables, InLogs
<1>2. ASSUME NEW e \in S2 PROVE SureInTables(e, F2, ts2) \/ SureInLogs(e, K2, ls2)
  <2>1. SureInTables(e, F, ts) \/ SureInLogs(e, K, ls)
    BY <1>2 DEF Keeps, HoldSafe
  <2> QED BY <2>1 DEF SureInTables, SureInLogs
<1> QED BY <1>1, <1>2 DEF Keeps, Hold, HoldSafe

\* A step that leaves CURRENT, its MANIFEST and the files that it names
LEMMA WorldOn ==
    ASSUME CurrentInv, WorldInv, current' = current, undone' = undone,
           current \in DOMAIN manifests <=> current \in DOMAIN manifests',
           current \in DOMAIN manifests => manifests'[current] = manifests[current],
           acked' \subseteq acked, safe' \subseteq safe,
           current \in DOMAIN manifests =>
              \A n \in DOMAIN tables :
                 n \in ViewOf(manifests[current]).files \cup SureViewOf(manifests[current]).files
                    => n \in DOMAIN tables' /\ tables'[n] = tables[n],
           \A n \in DOMAIN logs : n \in DOMAIN logs' /\ logs'[n] = logs[n]
    PROVE  CurrentInv' /\ WorldInv'
<1>1. CurrentInv'
  BY DEF CurrentInv
<1>2. ASSUME ~undone' PROVE
        /\ current' > 1 => /\ current' \in DOMAIN manifests'
                           /\ ViewOf(manifests'[current']).full /\ SureViewOf(manifests'[current']).full
  BY <1>2 DEF WorldInv
<1>3. ASSUME ~undone, current \in DOMAIN manifests
      PROVE  LET v == ViewOf(manifests[current])
                 s == SureViewOf(manifests[current])
             IN  /\ v.full => GoodTables(v.files, v.last, tables')
                 /\ s.full => GoodTables(s.files, s.last, tables')
                 /\ s.full => HoldSafe(safe', s.files, From(s.log), tables', logs')
                 /\ v.full /\ v.next = 1 => acked' = {}
                 /\ s.full /\ s.next = 1 => acked' = {}
  <2> DEFINE v == ViewOf(manifests[current])
             s == SureViewOf(manifests[current])
  <2> HIDE DEF v, s
  <2>1. \A n \in DOMAIN tables : n \in v.files \cup s.files => n \in DOMAIN tables' /\ tables'[n] = tables[n]
    BY <1>3 DEF v, s
  <2>2. /\ v.full => GoodTables(v.files, v.last, tables)
        /\ s.full => GoodTables(s.files, s.last, tables)
        /\ s.full => HoldSafe(safe, s.files, From(s.log), tables, logs)
        /\ v.full /\ v.next = 1 => acked = {}
        /\ s.full /\ s.next = 1 => acked = {}
    BY <1>3 DEF WorldInv, v, s
  <2>3. v.full => GoodTables(v.files, v.last, tables')
    BY <2>1, <2>2 DEF GoodTables
  <2>4. s.full => GoodTables(s.files, s.last, tables')
    BY <2>1, <2>2 DEF GoodTables
  <2>5. ASSUME s.full PROVE HoldSafe(safe', s.files, From(s.log), tables', logs')
    <3>1. Keeps({}, safe, s.files, From(s.log), tables, logs)
      BY <2>2, <2>5 DEF Keeps, Hold
    <3>2. Keeps({}, safe', s.files, From(s.log), tables', logs')
      BY <2>1, <3>1, KeepsOn
    <3> QED BY <3>2 DEF Keeps
  <2> QED BY <2>2, <2>3, <2>4, <2>5 DEF v, s
<1>4. ASSUME ~undone PROVE Lists(Contents(manifests, current), acked', safe', tables', logs')
  <2> DEFINE c == Contents(manifests, current)
  <2>1. Lists(c, acked, safe, tables, logs)
    BY <1>4 DEF WorldInv
  <2>2. ASSUME ~c.full PROVE Lists(c, acked', safe', tables', logs')
    <3> HIDE DEF c
    <3> QED BY <2>1, <2>2 DEF Lists
  <2>3. ASSUME c.full PROVE Lists(c, acked', safe', tables', logs')
    <3>1. current \in DOMAIN manifests /\ c = ViewOf(manifests[current])
      BY <2>3, ReplayOfNothing DEF Contents, ViewOf
    <3>2. \A n \in DOMAIN tables : n \in c.files => n \in DOMAIN tables' /\ tables'[n] = tables[n]
      BY <3>1
    <3> HIDE DEF c
    <3>3. Keeps(acked, safe, c.files, From(c.log), tables, logs)
      BY <2>1, <2>3 DEF Lists
    <3>4. Keeps(acked', safe', c.files, From(c.log), tables', logs')
      BY <3>2, <3>3, KeepsOn
    <3> QED BY <2>3, <3>4 DEF Lists
  <2> QED BY <2>2, <2>3
<1>5. Contents(manifests', current') = Contents(manifests, current)
  BY DEF Contents
<1>6. WorldInv'
  <2> SUFFICES ASSUME ~undone' PROVE WorldInv'
    BY DEF WorldInv
  <2>1. ~undone
    OBVIOUS
  <2>2. Lists(Contents(manifests', current'), acked', safe', tables', logs')
    BY <1>4, <1>5, <2>1
  <2> QED BY <1>2, <1>3, <2>1, <2>2 DEF WorldInv
<1> QED BY <1>1, <1>6

LEMMA DiskKeeps ==
    ASSUME NEW F, NEW K, Keeps(acked', safe', F, K, tables', logs')
    PROVE  DiskInv'
<1>1. Keeps(acked', safe', DOMAIN tables', DOMAIN logs', tables', logs')
  BY KeepsOn
<1> QED BY <1>1 DEF DiskInv

OldEntry(e) == \/ \E n \in DOMAIN logs : e \in EntsOf(logs[n])
               \/ \E n \in DOMAIN tables : e \in tables[n].ents
               \/ \E h \in Handles : db[h].pc = "copy" /\ e \in db[h].ents

LEMMA BoundOn ==
    ASSUME BoundInv, NEW c \in Nat,
           \A n \in temps' \cup DOMAIN logs' \cup DOMAIN tables' :
              n \in 0..c \/ n \in temps \cup DOMAIN logs \cup DOMAIN tables,
           \A n \in DOMAIN logs' : \A e \in EntsOf(logs'[n]) : e \in 0..c \/ OldEntry(e),
           \A n \in DOMAIN tables' : \A e \in tables'[n].ents : e \in 0..c \/ OldEntry(e),
           \A h \in Handles : db'[h].pc = "copy" => \A e \in db'[h].ents : e \in 0..c \/ OldEntry(e)
    PROVE  BoundInv'
<1>1. PICK b \in Nat :
        /\ \A n \in temps \cup DOMAIN logs \cup DOMAIN tables : n \in 0..b
        /\ \A e : OldEntry(e) => e \in 0..b
  BY DEF BoundInv, OldEntry
<1>2. b + c \in Nat /\ \A e : e \in 0..b \/ e \in 0..c => e \in 0..(b + c)
  OBVIOUS
<1>3. \A n \in temps' \cup DOMAIN logs' \cup DOMAIN tables' : n \in 0..(b + c)
  BY <1>1, <1>2
<1>4. \A n \in DOMAIN logs' : \A e \in EntsOf(logs'[n]) : e \in 0..(b + c)
  BY <1>1, <1>2
<1>5. \A n \in DOMAIN tables' : \A e \in tables'[n].ents : e \in 0..(b + c)
  BY <1>1, <1>2
<1>6. \A h \in Handles : db'[h].pc = "copy" => \A e \in db'[h].ents : e \in 0..(b + c)
  BY <1>1, <1>2
<1> QED BY <1>2, <1>3, <1>4, <1>5, <1>6 DEF BoundInv

----------------------------------------------------------------------------
(* The other calls.                                                        *)

LEMMA OthersIdle ==
    ASSUME OwnerInv, NoTwoOwners, AloneInv, NEW h \in Handles, Owns(h) \/ Repairs(db[h]),
           NEW g \in Handles, g # h
    PROVE  Idle(db[g])
<1>1. Stage(db[g]) /\ Stage(db[h])
  BY DEF OwnerInv, StagesInv
<1>2. CASE Repairs(db[h])
  BY <1>2 DEF AloneInv, Gone
<1>3. CASE Owns(h)
  <2>1. ~Owns(g) /\ ~Repairs(db[g])
    BY <1>3, GoneIsFree DEF NoTwoOwners, AloneInv, Owns
  <2> QED BY <1>1, <2>1 DEF Stage, Held, Free, Owns, Repairs
<1> QED BY <1>2, <1>3

LEMMA IdleCall ==
    ASSUME NEW g \in Handles, Idle(db[g]), db'[g] = db[g],
           CallInv(db[g])
    PROVE  (CallInv(db[g]))'
BY DEF CallInv, Opening, Working, Creating, Repairs

\* A call that has the lock, or repairs, goes on.
LEMMA CallsOn ==
    ASSUME OwnerInv, NoTwoOwners, AloneInv, CallsInv, NEW h \in Handles,
           Owns(h) \/ Repairs(db[h]), \A g \in Handles \ {h} : db'[g] = db[g],
           (CallInv(db[h]))', (Repairs(db[h]))' => Repairs(db[h])
    PROVE  CallsInv' /\ AloneInv'
<1>1. \A g \in Handles \ {h} : Idle(db[g])
  BY OthersIdle
<1>2. ASSUME NEW g \in Handles PROVE (CallInv(db[g]))'
  <2>1. CASE g = h
    BY <2>1
  <2>2. CASE g # h
    BY <1>1, <2>2, IdleCall DEF CallsInv
  <2> QED BY <2>1, <2>2
<1>3. AloneInv'
  BY <1>1 DEF AloneInv, Repairs
<1> QED BY <1>2, <1>3 DEF CallsInv

\* What a call relies on is the same after a step that leaves it and the files.
LEMMA SameCall ==
    ASSUME NEW g \in Handles, db'[g] = db[g], CallInv(db[g]),
           UNCHANGED <<manifests, current, temps, logs, tables, acked, safe, undone>>
    PROVE  (CallInv(db[g]))'
<1> DEFINE d == db[g]
<1>1. OpeningInv(d) => (OpeningInv(db[g]))'
  BY DEF OpeningInv
<1>2. WorkingInv(d) => (WorkingInv(db[g]))'
  BY DEF WorkingInv
<1>3. RepairInv(d) => (RepairInv(db[g]))'
  BY DEF RepairInv
<1> QED BY <1>1, <1>2, <1>3 DEF CallInv

\* A call that leaves the world alone
LEMMA Untouched ==
    ASSUME OwnerInv, WholeInv, NEW h \in Handles, UNCHANGED <<diskVars, goalVars>>,
           \A g \in Handles \ {h} : db'[g] = db[g], db[h].pc # "copy", db'[h].pc # "copy",
           (CallInv(db[h]))', ~(Repairs(db[h]))', \A g \in Handles \ {h} : ~Repairs(db[g])
    PROVE  WholeInv'
<1> USE DEF diskVars, nameVars, tableVars, goalVars
<1>1. FilesInv' /\ CurrentInv' /\ WorldInv'
  BY DEF WholeInv, FilesInv, CurrentInv, WorldInv
<1>2. \A g \in Handles : db'[g].pc = "copy" => db[g].pc = "copy" /\ db'[g] = db[g]
  OBVIOUS
<1>3. BoundInv'
  BY <1>2 DEF WholeInv, BoundInv
<1>4. (\A g \in Handles : db'[g].pc # "copy") => \A g \in Handles : db[g].pc # "copy"
  BY DEF Repairs
<1>5. DiskInv'
  BY <1>4 DEF WholeInv, DiskInv
<1>6. ASSUME NEW g \in Handles PROVE (CallInv(db[g]))'
  <2>1. CASE g = h
    BY <2>1
  <2>2. CASE g # h
    <3>1. CallInv(db[g]) /\ db'[g] = db[g]
      BY <2>2 DEF WholeInv, CallsInv
    <3> QED BY <3>1, SameCall
  <2> QED BY <2>1, <2>2
<1>7. AloneInv'
  BY DEF AloneInv, Repairs
<1> QED BY <1>1, <1>3, <1>5, <1>6, <1>7 DEF WholeInv, CallsInv

----------------------------------------------------------------------------
(* The steps with the lock, and DestroyDB().                               *)

Sane == OwnerInv /\ NoTwoOwners /\ WholeInv

LEMMA StepFacts ==
    ASSUME OwnerInv, NEW h \in Handles, NEW to, Step(h, to)
    PROVE  /\ DOMAIN db' = Handles /\ \A g \in Handles \ {h} : db'[g] = db[g]
           /\ db'[h] = Changed(db[h], to)
BY DEF Step, OwnerInv, StagesInv

LEMMA GoneFacts ==
    ASSUME OwnerInv, NEW h \in Handles, db' = [db EXCEPT ![h] = Gone]
    PROVE  /\ DOMAIN db' = Handles /\ \A g \in Handles \ {h} : db'[g] = db[g]
           /\ db'[h] = Gone
BY DEF OwnerInv, StagesInv

LEMMA GoneCall ==
    ASSUME NEW h \in Handles, db'[h] = Gone
    PROVE  (CallInv(db[h]))' /\ ~(Repairs(db[h]))' /\ db'[h].pc = "none"
BY DEF CallInv, Opening, Working, Creating, Repairs, Gone

\* ... and of UnlockFile()
LEMMA UnlockFacts ==
    ASSUME OwnerInv, NEW h \in Handles, NEW then \in {"close", "destroyed"}, UnlockFile(h, then)
    PROVE  /\ DOMAIN db' = Handles /\ \A g \in Handles \ {h} : db'[g] = db[g]
           /\ db'[h] = [pc |-> then, fd |-> db[h].ino]
           /\ (CallInv(db[h]))' /\ ~(Repairs(db[h]))' /\ db'[h].pc # "copy"
<1>1. /\ DOMAIN db' = Handles /\ \A g \in Handles \ {h} : db'[g] = db[g]
      /\ db'[h] = [pc |-> then, fd |-> db[h].ino]
  BY DEF UnlockFile, OwnerInv, StagesInv
<1> QED BY <1>1 DEF CallInv, Opening, Working, Creating, Repairs

LEMMA DestructFacts ==
    ASSUME OwnerInv, NEW h \in Handles, Destruct(h)
    PROVE  /\ DOMAIN db' = Handles /\ \A g \in Handles \ {h} : db'[g] = db[g]
           /\ (CallInv(db[h]))' /\ ~(Repairs(db[h]))' /\ db'[h].pc # "copy"
BY UnlockFacts DEF Destruct

LEMMA NobodyRepairs ==
    ASSUME CallsInv, ~Repairing, NEW g \in Handles
    PROVE  ~Repairs(db[g])
BY DEF CallsInv, CallInv, RepairInv, Repairing

LEMMA NobodyBeside ==
    ASSUME AloneInv, NEW h \in Handles, db[h] # Gone, NEW g \in Handles, g # h
    PROVE  ~Repairs(db[g])
BY DEF AloneInv

\* A call that has not got the lock goes on, or has got it and not looked at the files.
LEMMA StillOutside ==
    ASSUME Sane, NEW h \in Handles, Idle(db[h]), UNCHANGED <<diskVars, goalVars>>,
           \A g \in Handles \ {h} : db'[g] = db[g] /\ ~Repairs(db[g]),
           Idle(db'[h]) \/ db'[h].pc = "locked", "retire" \notin DOMAIN db'[h]
    PROVE  WholeInv'
<1>1. db[h].pc # "copy" /\ db'[h].pc # "copy" /\ (CallInv(db[h]))' /\ ~(Repairs(db[h]))'
  BY DEF CallInv, Opening, Working, Creating, Repairs
<1> QED BY <1>1, Untouched DEF Sane

LEMMA OpenLockFacts ==
    ASSUME OwnerInv, NEW h \in Handles, NEW call, OpenLock(h, call), "retire" \notin DOMAIN call
    PROVE  /\ \A g \in Handles \ {h} : db'[g] = db[g]
           /\ Idle(db'[h]) /\ "retire" \notin DOMAIN db'[h]
<1>1. /\ \A g \in Handles \ {h} : db'[g] = db[g]
      /\ db'[h] = Changed(call, [pc |-> "insert", fd |-> Inode])
  BY DEF OpenLock, OwnerInv, StagesInv
<1> QED BY <1>1 DEF Changed

LEMMA OpenKeeps ==
    ASSUME Sane, NEW h \in Handles, Open(h)
    PROVE  WholeInv'
<1>1. db[h] = Gone /\ ~Repairing /\ OpenLock(h, Gone) /\ UNCHANGED <<diskVars, goalVars>>
  BY DEF Open
<1>2. \A g \in Handles : ~Repairs(db[g])
  BY <1>1, NobodyRepairs DEF Sane, WholeInv
<1>3. "retire" \notin DOMAIN Gone /\ Idle(db[h])
  BY <1>1 DEF Gone
<1>4. /\ \A g \in Handles \ {h} : db'[g] = db[g]
      /\ Idle(db'[h]) /\ "retire" \notin DOMAIN db'[h]
  BY <1>1, <1>3, OpenLockFacts DEF Sane
<1> QED BY <1>1, <1>2, <1>3, <1>4, StillOutside

\* The steps of LockFile(), but for the last of a DestroyDB(), and the end of UnlockFile()
LEMMA LockingKeeps ==
    ASSUME Sane, NEW h \in Handles,
           LockToDestroy(h) \/ InsertLock(h) \/ SetLockFails(h) \/ CloseLock(h)
    PROVE  WholeInv'
<1>1. /\ db[h].pc \in {"listed", "insert", "fcntl", "close", "destroyed"}
      /\ UNCHANGED <<diskVars, goalVars>>
  BY DEF LockToDestroy, InsertLock, SetLockFails, CloseLock, At
<1>2. \A g \in Handles \ {h} : ~Repairs(db[g])
  BY <1>1, NobodyBeside DEF Sane, WholeInv, Gone
<1>3. "retire" \notin DOMAIN db[h] /\ Idle(db[h])
  BY <1>1 DEF Sane, WholeInv, CallsInv, CallInv
<1>4. /\ \A g \in Handles \ {h} : db'[g] = db[g]
      /\ Idle(db'[h]) /\ "retire" \notin DOMAIN db'[h]
  <2>1. CASE LockToDestroy(h)
    BY <1>3, <2>1, OpenLockFacts DEF LockToDestroy, Sane
  <2>2. CASE InsertLock(h)
    <3>1. PICK pc \in {"close", "fcntl"} : Step(h, [pc |-> pc])
      BY <2>2 DEF InsertLock
    <3>2. /\ \A g \in Handles \ {h} : db'[g] = db[g]
          /\ db'[h] = Changed(db[h], [pc |-> pc])
      BY <3>1, StepFacts DEF Sane
    <3> QED BY <1>3, <3>2 DEF Changed
  <2>3. CASE SetLockFails(h) \/ CloseLock(h)
    <3>1. db' = [db EXCEPT ![h] = Gone] \/ db' = [db EXCEPT ![h] = [pc |-> "unlink"]]
      BY <2>3 DEF SetLockFails, CloseLock
    <3> QED BY <3>1 DEF Sane, OwnerInv, StagesInv, Gone
  <2> QED BY <2>1, <2>2, <2>3
<1> QED BY <1>1, <1>2, <1>3, <1>4, StillOutside

LEMMA ListKeeps ==
    ASSUME Sane, NEW h \in Handles, ListFiles(h)
    PROVE  WholeInv'
<1>1. /\ db[h] = Gone /\ ~Repairing /\ db' = [db EXCEPT ![h] = [pc |-> "listed", list |-> Listing]]
      /\ UNCHANGED <<diskVars, goalVars>>
  BY DEF ListFiles
<1>2. /\ \A g \in Handles \ {h} : db'[g] = db[g]
      /\ db'[h] = [pc |-> "listed", list |-> Listing]
  BY <1>1 DEF Sane, OwnerInv, StagesInv
<1>3. \A g \in Handles : ~Repairs(db[g])
  BY <1>1, NobodyRepairs DEF Sane, WholeInv
<1>4. db[h].pc # "copy" /\ db'[h].pc # "copy" /\ (CallInv(db[h]))' /\ ~(Repairs(db[h]))'
  BY <1>1, <1>2 DEF CallInv, Opening, Working, Creating, Repairs, Gone
<1> QED BY <1>1, <1>2, <1>3, <1>4, Untouched DEF Sane

\* Close(), the end of DestroyDB() and the removal of its LOCK
LEMMA EndKeeps ==
    ASSUME Sane, NEW h \in Handles, Close(h) \/ EndDestroy(h) \/ DeleteLock(h)
    PROVE  WholeInv'
<1>1. db[h].pc \in {"open", "destroy", "unlink"} /\ UNCHANGED <<diskVars, goalVars>>
  BY DEF Close, EndDestroy, DeleteLock, At
<1>2. \A g \in Handles \ {h} : ~Repairs(db[g])
  BY <1>1, NobodyBeside DEF Sane, WholeInv, Gone
<1>3. /\ \A g \in Handles \ {h} : db'[g] = db[g]
      /\ db'[h].pc # "copy" /\ (CallInv(db[h]))' /\ ~(Repairs(db[h]))'
  <2>1. CASE Close(h)
    BY <2>1, DestructFacts DEF Close, Sane
  <2>2. CASE EndDestroy(h)
    BY <2>2, UnlockFacts DEF EndDestroy, Sane
  <2>3. CASE DeleteLock(h)
    BY <2>3, GoneFacts, GoneCall DEF DeleteLock, Sane
  <2> QED BY <2>1, <2>2, <2>3
<1> QED BY <1>1, <1>2, <1>3, Untouched DEF Sane

\* fcntl(): where DestroyDB() has the lock it gives up what the world holds.
LEMMA SetLockKeeps ==
    ASSUME Sane, NoTwoOwners', OwnerInv', NEW h \in Handles, SetLock(h)
    PROVE  WholeInv'
<1> DEFINE d == db[h]
<1>1. d.pc = "fcntl" /\ UNCHANGED diskVars
  BY DEF SetLock, At
<1>2. /\ \A g \in Handles \ {h} : db'[g] = db[g]
      /\ \/ /\ db'[h] = [pc |-> "destroy", ino |-> d.fd, list |-> d.list]
            /\ acked' = {} /\ safe' = {} /\ undone' = TRUE
         \/ db'[h] = [pc |-> "locked", ino |-> d.fd] /\ UNCHANGED goalVars
  BY DEF SetLock, Sane, OwnerInv, StagesInv
<1>3. \A g \in Handles \ {h} : ~Repairs(db[g])
  BY <1>1, NobodyBeside DEF Sane, WholeInv, Gone
<1>4. CASE db'[h] = [pc |-> "locked", ino |-> d.fd] /\ UNCHANGED goalVars
  BY <1>1, <1>2, <1>3, <1>4, StillOutside
<1>5. CASE db'[h] = [pc |-> "destroy", ino |-> d.fd, list |-> d.list] /\ acked' = {} /\ safe' = {} /\ undone' = TRUE
  <2>1. /\ db'[h].pc = "destroy" /\ "ino" \in DOMAIN db'[h] /\ "retire" \notin DOMAIN db'[h]
    BY <1>5
  <2>2. acked' = {} /\ safe' = {} /\ undone' = TRUE
    BY <1>5
  <2>3. \A g \in Handles \ {h} : Idle(db[g])
    <3> SUFFICES ASSUME NEW g \in Handles \ {h} PROVE Idle(db[g])
      OBVIOUS
    <3>1. (Owns(h))' /\ ~(Owns(g))'
      BY <2>1 DEF Owns, NoTwoOwners
    <3>2. ~Owns(g) /\ ~Repairs(db[g]) /\ Stage(db[g])
      BY <1>2, <1>3, <3>1 DEF Owns, Sane, OwnerInv, StagesInv
    <3> QED BY <3>2 DEF Stage, Held, Free, Owns, Repairs
  <2>4. ASSUME NEW g \in Handles PROVE (CallInv(db[g]))' /\ ~(Repairs(db[g]))'
    <3>1. CASE g = h
      BY <2>1, <2>2, <3>1 DEF CallInv, Opening, Working, Creating, Repairs
    <3>2. CASE g # h
      BY <1>2, <2>3, <3>2, IdleCall DEF Sane, WholeInv, CallsInv, Repairs
    <3> QED BY <3>1, <3>2
  <2>5. FilesInv'
    BY <1>1, <2>2 DEF Sane, WholeInv, FilesInv, diskVars, nameVars, tableVars
  <2>6. CurrentInv'
    BY <1>1 DEF Sane, WholeInv, CurrentInv, diskVars, nameVars, tableVars
  <2>7. WorldInv' /\ DiskInv'
    BY <2>2 DEF WorldInv, DiskInv, Keeps, Hold, HoldSafe
  <2>8. \A g \in Handles : db'[g].pc # "copy"
    BY <2>4 DEF Repairs
  <2>9. BoundInv'
    BY <1>1, <2>8 DEF Sane, WholeInv, BoundInv, diskVars, nameVars, tableVars
  <2> QED BY <2>4, <2>5, <2>6, <2>7, <2>9 DEF WholeInv, CallsInv, AloneInv
<1> QED BY <1>2, <1>4, <1>5

LEMMA DestroyFileKeeps ==
    ASSUME Sane, NEW h \in Handles, DestroyFile(h)
    PROVE  WholeInv'
<1>1. /\ db[h].pc = "destroy" /\ UNCHANGED <<db, goalVars>>
      /\ undone /\ acked = {} /\ safe = {} /\ Owns(h)
  BY DEF DestroyFile, At, Sane, WholeInv, CallsInv, CallInv, OwnerInv, StagesInv, Stage, Held, Owns
<1>2. undone' /\ acked' = {} /\ safe' = {} /\ db' = db
  BY <1>1 DEF goalVars
<1>3. /\ \/ current' = 0 /\ manifests' = manifests
         \/ current' = current /\ manifests' = manifests
         \/ current' = current /\ \E n : manifests' = Without(manifests, n)
      /\ temps' \subseteq temps
      /\ logs' = logs \/ \E n : logs' = Without(logs, n)
      /\ tables' = tables \/ \E n : tables' = Without(tables, n)
  BY DEF DestroyFile, tableVars, nameVars
<1>4. /\ DOMAIN manifests' \subseteq DOMAIN manifests
      /\ \A n \in DOMAIN manifests' : manifests'[n] = manifests[n]
      /\ DOMAIN logs' \subseteq DOMAIN logs /\ \A n \in DOMAIN logs' : logs'[n] = logs[n]
      /\ DOMAIN tables' \subseteq DOMAIN tables /\ \A n \in DOMAIN tables' : tables'[n] = tables[n]
  <2>1. \A f, n : /\ DOMAIN Without(f, n) \subseteq DOMAIN f
                  /\ \A m \in DOMAIN Without(f, n) : Without(f, n)[m] = f[m]
    BY DEF Without
  <2> QED BY <1>3, <2>1
<1>5. current' \in {0, current}
  BY <1>3
<1>6. FilesInv'
  BY <1>2, <1>3, <1>4, <1>5 DEF Sane, WholeInv, FilesInv
<1>7. CurrentInv'
  <2>1. 0 \notin DOMAIN manifests'
    BY <1>6 DEF FilesInv
  <2>2. current' \in DOMAIN manifests' => current \in DOMAIN manifests
                             /\ current' = current /\ manifests'[current'] = manifests[current]
    BY <1>4, <1>5, <2>1
  <2>3. CurrentInv
    BY DEF Sane, WholeInv
  <2> QED BY <2>2, <2>3 DEF CurrentInv
<1>8. WorldInv' /\ DiskInv'
  BY <1>2 DEF WorldInv, DiskInv, Keeps, Hold, HoldSafe
<1>9. BoundInv'
  <2>1. BoundInv
    BY DEF Sane, WholeInv
  <2> QED BY <1>2, <1>3, <1>4, <2>1 DEF BoundInv
<1>10. (CallInv(db[h]))' /\ ~Repairs(db[h]) /\ ~(Repairs(db[h]))'
  <2>1. "retire" \notin DOMAIN db[h]
    BY <1>1 DEF Sane, WholeInv, CallsInv, CallInv
  <2> QED BY <1>1, <1>2, <2>1 DEF CallInv, Opening, Working, Creating, Repairs
<1>11. CallsInv' /\ AloneInv'
  BY <1>1, <1>2, <1>10, CallsOn DEF Sane, WholeInv
<1> QED BY <1>6, <1>7, <1>8, <1>9, <1>11 DEF WholeInv

----------------------------------------------------------------------------
(* The steps of an Open().                                                 *)

LEMMA OwnerFacts ==
    ASSUME Sane, NEW h \in Handles, Owns(h)
    PROVE  /\ \A g \in Handles : db[g].pc # "copy" /\ ~Repairs(db[g])
           /\ \A g \in Handles \ {h} : Idle(db[g])
           /\ Keeps(acked, safe, DOMAIN tables, DOMAIN logs, tables, logs)
<1>1. \A g \in Handles \ {h} : Idle(db[g])
  BY OthersIdle DEF Sane, WholeInv
<1>2. db[h].pc # "copy" /\ ~Repairs(db[h])
  BY DEF Sane, OwnerInv, StagesInv, Stage, Owns, Free, Repairs
<1>3. \A g \in Handles : db[g].pc # "copy" /\ ~Repairs(db[g])
  BY <1>1, <1>2 DEF Repairs
<1> QED BY <1>1, <1>3 DEF Sane, WholeInv, DiskInv

LEMMA BoundSame ==
    ASSUME BoundInv, logs' = logs, tables' = tables, NEW c \in Nat, temps' \subseteq temps \cup {c},
           \A g \in Handles : db'[g].pc # "copy"
    PROVE  BoundInv'
BY BoundOn DEF OldEntry

\* What Step() does to the fields of a call
LEMMA ChangedFields ==
    ASSUME NEW d, NEW to
    PROVE  /\ DOMAIN Changed(d, to) = DOMAIN d \cup DOMAIN to
           /\ \A x \in DOMAIN to : Changed(d, to)[x] = to[x]
           /\ \A x \in DOMAIN d \ DOMAIN to : Changed(d, to)[x] = d[x]
BY DEF Changed

\* The numbers of tables are not 0.
LEMMA FilesOfView ==
    ASSUME NEW recs \in Seq(Edits)
    PROVE  Replay(recs).files \subseteq Nat \ {0}
<1>1. Replay(recs).files = LiveFiles(recs)
  BY DEF Replay
<1>2. \A i \in 1..Len(recs) : recs[i].adds \subseteq Nat \ {0}
  <2>1. \A r \in Edits : r.adds \subseteq Nat \ {0}
    BY DEF Edits
  <2> QED BY <2>1
<1>3. LiveFiles(recs) \subseteq Nat \ {0}
  BY <1>2 DEF LiveFiles
<1> QED BY <1>1, <1>3

LEMMA ViewFacts ==
    ASSUME FilesInv, NEW n \in DOMAIN manifests
    PROVE  /\ ViewOf(manifests[n]).files \subseteq Nat \ {0}
           /\ SureViewOf(manifests[n]).files \subseteq Nat \ {0}
<1>1. /\ manifests[n].recs \in Seq(Edits)
      /\ manifests[n].synced \in 0..Len(manifests[n].recs)
  BY DEF FilesInv
<1> QED BY <1>1, FilesOfView, Prefix DEF ViewOf, SureViewOf

LEMMA EntsFacts ==
    ASSUME FilesInv, NEW n \in DOMAIN logs
    PROVE  EntsOf(logs[n]) \subseteq Nat /\ SureOf(logs[n]) \subseteq EntsOf(logs[n])
<1>1. logs[n].ents \in Seq(Nat) /\ logs[n].synced \in 0..Len(logs[n].ents)
  BY DEF FilesInv
<1> QED BY <1>1, SetOfSubSeq DEF EntsOf, SureOf

LEMMA RecoverableIs ==
    ASSUME NEW ms, NEW cur, NEW ls, NEW ts, DOMAIN ls \subseteq Nat, Contents(ms, cur).full, NEW e
    PROVE  e \in Recoverable(ms, cur, ls, ts) <=>
              \/ InTables(e, Contents(ms, cur).files, ts)
              \/ InLogs(e, From(Contents(ms, cur).log), ls)
<1> DEFINE s == Contents(ms, cur)
           T == {ts[n].ents : n \in s.files \cap DOMAIN ts}
           L == {ToSet(ls[n].ents) : n \in {x \in DOMAIN ls : x >= s.log}}
<1>1. Recoverable(ms, cur, ls, ts) = (UNION T) \cup (UNION L)
  BY DEF Recoverable
<1>2. e \in UNION T <=> InTables(e, s.files, ts)
  <2> HIDE DEF s
  <2> QED BY DEF InTables
<1>3. e \in UNION L <=> InLogs(e, From(s.log), ls)
  <2> HIDE DEF s
  <2> QED BY DEF InLogs, From, EntsOf
<1>4. Contents(ms, cur) = s
  OBVIOUS
<1> HIDE DEF T, L, s
<1>5. e \in Recoverable(ms, cur, ls, ts) <=> e \in UNION T \/ e \in UNION L
  BY <1>1
<1> QED BY <1>2, <1>3, <1>4, <1>5

LEMMA OnDiskIs ==
    ASSUME FilesInv, NEW ms, Contents(ms, current).full, NEW e
    PROVE  e \in OnDisk(ms) <=>
              \/ SureInTables(e, Contents(ms, current).files, tables)
              \/ SureInLogs(e, From(Contents(ms, current).log), logs)
<1> DEFINE s  == Contents(ms, current)
           ls == Cut(logs, "ents", {})
<1>1. DOMAIN ls = DOMAIN logs /\ \A n \in DOMAIN logs : ls[n].ents = SubSeq(logs[n].ents, 1, logs[n].synced)
  BY DEF Cut, FilesInv
<1>2. /\ DOMAIN SureTables = DOMAIN tables
      /\ \A n \in DOMAIN tables : SureTables[n].ents = IF IsSure(tables[n]) THEN tables[n].ents ELSE {}
  BY DEF SureTables, Torn, IsSure
<1>3. DOMAIN ls \subseteq Nat
  BY <1>1 DEF FilesInv
<1> HIDE DEF ls, s
<1>4. e \in Recoverable(ms, current, ls, SureTables) <=>
         InTables(e, s.files, SureTables) \/ InLogs(e, From(s.log), ls)
  BY <1>3, RecoverableIs DEF s
<1>5. InTables(e, s.files, SureTables) <=> SureInTables(e, s.files, tables)
  BY <1>2 DEF InTables, SureInTables
<1>6. InLogs(e, From(s.log), ls) <=> SureInLogs(e, From(s.log), logs)
  BY <1>1 DEF InLogs, SureInLogs, EntsOf, SureOf
<1> QED BY <1>4, <1>5, <1>6 DEF s, ls, OnDisk

LEMMA NewDBKeeps ==
    ASSUME Sane, NEW h \in Handles, NewDB(h)
    PROVE  WholeInv'
<1> DEFINE to == [pc |-> "temp", why |-> "new", mfile |-> 1]
           file == [recs |-> <<FullRecord({}, {}, 0, 2, 0)>>, synced |-> 0]
<1>1. /\ db[h].pc = "locked" /\ current = 0 /\ manifests' = With(manifests, 1, file)
      /\ Step(h, to) /\ UNCHANGED <<current, temps, logs, tables, acked, safe, undone>>
  BY DEF NewDB, At, tableVars, goalVars
<1>2. Owns(h) /\ "retire" \notin DOMAIN db[h]
  BY <1>1 DEF Sane, OwnerInv, StagesInv, Stage, Held, Owns, WholeInv, CallsInv, CallInv
<1>3. /\ \A g \in Handles \ {h} : db'[g] = db[g]
      /\ db'[h] = Changed(db[h], to)
  BY <1>1, StepFacts DEF Sane
<1>4. /\ {"mfile", "why"} \subseteq DOMAIN db'[h] /\ db'[h].mfile = 1 /\ db'[h].pc = "temp"
      /\ db'[h].why = "new" /\ "retire" \notin DOMAIN db'[h]
  BY <1>2, <1>3 DEF Changed
<1>5. /\ DOMAIN manifests' = DOMAIN manifests \cup {1} /\ manifests'[1] = file
      /\ \A n \in DOMAIN manifests : n # 1 => manifests'[n] = manifests[n]
  <2> HIDE DEF file
  <2>1. manifests' = With(manifests, 1, file)
    BY <1>1 DEF file
  <2> QED BY <2>1 DEF With
<1>6. file \in [recs : Seq(Edits), synced : Nat] /\ file.synced <= Len(file.recs)
  <2>1. FullRecord({}, {}, 0, 2, 0) \in Edits
    BY DEF FullRecord, Edits
  <2> QED BY <2>1, ReplayOfOne
<1> HIDE DEF file
<1>7. FilesInv'
  BY <1>1, <1>5, <1>6 DEF Sane, WholeInv, FilesInv
<1>8. \A g \in Handles : db'[g].pc # "copy"
  BY <1>2, <1>3, <1>4, OwnerFacts
<1>9. BoundInv'
  BY <1>1, <1>8, BoundSame DEF Sane, WholeInv
<1>10. DiskInv'
  BY <1>1, <1>2, OwnerFacts DEF DiskInv
<1>11. CurrentInv' /\ WorldInv'
  <2>1. 0 \notin DOMAIN manifests
    BY DEF Sane, WholeInv, FilesInv
  <2>2. current \notin DOMAIN manifests /\ current \notin DOMAIN manifests'
    BY <1>1, <1>5, <2>1
  <2> QED BY <1>1, <2>2, WorldOn DEF Sane, WholeInv
<1>12. (CallInv(db[h]))' /\ ~(Repairs(db[h]))'
  BY <1>1, <1>4, <1>5 DEF CallInv, Opening, Working, Repairs, file
<1>13. CallsInv' /\ AloneInv'
  BY <1>2, <1>3, <1>12, CallsOn DEF Sane, WholeInv
<1> QED BY <1>7, <1>9, <1>10, <1>11, <1>13 DEF WholeInv

\* A call that has the lock, at the stages of an Open() or of an open world
LEMMA OwnerStage ==
    ASSUME Sane, NEW h \in Handles,
           \/ db[h].pc \in {"locked", "logs", "snapshot", "edit", "clean", "open", "flush",
                            "merge", "destroy"}
           \/ db[h].pc \in {"temp", "rename"} /\ db[h].why # "repair"
    PROVE  Owns(h) /\ "retire" \notin DOMAIN db[h] /\ Stage(db[h])
<1>1. Stage(db[h]) /\ CallInv(db[h])
  BY DEF Sane, OwnerInv, StagesInv, WholeInv, CallsInv
<1>2. Owns(h)
  BY <1>1 DEF Stage, Held, Owns
<1>3. \/ db[h].pc \in {"locked", "destroy"}
      \/ Opening(db[h]) \/ Working(db[h]) \/ Creating(db[h])
  BY <1>1 DEF Stage, Opening, Working, Creating
<1>4. "retire" \notin DOMAIN db[h]
  BY <1>1, <1>3 DEF CallInv
<1> QED BY <1>1, <1>2, <1>4

\* Where an Open() ends in an error, and no file was touched
LEMMA GivesUp ==
    ASSUME Sane, NEW h \in Handles, Owns(h), Destruct(h), UNCHANGED <<diskVars, goalVars>>
    PROVE  WholeInv'
<1>1. /\ \A g \in Handles \ {h} : db'[g] = db[g]
      /\ (CallInv(db[h]))' /\ ~(Repairs(db[h]))' /\ db'[h].pc # "copy"
  BY DestructFacts DEF Sane
<1>2. \A g \in Handles : db[g].pc # "copy" /\ ~Repairs(db[g])
  BY OwnerFacts
<1> QED BY <1>1, <1>2, Untouched DEF Sane

LEMMA ReadManifestKeeps ==
    ASSUME Sane, NEW h \in Handles, ReadManifest(h)
    PROVE  WholeInv'
<1> DEFINE s == Contents(manifests, current)
           to == [mfile |-> s.next, next |-> s.next + 1,
                  pc |-> "logs", why |-> "open", files |-> s.files, log |-> s.log,
                  last |-> s.last, mem |-> {}, adds |-> {}, dels |-> {}, err |-> FALSE,
                  todo |-> {n \in DOMAIN logs : n >= s.log}]
<1>1. db[h].pc = "locked" /\ UNCHANGED <<diskVars, undone>>
  BY DEF ReadManifest, At
<1>2. Owns(h) /\ "retire" \notin DOMAIN db[h] /\ Stage(db[h])
  BY <1>1, OwnerStage
<1>3. CASE Destruct(h) /\ UNCHANGED <<acked, safe>>
  BY <1>1, <1>2, <1>3, GivesUp DEF goalVars
<1>4. CASE ~(Destruct(h) /\ UNCHANGED <<acked, safe>>)
  <2>1. /\ s.full /\ Step(h, to)
        /\ undone => /\ acked' = acked \cap Recoverable(manifests, current, logs, tables)
                     /\ safe' = safe \cap acked' \cap OnDisk(manifests)
        /\ ~undone => acked' = acked /\ safe' = safe
    BY <1>4 DEF ReadManifest
  <2>2. UNCHANGED <<manifests, current, temps, logs, tables, undone>>
    BY <1>1 DEF diskVars, nameVars, tableVars
  <2>3. FilesInv /\ BoundInv /\ DiskInv /\ CurrentInv /\ WorldInv
    BY DEF Sane, WholeInv
  <2>4. current \in DOMAIN manifests /\ s = ViewOf(manifests[current])
    BY <2>1, ReplayOfNothing DEF Contents, ViewOf
  <2>5. s.files \subseteq Nat \ {0} /\ SureViewOf(manifests[current]).files \subseteq Nat \ {0}
    BY <2>3, <2>4, ViewFacts
  <2> DEFINE w == SureViewOf(manifests[current])
  <2>6. /\ s.next \in Nat \ {0} /\ s.log \in Nat /\ s.last \in Nat /\ s.log < s.next
        /\ \A n \in s.files \cup w.files : n < s.next
        /\ current < s.next \/ current = 1
    BY <2>1, <2>3, <2>4 DEF CurrentInv, NumbersOf
  <2> HIDE DEF w
  <2>7. acked' \subseteq acked /\ safe' \subseteq safe /\ safe' \subseteq acked'
    BY <2>1, <2>3 DEF FilesInv
  <2>8. Keeps(acked', safe', s.files, From(s.log), tables, logs)
    <3>1. CASE ~undone
      <4>1. Lists(s, acked, safe, tables, logs)
        BY <2>3, <3>1 DEF WorldInv
      <4> QED BY <2>1, <3>1, <4>1 DEF Lists
    <3>2. CASE undone
      <4>1. DOMAIN logs \subseteq Nat
        BY <2>3 DEF FilesInv
      <4>2. ASSUME NEW e \in acked' PROVE InTables(e, s.files, tables) \/ InLogs(e, From(s.log), logs)
        BY <2>1, <3>2, <4>1, <4>2, RecoverableIs
      <4>3. ASSUME NEW e \in safe'
            PROVE  SureInTables(e, s.files, tables) \/ SureInLogs(e, From(s.log), logs)
        BY <2>1, <2>3, <3>2, <4>3, OnDiskIs
      <4> QED BY <4>2, <4>3 DEF Keeps, Hold, HoldSafe
    <3> QED BY <3>1, <3>2
  <2>9. /\ \A g \in Handles \ {h} : db'[g] = db[g]
        /\ db'[h] = Changed(db[h], to)
    BY <2>1, StepFacts DEF Sane
  <2>10. /\ DOMAIN db'[h] = DOMAIN db[h] \cup DOMAIN to
         /\ db'[h].pc = "logs" /\ db'[h].why = "open" /\ db'[h].mfile = s.next
         /\ db'[h].next = s.next + 1 /\ db'[h].files = s.files /\ db'[h].log = s.log
         /\ db'[h].last = s.last /\ db'[h].mem = {} /\ db'[h].adds = {} /\ db'[h].dels = {}
         /\ db'[h].err = FALSE /\ db'[h].todo = {n \in DOMAIN logs : n >= s.log}
    <3> HIDE DEF s
    <3> QED BY <2>9 DEF Changed
  <2>11. /\ "retire" \notin DOMAIN db'[h]
         /\ {"pc", "why", "mfile", "next", "files", "log", "last", "mem", "adds", "dels",
             "err", "todo", "ino"} \subseteq DOMAIN db'[h]
    <3>1. DOMAIN to = {"mfile", "next", "pc", "why", "files", "log", "last", "mem", "adds", "dels",
                       "err", "todo"}
      OBVIOUS
    <3>2. "ino" \in DOMAIN db[h]
      BY <1>2 DEF Owns
    <3> HIDE DEF to
    <3> QED BY <1>2, <2>10, <3>1, <3>2
  <2> HIDE DEF s, to
  <2>12. (SessionType(db[h]))'
    <3>1. /\ db'[h].mfile \in Nat \ {0} /\ db'[h].next \in Nat /\ db'[h].log \in Nat
          /\ db'[h].last \in Nat /\ db'[h].mfile < db'[h].next /\ db'[h].log < db'[h].next
      BY <2>6, <2>10
    <3>2. \A n \in db'[h].files \cup db'[h].adds : n < db'[h].next
      BY <2>5, <2>6, <2>10
    <3> QED BY <2>5, <2>10, <2>11, <3>1, <3>2 DEF SessionType
  <2>13. db'[h].mfile = current' => current' = 1 /\ (~undone' => acked' = {})
    <3> SUFFICES ASSUME s.next = current PROVE current = 1 /\ (~undone => acked' = {})
      BY <2>2, <2>10
    <3>1. current = 1
      BY <2>6
    <3>2. ~undone => acked = {}
      BY <2>1, <2>3, <2>4, <3>1 DEF WorldInv
    <3> QED BY <2>7, <3>1, <3>2
  <2>14. current' \in DOMAIN manifests' =>
            \A n \in ViewOf(manifests'[current']).files \cup SureViewOf(manifests'[current']).files :
               n < db'[h].next
    BY <2>2, <2>4, <2>5, <2>6, <2>10 DEF w
  <2>15. GoodTables(db'[h].adds, db'[h].last, tables')
    BY <2>10 DEF GoodTables
  <2>16. ~undone' => GoodTables(db'[h].files, db'[h].last, tables')
    BY <2>1, <2>2, <2>3, <2>4, <2>10 DEF WorldInv
  <2>17. /\ db'[h].todo \subseteq DOMAIN logs'
         /\ \A n \in DOMAIN logs' : n \in db'[h].todo \/ n < db'[h].next
    BY <2>2, <2>3, <2>6, <2>10 DEF FilesInv
  <2>18. Keeps(acked', safe', db'[h].files \cup db'[h].adds, db'[h].todo, tables', logs')
    <3>1. \A n \in DOMAIN logs : n \in From(s.log) => n \in db'[h].todo
      BY <2>10 DEF From
    <3>2. \A n \in DOMAIN tables : n \in s.files => n \in db'[h].files \cup db'[h].adds
      BY <2>10
    <3> QED BY <2>2, <2>8, <3>1, <3>2, KeepsOn
  <2>19. (OpeningInv(db[h]))'
    BY <2>10, <2>12, <2>13, <2>14, <2>15, <2>16, <2>17, <2>18 DEF OpeningInv
  <2>20. (CallInv(db[h]))' /\ ~(Repairs(db[h]))'
    BY <2>10, <2>11, <2>19 DEF CallInv, Opening, Working, Creating, Repairs
  <2>21. CallsInv' /\ AloneInv'
    BY <1>2, <2>9, <2>20, CallsOn DEF Sane, WholeInv
  <2>22. FilesInv'
    BY <2>2, <2>3, <2>7 DEF FilesInv
  <2>23. BoundInv'
    <3>1. \A g \in Handles : db'[g].pc # "copy"
      BY <1>2, <2>9, <2>10, OwnerFacts
    <3> QED BY <2>2, <2>3, <3>1, BoundSame
  <2>24. DiskInv'
    BY <2>2, <2>8, DiskKeeps
  <2>25. CurrentInv' /\ WorldInv'
    BY <2>2, <2>3, <2>7, WorldOn
  <2> QED BY <2>21, <2>22, <2>23, <2>24, <2>25 DEF WholeInv
<1> QED BY <1>3, <1>4

LEMMA OpeningFacts ==
    ASSUME Sane, NEW h \in Handles, Opening(db[h])
    PROVE  /\ OpeningInv(db[h]) /\ SessionType(db[h]) /\ Owns(h) /\ "retire" \notin DOMAIN db[h]
           /\ FilesInv /\ BoundInv /\ DiskInv /\ CurrentInv /\ WorldInv
           /\ \A g \in Handles \ {h} : db[g].pc # "copy"
<1>1. OpeningInv(db[h]) /\ SessionType(db[h])
  BY DEF Sane, WholeInv, CallsInv, CallInv, OpeningInv
<1>2. Owns(h) /\ "retire" \notin DOMAIN db[h]
  BY OwnerStage DEF Opening
<1> QED BY <1>1, <1>2, OwnerFacts DEF Sane, WholeInv

\* A call that has the lock goes on as an Open().
LEMMA OpeningOn ==
    ASSUME Sane, NEW h \in Handles, Owns(h), \A g \in Handles \ {h} : db'[g] = db[g],
           (Opening(db[h]))', (OpeningInv(db[h]))', "retire" \notin DOMAIN db'[h]
    PROVE  CallsInv' /\ AloneInv' /\ \A g \in Handles : db'[g].pc # "copy"
<1>1. (CallInv(db[h]))' /\ ~(Repairs(db[h]))' /\ db'[h].pc # "copy"
  BY DEF CallInv, Opening, Working, Creating, Repairs
<1> QED BY <1>1, CallsOn, OwnerFacts DEF Sane, WholeInv

LEMMA RecoverLogKeeps ==
    ASSUME Sane, NEW h \in Handles, RecoverLog(h)
    PROVE  WholeInv'
<1> DEFINE d == db[h]
           n == Min(d.todo)
           E == EntsOf(logs[n])
           next == IF E = {} THEN d.next ELSE d.next + 1
           to == [todo |-> d.todo \ {n}, last |-> Max({d.last} \cup E),
                  adds |-> IF E = {} THEN d.adds ELSE d.adds \cup {d.next},
                  next |-> Max({next, n + 1})]
<1>1. /\ d.pc = "logs" /\ d.todo # {} /\ Step(h, to)
      /\ tables' = IF E = {} THEN tables ELSE With(tables, d.next, Whole(E))
      /\ UNCHANGED <<manifests, current, temps, logs, acked, safe, undone>>
  BY DEF RecoverLog, At, EntsOf, nameVars, goalVars
<1>2. /\ OpeningInv(d) /\ SessionType(d) /\ Owns(h) /\ "retire" \notin DOMAIN d
      /\ FilesInv /\ BoundInv /\ DiskInv /\ CurrentInv /\ WorldInv
  BY <1>1, OpeningFacts DEF Opening
<1>3. d.todo \subseteq DOMAIN logs /\ d.todo \subseteq Nat /\ n \in d.todo /\ n \in Nat /\ n \in DOMAIN logs
  <2>1. d.todo \subseteq DOMAIN logs /\ d.todo \subseteq Nat
    BY <1>1, <1>2 DEF OpeningInv, FilesInv
  <2> QED BY <1>1, <2>1, MinIn
<1>4. E \subseteq Nat /\ SureOf(logs[n]) \subseteq E
  BY <1>2, <1>3, EntsFacts
<1>5. to.last \in Nat /\ to.last >= d.last /\ \A e \in E : e <= to.last
  <2> DEFINE M == {d.last} \cup E
  <2>1. d.last \in Nat
    BY <1>2 DEF SessionType
  <2>2. PICK b \in Nat : \A e \in E : e \in 0..b
    BY <1>2, <1>3 DEF BoundInv
  <2>3. M \in SUBSET Nat /\ M # {} /\ \A y \in M : y <= b + d.last
    BY <1>4, <2>1, <2>2
  <2>4. Max(M) \in M /\ \A y \in M : Max(M) >= y
    <3>1. b + d.last \in Nat
      BY <2>1
    <3> HIDE DEF M
    <3> QED BY <2>3, <3>1, MaxIn
  <2>5. to.last = Max(M)
    OBVIOUS
  <2> HIDE DEF E, n, d
  <2> QED BY <1>4, <2>1, <2>4, <2>5
<1>6. to.next \in Nat /\ to.next >= next /\ to.next >= n + 1 /\ next >= d.next
  <2>1. d.next \in Nat /\ next \in Nat
    BY <1>2 DEF SessionType
  <2> HIDE DEF next, n, d
  <2> DEFINE M == {next, n + 1}
  <2>3. M \in SUBSET Nat /\ M # {} /\ \A y \in M : y <= next + n + 1
    BY <1>3, <2>1
  <2>4. Max(M) \in M /\ \A y \in M : Max(M) >= y
    BY <1>3, <2>1, <2>3, MaxIn
  <2>5. to.next = Max(M)
    OBVIOUS
  <2>6. next >= d.next
    BY <2>1 DEF next
  <2> QED BY <1>3, <2>1, <2>3, <2>4, <2>5, <2>6
<1> DEFINE e == db'[h]
           added == IF E = {} THEN d.adds ELSE d.adds \cup {d.next}
<1>7. \A g \in Handles \ {h} : db'[g] = db[g]
  BY <1>1, StepFacts DEF Sane
<1>8. /\ e.todo = d.todo \ {n} /\ e.last = to.last /\ e.next = to.next /\ e.adds = added
      /\ DOMAIN e = DOMAIN d \cup {"todo", "last", "adds", "next"}
      /\ \A x \in DOMAIN d \ {"todo", "last", "adds", "next"} : e[x] = d[x]
  <2>1. e = Changed(d, to)
    BY <1>1, StepFacts DEF Sane
  <2>2. DOMAIN to = {"todo", "last", "adds", "next"} /\ to.todo = d.todo \ {n} /\ to.adds = added
    OBVIOUS
  <2> HIDE DEF to, e, d
  <2> QED BY <2>1, <2>2 DEF Changed
<1> DEFINE last == to.last
           nx == to.next
<1>9. /\ e.pc = "logs" /\ e.why = "open" /\ e.mfile = d.mfile /\ e.files = d.files /\ e.log = d.log
      /\ e.mem = d.mem /\ e.dels = d.dels /\ e.err = d.err /\ e.last = last /\ e.next = nx
      /\ {"pc", "why", "mfile", "next", "files", "log", "last", "mem", "adds", "dels",
          "err", "todo", "ino"} \subseteq DOMAIN e /\ "retire" \notin DOMAIN e
  BY <1>1, <1>2, <1>8 DEF SessionType, OpeningInv
<1>10. /\ last \in Nat /\ last >= d.last /\ (\A x \in E : x <= last)
       /\ nx \in Nat /\ nx >= next /\ nx >= n + 1 /\ next >= d.next
  BY <1>5, <1>6
<1> HIDE DEF to, last, nx, e
<1>11. /\ d.next \in Nat \ {0} /\ d.last \in Nat /\ d.files \subseteq Nat \ {0} /\ d.adds \subseteq Nat \ {0}
       /\ \A x \in d.files \cup d.adds : x < d.next
  BY <1>2 DEF SessionType
<1>12. /\ \A x \in DOMAIN tables : x # d.next => x \in DOMAIN tables' /\ tables'[x] = tables[x]
       /\ E # {} => d.next \in DOMAIN tables' /\ tables'[d.next] = Whole(E)
       /\ DOMAIN tables' \subseteq DOMAIN tables \cup {d.next}
       /\ \A x \in DOMAIN tables' : (x \in DOMAIN tables /\ tables'[x] = tables[x])
                                     \/ (x = d.next /\ tables'[x] = Whole(E))
  <2> HIDE DEF E, d
  <2> QED BY <1>1 DEF With
<1>13. Whole(E) \in [ents : SUBSET Nat, ok : BOOLEAN, synced : BOOLEAN] /\ IsSure(Whole(E)) /\ Whole(E).ents = E
  <2> HIDE DEF E
  <2> QED BY <1>4 DEF Whole, IsSure
<1> HIDE DEF E, n
<1>14. FilesInv'
  <2>1. \A x \in DOMAIN tables' : tables'[x] \in [ents : SUBSET Nat, ok : BOOLEAN, synced : BOOLEAN]
    BY <1>2, <1>12, <1>13 DEF FilesInv
  <2>2. DOMAIN tables' \subseteq Nat \ {0}
    BY <1>2, <1>11, <1>12 DEF FilesInv
  <2> QED BY <1>1, <1>2, <2>1, <2>2 DEF FilesInv
<1>15. CurrentInv' /\ WorldInv'
  <2>1. ASSUME current \in DOMAIN manifests,
               NEW x \in ViewOf(manifests[current]).files \cup SureViewOf(manifests[current]).files
        PROVE  x # d.next
    <3>1. x < d.next /\ x \in Nat
      BY <1>2, <2>1, ViewFacts DEF OpeningInv
    <3> QED BY <1>11, <3>1
  <2> QED BY <1>1, <1>2, <1>12, <2>1, WorldOn
<1>16. (SessionType(db[h]))'
  <2>1. added \subseteq Nat \ {0} /\ \A x \in d.files \cup added : x < nx
    BY <1>10, <1>11
  <2>2. d.mfile \in Nat \ {0} /\ d.mfile < nx /\ d.log \in Nat /\ d.log < nx /\ d.mem \subseteq Nat
        /\ d.dels \subseteq Nat \ {0} /\ d.err \in BOOLEAN
    BY <1>2, <1>10, <1>11 DEF SessionType
  <2> HIDE DEF added
  <2> QED BY <1>8, <1>9, <1>10, <1>11, <2>1, <2>2 DEF SessionType, e
<1>17. GoodTables(added, last, tables')
  <2> SUFFICES ASSUME NEW x \in added PROVE x \in DOMAIN tables' /\ \A y \in tables'[x].ents : y <= last
    BY DEF GoodTables
  <2>1. CASE x \in d.adds
    <3>1. x \in DOMAIN tables /\ (\A y \in tables[x].ents : y <= d.last) /\ x # d.next
      BY <1>2, <1>11, <2>1 DEF OpeningInv, GoodTables
    <3>2. tables[x].ents \subseteq Nat
      BY <1>2, <3>1 DEF FilesInv
    <3> QED BY <1>10, <1>11, <1>12, <3>1, <3>2
  <2>2. CASE x \notin d.adds
    BY <1>10, <1>12, <1>13, <2>2
  <2> QED BY <2>1, <2>2
<1>18. ~undone => GoodTables(d.files, last, tables')
  <2> SUFFICES ASSUME ~undone, NEW x \in d.files
               PROVE x \in DOMAIN tables' /\ \A y \in tables'[x].ents : y <= last
    BY DEF GoodTables
  <2>1. x \in DOMAIN tables /\ (\A y \in tables[x].ents : y <= d.last) /\ x # d.next
    BY <1>2, <1>11 DEF OpeningInv, GoodTables
  <2>2. tables[x].ents \subseteq Nat
    BY <1>2, <2>1 DEF FilesInv
  <2> QED BY <1>10, <1>11, <1>12, <2>1, <2>2
<1>19. Keeps(acked, safe, d.files \cup added, d.todo \ {n}, tables', logs)
  <2>1. Keeps(acked, safe, d.files \cup d.adds, d.todo, tables, logs)
    BY <1>1, <1>2 DEF OpeningInv
  <2>2. \A x \in DOMAIN tables : x \in d.files \cup d.adds =>
            x \in d.files \cup added /\ x \in DOMAIN tables' /\ tables'[x] = tables[x]
    BY <1>11, <1>12
  <2>3. E # {} => d.next \in added
    OBVIOUS
  <2> HIDE DEF added
  <2>4. ASSUME NEW a \in acked
        PROVE  InTables(a, d.files \cup added, tables') \/ InLogs(a, d.todo \ {n}, logs)
    <3>1. CASE InTables(a, d.files \cup d.adds, tables)
      BY <2>2, <3>1 DEF InTables
    <3>2. CASE InLogs(a, d.todo, logs)
      <4>1. CASE a \in E
        BY <1>12, <1>13, <2>3, <4>1 DEF InTables
      <4>2. CASE a \notin E
        BY <3>2, <4>2 DEF InLogs, E
      <4> QED BY <4>1, <4>2
    <3> QED BY <2>1, <3>1, <3>2 DEF Keeps, Hold
  <2>5. ASSUME NEW a \in safe
        PROVE  SureInTables(a, d.files \cup added, tables') \/ SureInLogs(a, d.todo \ {n}, logs)
    <3>1. CASE SureInTables(a, d.files \cup d.adds, tables)
      BY <2>2, <3>1 DEF SureInTables
    <3>2. CASE SureInLogs(a, d.todo, logs)
      <4>1. CASE a \in SureOf(logs[n])
        BY <1>4, <1>12, <1>13, <2>3, <4>1 DEF SureInTables
      <4>2. CASE a \notin SureOf(logs[n])
        BY <3>2, <4>2 DEF SureInLogs
      <4> QED BY <4>1, <4>2
    <3> QED BY <2>1, <3>1, <3>2 DEF Keeps, HoldSafe
  <2> QED BY <2>4, <2>5 DEF Keeps, Hold, HoldSafe
<1>20. \A x \in DOMAIN logs : x \in d.todo \ {n} \/ x < nx
  <2>1. \A x \in DOMAIN logs : x \in Nat /\ (x \in d.todo \/ x < d.next)
    BY <1>1, <1>2 DEF OpeningInv, FilesInv
  <2>2. next \in Nat
    BY <1>11
  <2> HIDE DEF next
  <2> QED BY <1>3, <1>10, <1>11, <2>1, <2>2
<1>21. current \in DOMAIN manifests =>
          \A x \in ViewOf(manifests[current]).files \cup SureViewOf(manifests[current]).files : x < nx
  <2>1. next \in Nat
    BY <1>11
  <2> HIDE DEF next
  <2> QED BY <1>2, <1>10, <1>11, <2>1, ViewFacts DEF OpeningInv
<1>22. (OpeningInv(db[h]))'
  <2>1. /\ d.dels = {} /\ d.mem = {} /\ ~d.err
        /\ d.mfile = current => current = 1 /\ (~undone => acked = {})
    BY <1>2 DEF OpeningInv
  <2>2. e.todo \subseteq DOMAIN logs
    BY <1>3, <1>8
  <2> HIDE DEF added
  <2>3. /\ e.pc = "logs" /\ e.dels = {} /\ e.mem = {} /\ ~e.err
        /\ e.mfile = current' => current' = 1 /\ (~undone' => acked' = {})
    BY <1>1, <1>9, <2>1
  <2>4. current' \in DOMAIN manifests' =>
          \A x \in ViewOf(manifests'[current']).files \cup SureViewOf(manifests'[current']).files : x < e.next
    BY <1>1, <1>9, <1>21
  <2>5. GoodTables(e.adds, e.last, tables') /\ (~undone' => GoodTables(e.files, e.last, tables'))
    BY <1>1, <1>8, <1>9, <1>17, <1>18
  <2>6. /\ e.todo \subseteq DOMAIN logs' /\ (\A x \in DOMAIN logs' : x \in e.todo \/ x < e.next)
        /\ Keeps(acked', safe', e.files \cup e.adds, e.todo, tables', logs')
    BY <1>1, <1>8, <1>9, <1>19, <1>20, <2>2
  <2> QED BY <1>9, <1>16, <2>3, <2>4, <2>5, <2>6 DEF OpeningInv, e
<1>23. CallsInv' /\ AloneInv' /\ \A g \in Handles : db'[g].pc # "copy"
  <2>1. (Opening(db[h]))' /\ "retire" \notin DOMAIN db'[h]
    BY <1>9 DEF Opening, e
  <2> QED BY <1>2, <1>7, <1>22, <2>1, OpeningOn
<1>24. BoundInv'
  <2>1. \A x \in temps' \cup DOMAIN logs' \cup DOMAIN tables' :
           x \in 0..d.next \/ x \in temps \cup DOMAIN logs \cup DOMAIN tables
    BY <1>1, <1>11, <1>12
  <2>2. \A x \in DOMAIN logs' : \A y \in EntsOf(logs'[x]) : OldEntry(y)
    BY <1>1 DEF OldEntry
  <2>3. \A x \in DOMAIN tables' : \A y \in tables'[x].ents : OldEntry(y)
    BY <1>3, <1>12, <1>13 DEF OldEntry, E
  <2> QED BY <1>2, <1>11, <1>23, <2>1, <2>2, <2>3, BoundOn
<1>25. DiskInv'
  BY <1>1, <1>19, DiskKeeps
<1> QED BY <1>14, <1>15, <1>23, <1>24, <1>25 DEF WholeInv

LEMMA OpenLogKeeps ==
    ASSUME Sane, NEW h \in Handles, OpenLog(h)
    PROVE  WholeInv'
<1> DEFINE d == db[h]
           e == db'[h]
           to == [pc |-> "snapshot", log |-> d.next, next |-> d.next + 1]
<1>1. /\ d.pc = "logs" /\ d.todo = {} /\ Step(h, to) /\ logs' = With(logs, d.next, NewLog)
      /\ UNCHANGED <<manifests, current, temps, tables, acked, safe, undone>>
  BY DEF OpenLog, NewLogFile, At, nameVars, goalVars
<1>2. /\ OpeningInv(d) /\ SessionType(d) /\ Owns(h) /\ "retire" \notin DOMAIN d
      /\ FilesInv /\ BoundInv /\ DiskInv /\ CurrentInv /\ WorldInv
  BY <1>1, OpeningFacts DEF Opening
<1>3. \A g \in Handles \ {h} : db'[g] = db[g]
  BY <1>1, StepFacts DEF Sane
<1>4. /\ e.pc = "snapshot" /\ e.log = d.next /\ e.next = d.next + 1
      /\ DOMAIN e = DOMAIN d \cup {"pc", "log", "next"}
      /\ \A x \in DOMAIN d \ {"pc", "log", "next"} : e[x] = d[x]
  <2>1. e = Changed(d, to)
    BY <1>1, StepFacts DEF Sane
  <2> HIDE DEF e, d
  <2> QED BY <2>1 DEF Changed
<1>5. /\ e.why = "open" /\ e.mfile = d.mfile /\ e.files = d.files /\ e.last = d.last
      /\ e.mem = {} /\ e.dels = {} /\ e.err = FALSE /\ e.adds = d.adds
      /\ {"pc", "why", "mfile", "next", "files", "log", "last", "mem", "adds", "dels",
          "err", "todo", "ino"} \subseteq DOMAIN e /\ "retire" \notin DOMAIN e
  BY <1>2, <1>4 DEF SessionType, OpeningInv
<1> HIDE DEF to, e
<1>6. /\ d.next \in Nat \ {0} /\ d.files \subseteq Nat \ {0} /\ d.adds \subseteq Nat \ {0}
      /\ \A x \in d.files \cup d.adds : x < d.next
      /\ \A x \in DOMAIN logs : x \in Nat /\ x < d.next
  BY <1>1, <1>2 DEF SessionType, OpeningInv, FilesInv
<1>7. /\ DOMAIN logs' = DOMAIN logs \cup {d.next} /\ logs'[d.next] = NewLog
      /\ d.next \notin DOMAIN logs
      /\ \A x \in DOMAIN logs : logs'[x] = logs[x]
  <2> HIDE DEF d
  <2>1. d.next \notin DOMAIN logs
    BY <1>6
  <2> QED BY <1>1, <2>1 DEF With
<1>8. /\ NewLog \in [ents : Seq(Nat), synced : Nat] /\ NewLog.synced <= Len(NewLog.ents)
      /\ EntsOf(NewLog) = {}
  BY SetOfEmpty DEF NewLog, EntsOf
<1>9. FilesInv'
  <2>1. \A x \in DOMAIN logs' : /\ logs'[x] \in [ents : Seq(Nat), synced : Nat]
                                /\ logs'[x].synced <= Len(logs'[x].ents)
    BY <1>2, <1>7, <1>8 DEF FilesInv
  <2>2. DOMAIN logs' \subseteq Nat \ {0}
    BY <1>2, <1>6, <1>7 DEF FilesInv
  <2> QED BY <1>1, <1>2, <2>1, <2>2 DEF FilesInv
<1>10. CurrentInv' /\ WorldInv'
  BY <1>1, <1>2, <1>7, WorldOn
<1>11. (SessionType(db[h]))'
  <2>1. /\ d.mfile \in Nat \ {0} /\ d.mfile < d.next + 1 /\ d.last \in Nat
        /\ \A x \in d.files \cup d.adds : x < d.next + 1
    BY <1>2, <1>6 DEF SessionType
  <2>2. /\ e.mfile \in Nat \ {0} /\ e.next \in Nat /\ e.log \in Nat /\ e.last \in Nat
        /\ e.mfile < e.next /\ e.log < e.next /\ \A x \in e.files \cup e.adds : x < e.next
    BY <1>4, <1>5, <1>6, <2>1
  <2>3. /\ e.files \subseteq Nat \ {0} /\ e.adds \subseteq Nat \ {0} /\ e.dels \subseteq Nat \ {0}
        /\ e.mem \subseteq Nat /\ e.err \in BOOLEAN
    BY <1>5, <1>6
  <2> QED BY <1>5, <2>2, <2>3 DEF SessionType, e
<1>12. Keeps(acked, safe, d.files \cup d.adds, {}, tables', logs')
  <2>1. Keeps(acked, safe, d.files \cup d.adds, d.todo, tables, logs)
    BY <1>1, <1>2 DEF OpeningInv
  <2> QED BY <1>1, <2>1, KeepsOn
<1>13. (OpeningInv(db[h]))'
  <2>1. e.mfile = current' => current' = 1 /\ (~undone' => acked' = {})
    BY <1>1, <1>2, <1>5 DEF OpeningInv
  <2>2. current' \in DOMAIN manifests' =>
          \A x \in ViewOf(manifests'[current']).files \cup SureViewOf(manifests'[current']).files : x < e.next
    BY <1>1, <1>2, <1>4, <1>6, ViewFacts DEF OpeningInv
  <2>3. GoodTables(e.adds, e.last, tables') /\ (~undone' => GoodTables(e.files, e.last, tables'))
    BY <1>1, <1>2, <1>5 DEF OpeningInv
  <2>4. /\ e.log \in DOMAIN logs' /\ EntsOf(logs'[e.log]) = {}
        /\ \A x \in DOMAIN logs' : x <= e.log
        /\ Keeps(acked', safe', e.files \cup e.adds, {}, tables', logs')
    BY <1>1, <1>4, <1>5, <1>6, <1>7, <1>8, <1>12
  <2> QED BY <1>4, <1>5, <1>11, <2>1, <2>2, <2>3, <2>4 DEF OpeningInv, e
<1>14. CallsInv' /\ AloneInv' /\ \A g \in Handles : db'[g].pc # "copy"
  <2>1. (Opening(db[h]))' /\ "retire" \notin DOMAIN db'[h]
    BY <1>4, <1>5 DEF Opening, e
  <2> QED BY <1>2, <1>3, <1>13, <2>1, OpeningOn
<1>15. BoundInv'
  <2>1. \A x \in temps' \cup DOMAIN logs' \cup DOMAIN tables' :
           x \in 0..d.next \/ x \in temps \cup DOMAIN logs \cup DOMAIN tables
    BY <1>1, <1>6, <1>7
  <2>2. \A x \in DOMAIN logs' : \A y \in EntsOf(logs'[x]) : OldEntry(y)
    BY <1>7, <1>8 DEF OldEntry
  <2>3. \A x \in DOMAIN tables' : \A y \in tables'[x].ents : OldEntry(y)
    BY <1>1 DEF OldEntry
  <2> QED BY <1>2, <1>6, <1>14, <2>1, <2>2, <2>3, BoundOn
<1>16. DiskInv'
  BY <1>1, <1>12, DiskKeeps
<1> QED BY <1>9, <1>10, <1>14, <1>15, <1>16 DEF WholeInv

\* An Open() writes to its new MANIFEST.  Only where RepairDB() has left an
\* empty world is it the one that CURRENT names already.
LEMMA NewManifestOn ==
    ASSUME Sane, NEW h \in Handles, Opening(db[h]), current' = current, undone' = undone,
           acked' = acked, safe' = safe, tables' = tables, logs' = logs,
           \A n \in DOMAIN manifests \ {db[h].mfile} : n \in DOMAIN manifests' /\ manifests'[n] = manifests[n],
           DOMAIN manifests' \subseteq DOMAIN manifests \cup {db[h].mfile},
           db[h].mfile \in DOMAIN manifests' =>
              LET v == ViewOf(manifests'[db[h].mfile])
                  s == SureViewOf(manifests'[db[h].mfile])
              IN  /\ NumbersOf(v) /\ NumbersOf(s) /\ (v.full => v.next > 0)
                  /\ v.full /\ ~undone => GoodTables(v.files, v.last, tables)
                  /\ s.full => s = v
                  /\ s.full \/ s.files = {}
    PROVE  CurrentInv' /\ WorldInv'
<1> DEFINE d == db[h]
<1>1. OpeningInv(d) /\ FilesInv /\ CurrentInv /\ WorldInv
  BY OpeningFacts
<1>2. CASE d.mfile # current
  <2>1. current \in DOMAIN manifests <=> current \in DOMAIN manifests'
    BY <1>2
  <2>2. current \in DOMAIN manifests => manifests'[current] = manifests[current]
    BY <1>2
  <2> QED BY <1>1, <2>1, <2>2, WorldOn
<1>3. CASE d.mfile = current
  <2>1. current = 1 /\ (~undone => acked = {} /\ safe = {})
    BY <1>1, <1>3 DEF OpeningInv, FilesInv
  <2> DEFINE v == ViewOf(manifests'[current])
             s == SureViewOf(manifests'[current])
  <2>2. current \in DOMAIN manifests' =>
           /\ NumbersOf(v) /\ NumbersOf(s) /\ (v.full => v.next > 0)
           /\ v.full /\ ~undone => GoodTables(v.files, v.last, tables)
           /\ s.full => s = v
           /\ s.full \/ s.files = {}
    BY <1>3
  <2> HIDE DEF v, s
  <2>3. current \in DOMAIN manifests' =>
           /\ NumbersOf(v) /\ NumbersOf(s)
           /\ v.full => /\ v.next > 0 /\ \A n \in s.files : n < v.next
           /\ s.full => s.next > 0
    <3>1. CASE s.full
      BY <2>2, <3>1 DEF NumbersOf
    <3>2. CASE ~s.full
      BY <2>2, <3>2
    <3> QED BY <3>1, <3>2
  <2>4. CurrentInv'
    BY <2>1, <2>3 DEF CurrentInv, v, s
  <2>5. ~undone => /\ \A c : Lists(c, acked, safe, tables, logs)
    BY <2>1 DEF Lists, Keeps, Hold, HoldSafe
  <2>6. ~undone /\ current \in DOMAIN manifests' =>
           /\ v.full => GoodTables(v.files, v.last, tables)
           /\ s.full => GoodTables(s.files, s.last, tables)
           /\ v.full /\ v.next = 1 => acked = {}
           /\ s.full /\ s.next = 1 => acked = {}
           /\ HoldSafe(safe, s.files, From(s.log), tables, logs)
    BY <2>1, <2>2 DEF HoldSafe
  <2>7. WorldInv'
    BY <2>1, <2>5, <2>6 DEF WorldInv, v, s
  <2> QED BY <2>4, <2>7
<1> QED BY <1>2, <1>3

\* A call that has the lock changes no log and no table.
LEMMA OwnerDone ==
    ASSUME Sane, NEW h \in Handles, Owns(h), \A g \in Handles \ {h} : db'[g] = db[g],
           logs' = logs, tables' = tables, acked' = acked, safe' = safe,
           NEW c \in Nat, temps' \subseteq temps \cup {c},
           FilesInv', CurrentInv', WorldInv',
           (CallInv(db[h]))', ~(Repairs(db[h]))'
    PROVE  WholeInv'
<1>1. CallsInv' /\ AloneInv'
  BY CallsOn DEF Sane, WholeInv
<1>2. \A g \in Handles : db'[g].pc # "copy"
  BY OwnerFacts DEF Repairs
<1>3. BoundInv'
  BY <1>2, BoundSame DEF Sane, WholeInv
<1>4. DiskInv'
  BY OwnerFacts, DiskKeeps
<1> QED BY <1>1, <1>3, <1>4 DEF WholeInv

LEMMA WriteSnapshotKeeps ==
    ASSUME Sane, NEW h \in Handles, WriteSnapshot(h)
    PROVE  WholeInv'
<1> DEFINE d == db[h]
           e == db'[h]
           to == [pc |-> "edit"]
           rec == Record(d.files, {})
           file == [recs |-> <<rec>>, synced |-> 0]
<1>1. /\ d.pc = "snapshot" /\ Step(h, to) /\ manifests' = With(manifests, d.mfile, file)
      /\ UNCHANGED <<current, temps, logs, tables, acked, safe, undone>>
  BY DEF WriteSnapshot, At, tableVars, goalVars
<1>2. /\ OpeningInv(d) /\ SessionType(d) /\ Owns(h) /\ "retire" \notin DOMAIN d
      /\ FilesInv /\ BoundInv /\ DiskInv /\ CurrentInv /\ WorldInv /\ Opening(d)
  BY <1>1, OpeningFacts DEF Opening
<1>3. \A g \in Handles \ {h} : db'[g] = db[g]
  BY <1>1, StepFacts DEF Sane
<1>4. /\ e.pc = "edit" /\ DOMAIN e = DOMAIN d \cup {"pc"}
      /\ \A x \in DOMAIN d \ {"pc"} : e[x] = d[x]
  <2>1. e = Changed(d, to)
    BY <1>1, StepFacts DEF Sane
  <2> HIDE DEF e, d
  <2> QED BY <2>1 DEF Changed
<1>5. /\ e.why = "open" /\ e.mfile = d.mfile /\ e.files = d.files /\ e.last = d.last
      /\ e.mem = {} /\ e.dels = {} /\ e.err = FALSE /\ e.adds = d.adds
      /\ e.next = d.next /\ e.log = d.log
      /\ {"pc", "why", "mfile", "next", "files", "log", "last", "mem", "adds", "dels",
          "err", "todo", "ino"} \subseteq DOMAIN e /\ "retire" \notin DOMAIN e
  BY <1>2, <1>4 DEF SessionType, OpeningInv
<1> HIDE DEF to, e
<1>6. rec \in Edits /\ rec.full = FALSE /\ rec.adds = d.files
  BY <1>2 DEF Record, Edits, SessionType
<1>7. /\ file \in [recs : Seq(Edits), synced : Nat] /\ file.synced <= Len(file.recs)
      /\ ViewOf(file).full = FALSE /\ ViewOf(file).files = d.files
      /\ SureViewOf(file).full = FALSE /\ SureViewOf(file).files = {}
  <2>1. /\ <<rec>> \in Seq(Edits) /\ Len(<<rec>>) = 1 /\ SubSeq(<<rec>>, 1, 0) = <<>>
        /\ Replay(<<rec>>).files = rec.adds /\ Replay(<<rec>>).full = FALSE
    BY <1>6, ReplayOfOne
  <2>2. file.recs = <<rec>> /\ file.synced = 0
    OBVIOUS
  <2>3. file \in [recs : Seq(Edits), synced : Nat] /\ file.synced <= Len(file.recs)
    BY <2>1
  <2>4. ViewOf(file) = Replay(<<rec>>) /\ SureViewOf(file) = Replay(<<>>)
    BY <2>1, <2>2, Zenon DEF ViewOf, SureViewOf
  <2> HIDE DEF file, rec
  <2> QED BY <1>6, <2>1, <2>3, <2>4, ReplayOfNothing
<1> HIDE DEF file
<1>8. d.mfile \in Nat \ {0} /\ \A x \in d.files : x < d.next
  BY <1>2 DEF SessionType
<1>9. /\ DOMAIN manifests' = DOMAIN manifests \cup {d.mfile} /\ manifests'[d.mfile] = file
      /\ \A x \in DOMAIN manifests \ {d.mfile} : manifests'[x] = manifests[x]
  <2> HIDE DEF d
  <2> QED BY <1>1 DEF With
<1>10. FilesInv'
  <2>1. \A x \in DOMAIN manifests' : /\ manifests'[x] \in [recs : Seq(Edits), synced : Nat]
                                     /\ manifests'[x].synced <= Len(manifests'[x].recs)
    BY <1>2, <1>7, <1>9 DEF FilesInv
  <2> QED BY <1>1, <1>2, <1>8, <1>9, <2>1 DEF FilesInv
<1>11. CurrentInv' /\ WorldInv'
  <2>1. NumbersOf(ViewOf(file)) /\ NumbersOf(SureViewOf(file))
    BY <1>7 DEF NumbersOf
  <2> QED BY <1>1, <1>2, <1>7, <1>9, <2>1, NewManifestOn
<1>12. (OpeningInv(db[h]))'
  <2>1. (SessionType(db[h]))'
    BY <1>2, <1>5 DEF SessionType, e
  <2>2. e.mfile = current' => current' = 1 /\ (~undone' => acked' = {})
    BY <1>1, <1>2, <1>5 DEF OpeningInv
  <2>3. current' \in DOMAIN manifests' =>
          \A x \in ViewOf(manifests'[current']).files \cup SureViewOf(manifests'[current']).files : x < e.next
    <3>1. CASE current = d.mfile
      BY <1>1, <1>5, <1>7, <1>8, <1>9, <3>1
    <3>2. CASE current # d.mfile
      BY <1>1, <1>2, <1>5, <1>9, <3>2 DEF OpeningInv
    <3> QED BY <3>1, <3>2
  <2>4. GoodTables(e.adds, e.last, tables') /\ (~undone' => GoodTables(e.files, e.last, tables'))
    BY <1>1, <1>2, <1>5 DEF OpeningInv
  <2>5. /\ e.log \in DOMAIN logs' /\ EntsOf(logs'[e.log]) = {}
        /\ \A x \in DOMAIN logs' : x <= e.log
        /\ Keeps(acked', safe', e.files \cup e.adds, {}, tables', logs')
    BY <1>1, <1>2, <1>5 DEF OpeningInv
  <2>6. /\ e.mfile \in DOMAIN manifests'
        /\ manifests'[e.mfile] = [recs |-> <<Record(e.files, {})>>, synced |-> 0]
    BY <1>5, <1>9 DEF file
  <2> QED BY <1>4, <1>5, <2>1, <2>2, <2>3, <2>4, <2>5, <2>6 DEF OpeningInv, e
<1>13. (CallInv(db[h]))' /\ ~(Repairs(db[h]))'
  BY <1>4, <1>5, <1>12 DEF CallInv, Opening, Working, Creating, Repairs, e
<1> QED BY <1>1, <1>2, <1>3, <1>8, <1>10, <1>11, <1>13, OwnerDone

\* A record of all numbers, and what Recover() makes of it
LEMMA LoggedIs ==
    ASSUME NEW m, m \in [recs : Seq(Edits), synced : Nat], NEW r \in Edits, r.full
    PROVE  LET v == [files |-> (ViewOf(m).files \ r.dels) \cup r.adds, full |-> TRUE,
                     log |-> r.log, next |-> r.next, last |-> r.last]
               n == LoggedEdit(m, r)
           IN  /\ n \in [recs : Seq(Edits), synced : Nat] /\ n.synced = Len(n.recs)
               /\ ViewOf(n) = v /\ SureViewOf(n) = v
<1> DEFINE v == [files |-> (ViewOf(m).files \ r.dels) \cup r.adds, full |-> TRUE,
                 log |-> r.log, next |-> r.next, last |-> r.last]
           n == LoggedEdit(m, r)
<1>1. m.recs \in Seq(Edits) /\ Len(m.recs) \in Nat
  OBVIOUS
<1>2. /\ Append(m.recs, r) \in Seq(Edits) /\ Len(Append(m.recs, r)) = Len(m.recs) + 1
      /\ SubSeq(Append(m.recs, r), 1, Len(m.recs) + 1) = Append(m.recs, r)
  BY <1>1, AppendPrefix
<1>3. Replay(Append(m.recs, r)) = v
  BY <1>1, ReplayOfAppend DEF ViewOf
<1>4. n = [recs |-> Append(m.recs, r), synced |-> Len(m.recs) + 1]
  BY DEF LoggedEdit
<1> HIDE DEF v, n
<1>5. n.recs = Append(m.recs, r) /\ n.synced = Len(m.recs) + 1
  BY <1>4
<1>6. n \in [recs : Seq(Edits), synced : Nat]
  BY <1>1, <1>2, <1>4
<1>7. ViewOf(n) = v /\ SureViewOf(n) = v
  BY <1>2, <1>3, <1>5 DEF ViewOf, SureViewOf
<1> QED BY <1>2, <1>5, <1>6, <1>7 DEF v, n

----------------------------------------------------------------------------
(* Edits of a MANIFEST.                                                    *)

LEMMA SyncedView ==
    ASSUME FilesInv, NEW n \in DOMAIN manifests, manifests[n].synced = Len(manifests[n].recs)
    PROVE  SureViewOf(manifests[n]) = ViewOf(manifests[n])
<1>1. manifests[n].recs \in Seq(Edits) /\ manifests[n].synced \in 0..Len(manifests[n].recs)
  BY DEF FilesInv
<1>2. SubSeq(manifests[n].recs, 1, manifests[n].synced) = manifests[n].recs
  BY <1>1, Prefix
<1> QED BY <1>2 DEF ViewOf, SureViewOf

LEMMA WorkingFacts ==
    ASSUME Sane, NEW h \in Handles, Working(db[h])
    PROVE  /\ WorkingInv(db[h]) /\ SessionType(db[h]) /\ Owns(h) /\ "retire" \notin DOMAIN db[h]
           /\ FilesInv /\ BoundInv /\ DiskInv /\ CurrentInv /\ WorldInv
           /\ \A g \in Handles \ {h} : db[g].pc # "copy"
           /\ ~db[h].err => SureViewOf(manifests[current]) = ViewOf(manifests[current])
<1>1. WorkingInv(db[h]) /\ SessionType(db[h])
  BY DEF Sane, WholeInv, CallsInv, CallInv, WorkingInv
<1>2. Owns(h) /\ "retire" \notin DOMAIN db[h]
  BY OwnerStage DEF Working
<1>3. FilesInv
  BY DEF Sane, WholeInv
<1>4. ~db[h].err => SureViewOf(manifests[current]) = ViewOf(manifests[current])
  BY <1>1, <1>3, SyncedView DEF WorkingInv
<1> QED BY <1>1, <1>2, <1>4, OwnerFacts DEF Sane, WholeInv

LEMMA BoundOwner ==
    ASSUME Sane, NEW h \in Handles, Owns(h), \A g \in Handles \ {h} : db'[g] = db[g],
           db'[h].pc # "copy", NEW c \in Nat,
           \A n \in temps' \cup DOMAIN logs' \cup DOMAIN tables' :
              n \in 0..c \/ n \in temps \cup DOMAIN logs \cup DOMAIN tables,
           \A n \in DOMAIN logs' : \A x \in EntsOf(logs'[n]) : x \in 0..c \/ OldEntry(x),
           \A n \in DOMAIN tables' : \A x \in tables'[n].ents : x \in 0..c \/ OldEntry(x)
    PROVE  BoundInv'
<1>1. \A g \in Handles : db'[g].pc # "copy"
  BY OwnerFacts
<1> QED BY <1>1, BoundOn DEF Sane, WholeInv

\* A call that has the lock goes on as an open world.
LEMMA WorkingDone ==
    ASSUME Sane, NEW h \in Handles, Owns(h), \A g \in Handles \ {h} : db'[g] = db[g],
           (Working(db[h]))', (WorkingInv(db[h]))', "retire" \notin DOMAIN db'[h],
           FilesInv', BoundInv', CurrentInv', WorldInv'
    PROVE  WholeInv'
<1>1. (CallInv(db[h]))' /\ ~(Repairs(db[h]))'
  BY DEF CallInv, Opening, Working, Creating, Repairs
<1>2. CallsInv' /\ AloneInv'
  BY <1>1, CallsOn DEF Sane, WholeInv
<1> DEFINE v == ViewOf(manifests'[current'])
<1>3. v.full /\ Lists(v, acked', safe', tables', logs')
  BY DEF WorkingInv
<1> HIDE DEF v
<1>4. Keeps(acked', safe', v.files, From(v.log), tables', logs')
  BY <1>3 DEF Lists
<1>5. DiskInv'
  BY <1>4, DiskKeeps
<1> QED BY <1>2, <1>5 DEF WholeInv

\* The MANIFEST after an edit that reached the disk
LEMMA EditedManifest ==
    ASSUME FilesInv, NEW k \in DOMAIN manifests, NEW r \in Edits, r.full,
           manifests' = [manifests EXCEPT ![k] = LoggedEdit(@, r)],
           UNCHANGED <<current, temps, logs, tables, acked, safe, undone>>
    PROVE  LET v == [files |-> (ViewOf(manifests[k]).files \ r.dels) \cup r.adds, full |-> TRUE,
                     log |-> r.log, next |-> r.next, last |-> r.last]
           IN  /\ FilesInv' /\ DOMAIN manifests' = DOMAIN manifests
               /\ \A n \in DOMAIN manifests : n # k => manifests'[n] = manifests[n]
               /\ manifests'[k].synced = Len(manifests'[k].recs)
               /\ ViewOf(manifests'[k]) = v /\ SureViewOf(manifests'[k]) = v
<1> DEFINE v == [files |-> (ViewOf(manifests[k]).files \ r.dels) \cup r.adds, full |-> TRUE,
                 log |-> r.log, next |-> r.next, last |-> r.last]
           m == LoggedEdit(manifests[k], r)
<1>1. manifests[k] \in [recs : Seq(Edits), synced : Nat]
  BY DEF FilesInv
<1>2. /\ m \in [recs : Seq(Edits), synced : Nat] /\ m.synced = Len(m.recs)
      /\ ViewOf(m) = v /\ SureViewOf(m) = v
  BY <1>1, LoggedIs
<1>3. DOMAIN manifests' = DOMAIN manifests /\ manifests'[k] = m
      /\ \A n \in DOMAIN manifests : n # k => manifests'[n] = manifests[n]
  OBVIOUS
<1> HIDE DEF m, v
<1>4. \A n \in DOMAIN manifests' : /\ manifests'[n] \in [recs : Seq(Edits), synced : Nat]
                                   /\ manifests'[n].synced <= Len(manifests'[n].recs)
  <2>1. m.synced <= Len(m.recs)
    BY <1>2
  <2> QED BY <1>2, <1>3, <2>1 DEF FilesInv
<1>5. FilesInv'
  BY <1>3, <1>4 DEF FilesInv
<1> QED BY <1>2, <1>3, <1>5 DEF v

LEMMA EditFacts ==
    ASSUME NEW d, SessionType(d)
    PROVE  /\ EditOf(d) \in Edits /\ EditOf(d).full /\ EditOf(d).adds = d.adds
           /\ EditOf(d).dels = d.dels /\ EditOf(d).log = d.log /\ EditOf(d).next = d.next
           /\ EditOf(d).last = d.last
<1>1. /\ EditOf(d) = [adds |-> d.adds, dels |-> d.dels, full |-> TRUE, log |-> d.log,
                      next |-> d.next, last |-> d.last]
  BY DEF EditOf, FullRecord
<1>2. /\ d.adds \in SUBSET (Nat \ {0}) /\ d.dels \in SUBSET (Nat \ {0}) /\ d.log \in Nat
      /\ d.next \in Nat /\ d.last \in Nat
  BY DEF SessionType
<1> DEFINE R == [adds : SUBSET (Nat \ {0}), dels : SUBSET (Nat \ {0}), full : {TRUE},
                 log : Nat, next : Nat, last : Nat]
<1>3. EditOf(d) \in R
  BY <1>1, <1>2
<1>4. R \subseteq Edits
  BY DEF Edits
<1>5. /\ EditOf(d).full /\ EditOf(d).adds = d.adds
      /\ EditOf(d).dels = d.dels /\ EditOf(d).log = d.log /\ EditOf(d).next = d.next
      /\ EditOf(d).last = d.last
  BY <1>1
<1> HIDE DEF R
<1> QED BY <1>3, <1>4, <1>5

LEMMA LogNewKeeps ==
    ASSUME Sane, NEW h \in Handles, LogEdit(h), db[h].why = "open"
    PROVE  WholeInv'
<1> DEFINE d == db[h]
           e == db'[h]
           r == EditOf(d)
           files == (d.files \ d.dels) \cup d.adds
           to == [pc |-> "temp", files |-> files]
<1>1. /\ d.pc = "edit" /\ Step(h, to) /\ manifests' = [manifests EXCEPT ![d.mfile] = LoggedEdit(@, r)]
      /\ UNCHANGED <<current, temps, logs, tables, acked, safe, undone>>
  BY DEF LogEdit, At, tableVars, goalVars
<1>2. /\ OpeningInv(d) /\ SessionType(d) /\ Owns(h) /\ "retire" \notin DOMAIN d
      /\ FilesInv /\ BoundInv /\ DiskInv /\ CurrentInv /\ WorldInv /\ Opening(d)
  BY <1>1, OpeningFacts DEF Opening
<1>3. \A g \in Handles \ {h} : db'[g] = db[g]
  BY <1>1, StepFacts DEF Sane
<1>4. /\ e.pc = "temp" /\ e.files = files /\ DOMAIN e = DOMAIN d \cup {"pc", "files"}
      /\ \A x \in DOMAIN d \ {"pc", "files"} : e[x] = d[x]
  <2>1. e = Changed(d, to)
    BY <1>1, StepFacts DEF Sane
  <2> HIDE DEF e, d
  <2> QED BY <2>1 DEF Changed
<1>5. /\ e.why = "open" /\ e.mfile = d.mfile /\ e.last = d.last
      /\ e.mem = {} /\ e.dels = {} /\ e.err = FALSE /\ e.adds = d.adds
      /\ e.next = d.next /\ e.log = d.log
      /\ {"pc", "why", "mfile", "next", "files", "log", "last", "mem", "adds", "dels",
          "err", "todo", "ino"} \subseteq DOMAIN e /\ "retire" \notin DOMAIN e
  BY <1>2, <1>4 DEF SessionType, OpeningInv
<1> HIDE DEF to, e
<1>6. files = d.files \cup d.adds
  BY <1>2 DEF OpeningInv
<1>7. /\ d.mfile \in Nat \ {0} /\ d.mfile < d.next /\ d.next \in Nat /\ d.log \in Nat /\ d.last \in Nat
      /\ d.log < d.next /\ files \subseteq Nat \ {0} /\ \A x \in files : x < d.next
  BY <1>2, <1>6 DEF SessionType
<1> DEFINE k == d.mfile
           w == [files |-> files, full |-> TRUE, log |-> d.log, next |-> d.next, last |-> d.last]
<1>8. /\ k \in DOMAIN manifests /\ ViewOf(manifests[k]).files = d.files
  <2>1. k \in DOMAIN manifests /\ manifests[k] = [recs |-> <<Record(d.files, {})>>, synced |-> 0]
    BY <1>1, <1>2 DEF OpeningInv
  <2>2. /\ Record(d.files, {}) \in Edits /\ ~Record(d.files, {}).full
        /\ Record(d.files, {}).adds = d.files
    BY <1>2 DEF Record, Edits, SessionType
  <2>3. Replay(<<Record(d.files, {})>>).files = d.files
    BY <2>2, ReplayOfOne
  <2>4. manifests[k].recs = <<Record(d.files, {})>>
    BY <2>1
  <2> QED BY <2>1, <2>3, <2>4 DEF ViewOf
<1>9. /\ r \in Edits /\ r.full /\ r.adds = d.adds /\ r.dels = d.dels /\ r.log = d.log
      /\ r.next = d.next /\ r.last = d.last
  BY <1>2, EditFacts
<1>10. manifests' = [manifests EXCEPT ![k] = LoggedEdit(@, r)]
  BY <1>1
<1> HIDE DEF r, k
<1>11. /\ FilesInv' /\ DOMAIN manifests' = DOMAIN manifests
       /\ \A n \in DOMAIN manifests : n # k => manifests'[n] = manifests[n]
       /\ manifests'[k].synced = Len(manifests'[k].recs)
       /\ ViewOf(manifests'[k]) = w /\ SureViewOf(manifests'[k]) = w
  <2>1. w = [files |-> (ViewOf(manifests[k]).files \ r.dels) \cup r.adds, full |-> TRUE,
             log |-> r.log, next |-> r.next, last |-> r.last]
    BY <1>8, <1>9
  <2> HIDE DEF w, files
  <2> QED BY <1>1, <1>2, <1>8, <1>9, <1>10, <2>1, EditedManifest
<1>12. NumbersOf(w) /\ w.full /\ w.next > 0 /\ w.files = files
  BY <1>7 DEF NumbersOf
<1>13. (~undone => GoodTables(files, d.last, tables)) /\ GoodTables(d.adds, d.last, tables)
  BY <1>2, <1>6 DEF OpeningInv, GoodTables
<1>14. w.last = d.last /\ w = [files |-> e.files, full |-> TRUE, log |-> e.log, next |-> e.next, last |-> e.last]
  BY <1>4, <1>5
<1> HIDE DEF w, files
<1>15. CurrentInv' /\ WorldInv'
  BY <1>1, <1>2, <1>8, <1>11, <1>12, <1>13, <1>14, NewManifestOn DEF k
<1>16. (OpeningInv(db[h]))'
  <2>1. (SessionType(db[h]))'
    <3>1. /\ e.files \subseteq Nat \ {0} /\ e.adds \subseteq Nat \ {0} /\ e.dels \subseteq Nat \ {0}
          /\ e.mem \subseteq Nat /\ e.err \in BOOLEAN
      BY <1>2, <1>4, <1>5, <1>7 DEF SessionType
    <3>2. \A x \in e.files \cup e.adds : x < e.next
      BY <1>4, <1>5, <1>6, <1>7
    <3> QED BY <1>5, <1>7, <3>1, <3>2 DEF SessionType, e
  <2>2. e.mfile = current' => current' = 1 /\ (~undone' => acked' = {})
    BY <1>1, <1>2, <1>5 DEF OpeningInv
  <2>3. current' \in DOMAIN manifests' =>
          \A x \in ViewOf(manifests'[current']).files \cup SureViewOf(manifests'[current']).files : x < e.next
    <3>1. CASE current = k
      BY <1>1, <1>5, <1>7, <1>11, <1>12, <3>1
    <3>2. CASE current # k
      BY <1>1, <1>2, <1>5, <1>11, <3>2 DEF OpeningInv
    <3> QED BY <3>1, <3>2
  <2>4. GoodTables(e.adds, e.last, tables') /\ (~undone' => GoodTables(e.files, e.last, tables'))
    BY <1>1, <1>4, <1>5, <1>13
  <2>5. e.files \cup e.adds = d.files \cup d.adds /\ e.adds \subseteq e.files
    BY <1>4, <1>5, <1>6
  <2>6. /\ e.log \in DOMAIN logs' /\ EntsOf(logs'[e.log]) = {}
        /\ \A x \in DOMAIN logs' : x <= e.log
        /\ Keeps(acked', safe', e.files \cup e.adds, {}, tables', logs')
    BY <1>1, <1>2, <1>5, <2>5 DEF OpeningInv
  <2>7. /\ e.mfile \in DOMAIN manifests'
        /\ ViewOf(manifests'[e.mfile]) = LoggedView(e)
        /\ manifests'[e.mfile].synced = Len(manifests'[e.mfile].recs)
    BY <1>5, <1>8, <1>11, <1>14 DEF k, LoggedView
  <2> QED BY <1>4, <1>5, <2>1, <2>2, <2>3, <2>4, <2>5, <2>6, <2>7 DEF OpeningInv, e
<1>17. (CallInv(db[h]))' /\ ~(Repairs(db[h]))'
  BY <1>4, <1>5, <1>16 DEF CallInv, Opening, Working, Creating, Repairs, e
<1> QED BY <1>1, <1>2, <1>3, <1>7, <1>11, <1>15, <1>17, OwnerDone

\* What the edit of a flush or a merge would make of the world: the new table
\* has what it takes the place of.
LEMMA AfterJob ==
    ASSUME Sane, NEW h \in Handles, db[h].pc = "edit", db[h].why = "job",
           NEW F, F = (db[h].files \ db[h].dels) \cup db[h].adds
    PROVE  /\ Keeps(acked, safe, F, From(db[h].log), tables, logs)
           /\ ~undone => GoodTables(F, db[h].last, tables)
           /\ F \subseteq Nat \ {0} /\ \A x \in F : x < db[h].next
<1> DEFINE d == db[h]
           v == ViewOf(manifests[current])
<1>1. /\ WorkingInv(d) /\ SessionType(d) /\ FilesInv /\ CurrentInv /\ WorldInv
      /\ current \in DOMAIN manifests
  BY WorkingFacts DEF Working, WorkingInv
<1>2. /\ v.full /\ v.files = d.files /\ v.log <= d.log /\ v.last <= d.last
      /\ d.log \in DOMAIN logs /\ \A n \in DOMAIN logs : n <= d.log
      /\ Lists(v, acked, safe, tables, logs)
  BY <1>1 DEF WorkingInv
<1>3. PICK n0 \in DOMAIN tables :
         /\ d.adds = {n0} /\ IsSure(tables[n0])
         /\ \A n \in DOMAIN tables : n \in d.dels => tables[n].ents \subseteq tables[n0].ents
         /\ EntsOf(logs[d.log]) \subseteq d.mem
         /\ \A n \in DOMAIN logs :
               n >= v.log => n = d.log \/ EntsOf(logs[n]) \subseteq tables[n0].ents
         /\ ~undone => \A e \in tables[n0].ents : e <= d.last
  BY <1>1 DEF WorkingInv
<1>4. NumbersOf(v) /\ (~undone => GoodTables(v.files, v.last, tables))
  BY <1>1, <1>2 DEF CurrentInv, WorldInv
<1>5. d.files \subseteq Nat \ {0} /\ d.adds \subseteq Nat \ {0} /\ d.last \in Nat /\ d.log \in Nat
      /\ \A x \in d.files \cup d.adds : x < d.next
  BY <1>1 DEF SessionType
<1> HIDE DEF v
<1>6. ASSUME ~undone PROVE GoodTables(F, d.last, tables)
  <2> SUFFICES ASSUME NEW x \in F PROVE x \in DOMAIN tables /\ \A y \in tables[x].ents : y <= d.last
    BY DEF GoodTables
  <2>1. CASE x = n0
    BY <1>3, <1>6, <2>1
  <2>2. CASE x # n0
    <3>1. x \in v.files
      BY <1>2, <1>3, <2>2
    <3>2. x \in DOMAIN tables /\ \A y \in tables[x].ents : y <= v.last
      BY <1>4, <1>6, <3>1 DEF GoodTables
    <3>3. tables[x].ents \subseteq Nat /\ v.last \in Nat
      BY <1>1, <1>2, <1>4, <3>2 DEF FilesInv, NumbersOf
    <3> QED BY <1>2, <1>5, <3>2, <3>3
  <2> QED BY <2>1, <2>2
<1>7. Keeps(acked, safe, v.files, From(v.log), tables, logs)
  BY <1>2 DEF Lists
<1>8. ASSUME NEW a \in acked PROVE InTables(a, F, tables) \/ InLogs(a, From(d.log), logs)
  <2>1. CASE InTables(a, v.files, tables)
    BY <1>2, <1>3, <2>1 DEF InTables
  <2>2. CASE InLogs(a, From(v.log), logs)
    <3>1. PICK n \in DOMAIN logs : n >= v.log /\ a \in EntsOf(logs[n])
      BY <2>2 DEF InLogs, From
    <3>2. CASE n = d.log
      BY <1>5, <3>1, <3>2 DEF InLogs, From
    <3>3. CASE n # d.log
      BY <1>3, <3>1, <3>3 DEF InTables
    <3> QED BY <3>2, <3>3
  <2> QED BY <1>7, <2>1, <2>2 DEF Keeps, Hold
<1>9. ASSUME NEW a \in safe PROVE SureInTables(a, F, tables) \/ SureInLogs(a, From(d.log), logs)
  <2>1. CASE SureInTables(a, v.files, tables)
    BY <1>2, <1>3, <2>1 DEF SureInTables
  <2>2. CASE SureInLogs(a, From(v.log), logs)
    <3>1. PICK n \in DOMAIN logs : n >= v.log /\ a \in SureOf(logs[n])
      BY <2>2 DEF SureInLogs, From
    <3>2. CASE n = d.log
      BY <1>5, <3>1, <3>2 DEF SureInLogs, From
    <3>3. CASE n # d.log
      <4>1. a \in tables[n0].ents
        BY <1>1, <1>3, <3>1, <3>3, EntsFacts
      <4> QED BY <1>3, <4>1 DEF SureInTables
    <3> QED BY <3>2, <3>3
  <2> QED BY <1>7, <2>1, <2>2 DEF Keeps, HoldSafe
<1> QED BY <1>5, <1>6, <1>8, <1>9 DEF Keeps, Hold, HoldSafe

\* The MANIFEST of an open world gets another record.
LEMMA EditOfWorld ==
    ASSUME Sane, NEW h \in Handles, db[h].pc = "edit", db[h].why = "job",
           NEW F, F = (db[h].files \ db[h].dels) \cup db[h].adds,
           NEW w, w = [files |-> F, full |-> TRUE, log |-> db[h].log, next |-> db[h].next,
                       last |-> db[h].last],
           UNCHANGED <<current, logs, tables, acked, safe, undone>>,
           current \in DOMAIN manifests', ViewOf(manifests'[current]) = w,
           SureViewOf(manifests'[current]) \in {w, ViewOf(manifests[current])}
    PROVE  CurrentInv' /\ WorldInv'
<1> DEFINE d == db[h]
           v == ViewOf(manifests[current])
           s == SureViewOf(manifests'[current])
<1>1. /\ WorkingInv(d) /\ SessionType(d) /\ FilesInv /\ CurrentInv /\ WorldInv
      /\ SureViewOf(manifests[current]) = ViewOf(manifests[current]) /\ current \in DOMAIN manifests
  BY WorkingFacts DEF Working, WorkingInv
<1>2. /\ v.full /\ v.next > 1 /\ v.next <= d.next /\ v.files = d.files
  BY <1>1 DEF WorkingInv
<1>3. /\ Keeps(acked, safe, F, From(d.log), tables, logs)
      /\ ~undone => GoodTables(F, d.last, tables)
      /\ F \subseteq Nat \ {0} /\ \A x \in F : x < d.next
  BY AfterJob
<1>4. /\ d.next \in Nat /\ d.log \in Nat /\ d.last \in Nat /\ d.log < d.next /\ d.mfile < d.next
      /\ d.mfile = current
  BY <1>1 DEF SessionType, WorkingInv
<1>5. /\ NumbersOf(v) /\ (current < v.next \/ current = 1)
      /\ v.next \in Nat /\ \A x \in v.files : x \in Nat /\ x < v.next
  BY <1>1, <1>2, ViewFacts DEF CurrentInv, NumbersOf
<1>6. /\ w.full /\ w.files = F /\ w.log = d.log /\ w.next = d.next /\ w.last = d.last
  OBVIOUS
<1>7. s = w \/ s = v
  OBVIOUS
<1>8. ~undone => /\ GoodTables(v.files, v.last, tables)
                 /\ HoldSafe(safe, v.files, From(v.log), tables, logs)
  BY <1>1, <1>2 DEF WorldInv
<1>9. ViewOf(manifests'[current']) = w /\ SureViewOf(manifests'[current']) = s
      /\ Contents(manifests', current') = w /\ current' \in DOMAIN manifests'
  BY DEF Contents, ViewOf
<1> HIDE DEF v, s
<1>10. NumbersOf(w)
  BY <1>3, <1>4, <1>6 DEF NumbersOf
<1>11. \A x \in s.files : x < w.next
  BY <1>2, <1>3, <1>4, <1>5, <1>6, <1>7
<1>12. s.full /\ s.next > 1 /\ NumbersOf(s) /\ (current < s.next \/ current = 1)
  <2>1. CASE s = w
    <3>1. w.next > 1 /\ current < w.next
      BY <1>2, <1>4, <1>5, <1>6
    <3> QED BY <1>6, <1>10, <2>1, <3>1
  <2>2. CASE s = v
    BY <1>2, <1>5, <2>2
  <2> QED BY <1>7, <2>1, <2>2
<1>13. CurrentInv'
  <2>1. w.next > 0 /\ current < w.next /\ s.next > 0
    <3>1. w.next > 0 /\ current < w.next
      BY <1>4, <1>6
    <3>2. s.next > 0
      BY <1>12 DEF NumbersOf
    <3> QED BY <3>1, <3>2
  <2>2. current' = current
    OBVIOUS
  <2> QED BY <1>6, <1>9, <1>10, <1>11, <1>12, <2>1, <2>2 DEF CurrentInv
<1>14. ASSUME ~undone
       PROVE  /\ GoodTables(w.files, w.last, tables) /\ GoodTables(s.files, s.last, tables)
              /\ HoldSafe(safe, s.files, From(s.log), tables, logs)
              /\ Lists(w, acked, safe, tables, logs)
  <2>1. Keeps(acked, safe, w.files, From(w.log), tables, logs) /\ GoodTables(w.files, w.last, tables)
    BY <1>3, <1>6, <1>14
  <2>2. HoldSafe(safe, w.files, From(w.log), tables, logs)
    BY <2>1 DEF Keeps
  <2>3. Lists(w, acked, safe, tables, logs)
    BY <1>6, <2>1 DEF Lists
  <2>4. CASE s = w
    BY <2>1, <2>2, <2>3, <2>4
  <2>5. CASE s = v
    BY <1>8, <1>14, <2>1, <2>3, <2>5
  <2> QED BY <1>7, <2>4, <2>5
<1>15. w.next > 1
  BY <1>2, <1>4, <1>5, <1>6
<1>16. WorldInv'
  BY <1>6, <1>9, <1>12, <1>14, <1>15 DEF WorldInv
<1> QED BY <1>13, <1>16

LEMMA LogJobKeeps ==
    ASSUME Sane, NEW h \in Handles, LogEdit(h), db[h].why # "open"
    PROVE  WholeInv'
<1> DEFINE d == db[h]
           e == db'[h]
           r == EditOf(d)
           F == (d.files \ d.dels) \cup d.adds
           to == [pc |-> "clean", files |-> F]
           v == ViewOf(manifests[current])
           w == [files |-> F, full |-> TRUE, log |-> d.log, next |-> d.next, last |-> d.last]
<1>1. /\ d.pc = "edit" /\ Step(h, to) /\ manifests' = [manifests EXCEPT ![d.mfile] = LoggedEdit(@, r)]
      /\ UNCHANGED <<current, temps, logs, tables, acked, safe, undone>>
  BY DEF LogEdit, At, tableVars, goalVars
<1>2. d.why = "job"
  BY <1>1, OwnerStage DEF Stage
<1>3. /\ WorkingInv(d) /\ SessionType(d) /\ Owns(h) /\ "retire" \notin DOMAIN d
      /\ FilesInv /\ BoundInv /\ CurrentInv /\ WorldInv
  BY <1>1, <1>2, WorkingFacts DEF Working
<1>4. \A g \in Handles \ {h} : db'[g] = db[g]
  BY <1>1, StepFacts DEF Sane
<1>5. /\ e.pc = "clean" /\ e.files = F /\ DOMAIN e = DOMAIN d \cup {"pc", "files"}
      /\ \A x \in DOMAIN d \ {"pc", "files"} : e[x] = d[x]
  <2>1. e = Changed(d, to)
    BY <1>1, StepFacts DEF Sane
  <2> HIDE DEF e, d
  <2> QED BY <2>1 DEF Changed
<1>6. /\ e.mfile = d.mfile /\ e.last = d.last /\ e.mem = d.mem /\ e.err = d.err
      /\ e.next = d.next /\ e.log = d.log /\ e.dels = d.dels /\ e.adds = d.adds
      /\ {"pc", "why", "mfile", "next", "files", "log", "last", "mem", "adds", "dels",
          "err", "todo", "ino"} \subseteq DOMAIN e /\ "retire" \notin DOMAIN e
  BY <1>3, <1>5 DEF SessionType
<1> HIDE DEF to, e
<1>7. /\ d.mfile = current /\ current \in DOMAIN manifests /\ d.err = FALSE /\ v.files = d.files
      /\ v.full /\ v.next > 1 /\ v.next <= d.next /\ v.log <= d.log
      /\ d.log \in DOMAIN logs /\ (\A n \in DOMAIN logs : n <= d.log)
      /\ \A n \in DOMAIN logs : n >= v.log => \A x \in EntsOf(logs[n]) : x <= d.last
      /\ \A x \in d.mem : x <= d.last
      /\ EntsOf(logs[d.log]) \subseteq d.mem
  BY <1>1, <1>2, <1>3 DEF WorkingInv, SessionType
<1>8. /\ r \in Edits /\ r.full /\ r.adds = d.adds /\ r.dels = d.dels /\ r.log = d.log
      /\ r.next = d.next /\ r.last = d.last
  BY <1>3, EditFacts
<1>9. manifests' = [manifests EXCEPT ![current] = LoggedEdit(@, r)]
  BY <1>1, <1>7
<1> HIDE DEF r
<1>10. /\ FilesInv' /\ DOMAIN manifests' = DOMAIN manifests
       /\ manifests'[current].synced = Len(manifests'[current].recs)
       /\ ViewOf(manifests'[current]) = w /\ SureViewOf(manifests'[current]) = w
  <2>1. w = [files |-> (ViewOf(manifests[current]).files \ r.dels) \cup r.adds, full |-> TRUE,
             log |-> r.log, next |-> r.next, last |-> r.last]
    BY <1>7, <1>8
  <2>2. /\ FilesInv /\ current \in DOMAIN manifests /\ r \in Edits /\ r.full
        /\ UNCHANGED <<current, temps, logs, tables, acked, safe, undone>>
    BY <1>1, <1>3, <1>7, <1>8
  <2> HIDE DEF w, F, d, v
  <2> QED BY <1>9, <2>1, <2>2, EditedManifest
<1>11. /\ Keeps(acked, safe, F, From(d.log), tables, logs)
       /\ F \subseteq Nat \ {0} /\ \A x \in F : x < d.next
  BY <1>1, <1>2, AfterJob
<1>12. w.full /\ w.files = F /\ w.log = d.log /\ w.next = d.next /\ w.last = d.last
  OBVIOUS
<1>13. CurrentInv' /\ WorldInv'
  BY <1>1, <1>2, <1>7, <1>10, EditOfWorld
<1>14. /\ d.next \in Nat /\ d.last \in Nat /\ d.log \in Nat /\ v.next \in Nat
       /\ v.log \in Nat /\ d.mfile \in Nat \ {0} /\ d.mfile < d.next
  BY <1>3, <1>7 DEF SessionType, CurrentInv, NumbersOf
<1> HIDE DEF F, w, v
<1>15. (SessionType(db[h]))'
  <2>1. /\ e.files \subseteq Nat \ {0} /\ e.adds \subseteq Nat \ {0} /\ e.dels \subseteq Nat \ {0}
        /\ e.mem \subseteq Nat /\ e.err \in BOOLEAN
    BY <1>3, <1>5, <1>6, <1>11 DEF SessionType
  <2>2. /\ e.mfile \in Nat \ {0} /\ e.next \in Nat /\ e.log \in Nat /\ e.last \in Nat
        /\ e.mfile < e.next /\ e.log < e.next
    BY <1>3, <1>6 DEF SessionType
  <2>3. \A x \in e.files \cup e.adds : x < e.next
    BY <1>3, <1>5, <1>6, <1>11 DEF SessionType
  <2> QED BY <1>6, <2>1, <2>2, <2>3 DEF SessionType, e
<1>16. (WorkingInv(db[h]))'
  <2>1. Lists(w, acked, safe, tables, logs)
    BY <1>11, <1>12 DEF Lists
  <2>2. \A n \in DOMAIN logs : n >= d.log => n = d.log
    BY <1>3, <1>7, <1>14 DEF FilesInv
  <2>3. \A n \in DOMAIN logs : n >= w.log => \A x \in EntsOf(logs[n]) : x <= d.last
    BY <1>7, <1>12, <2>2
  <2>4. w.next > 1 /\ w.next <= e.next /\ w.log <= e.log /\ w.last <= e.last
    BY <1>6, <1>7, <1>12, <1>14
  <2>5. /\ e.mfile = current' /\ current' \in DOMAIN manifests' /\ ViewOf(manifests'[current']) = w
        /\ manifests'[current'].synced = Len(manifests'[current'].recs)
    BY <1>1, <1>6, <1>7, <1>10
  <2>6. /\ e.log \in DOMAIN logs' /\ \A n \in DOMAIN logs' : n <= e.log
    BY <1>1, <1>6, <1>7
  <2>7. \A n \in DOMAIN logs' : n >= w.log => \A x \in EntsOf(logs'[n]) : x <= e.last
    BY <1>1, <1>6, <2>3
  <2>8. (\A x \in e.mem : x <= e.last) /\ Lists(w, acked', safe', tables', logs')
    BY <1>1, <1>6, <1>7, <2>1
  <2>9. w.files = e.files /\ w.log = e.log /\ EntsOf(logs'[e.log]) \subseteq e.mem /\ e.err = FALSE
    BY <1>1, <1>5, <1>6, <1>7, <1>12
  <2> QED BY <1>5, <1>12, <1>15, <2>4, <2>5, <2>6, <2>7, <2>8, <2>9 DEF WorkingInv, e
<1>17. BoundInv'
  <2>1. db'[h].pc # "copy"
    BY <1>5 DEF e
  <2>2. \A g \in Handles : db'[g].pc # "copy"
    BY <1>3, <1>4, <2>1, OwnerFacts
  <2> QED BY <1>1, <1>3, <1>14, <2>2, BoundSame
<1>18. (Working(db[h]))' /\ "retire" \notin DOMAIN db'[h]
  BY <1>5, <1>6 DEF Working, e
<1> QED BY <1>3, <1>4, <1>10, <1>13, <1>16, <1>17, <1>18, WorkingDone

\* An Open() that fails takes its new MANIFEST away.
LEMMA OpenGivesUp ==
    ASSUME Sane, NEW h \in Handles, Opening(db[h]), Destruct(h),
           manifests' = Without(manifests, db[h].mfile), temps' \subseteq temps,
           UNCHANGED <<current, logs, tables, acked, safe, undone>>
    PROVE  WholeInv'
<1> DEFINE k == db[h].mfile
<1>1. OpeningInv(db[h]) /\ Owns(h) /\ FilesInv
  BY OpeningFacts
<1>2. /\ \A g \in Handles \ {h} : db'[g] = db[g]
      /\ (CallInv(db[h]))' /\ ~(Repairs(db[h]))'
  BY DestructFacts DEF Sane
<1>3. /\ DOMAIN manifests' = DOMAIN manifests \ {k}
      /\ \A n \in DOMAIN manifests' : manifests'[n] = manifests[n]
  BY DEF Without
<1> HIDE DEF k
<1>4. FilesInv'
  BY <1>1, <1>3 DEF FilesInv
<1>5. CurrentInv' /\ WorldInv'
  <2>1. k \notin DOMAIN manifests' /\ DOMAIN manifests' \subseteq DOMAIN manifests \cup {k}
        /\ \A n \in DOMAIN manifests \ {k} : n \in DOMAIN manifests' /\ manifests'[n] = manifests[n]
    BY <1>3
  <2> QED BY <2>1, NewManifestOn DEF k
<1>6. 0 \in Nat /\ temps' \subseteq temps \cup {0}
  OBVIOUS
<1> QED BY <1>1, <1>2, <1>4, <1>5, <1>6, OwnerDone

\* The MANIFEST after an edit of which only the operating system knows
LEMMA AppendedManifest ==
    ASSUME FilesInv, NEW k \in DOMAIN manifests, NEW r \in Edits, r.full,
           manifests' = [manifests EXCEPT ![k].recs = Append(@, r)],
           UNCHANGED <<current, temps, logs, tables, acked, safe, undone>>
    PROVE  /\ FilesInv' /\ DOMAIN manifests' = DOMAIN manifests
           /\ ViewOf(manifests'[k]) =
                 [files |-> (ViewOf(manifests[k]).files \ r.dels) \cup r.adds, full |-> TRUE,
                  log |-> r.log, next |-> r.next, last |-> r.last]
           /\ SureViewOf(manifests'[k]) = SureViewOf(manifests[k])
<1>1. /\ manifests[k] \in [recs : Seq(Edits), synced : Nat]
      /\ manifests[k].synced \in 0..Len(manifests[k].recs)
  BY DEF FilesInv
<1> DEFINE m == manifests[k]
           n == [recs |-> Append(m.recs, r), synced |-> m.synced]
<1>2. /\ DOMAIN manifests' = DOMAIN manifests /\ manifests'[k] = n
      /\ \A x \in DOMAIN manifests : x # k => manifests'[x] = manifests[x]
  BY <1>1
<1>3. /\ Append(m.recs, r) \in Seq(Edits) /\ Len(Append(m.recs, r)) = Len(m.recs) + 1
      /\ SubSeq(Append(m.recs, r), 1, m.synced) = SubSeq(m.recs, 1, m.synced)
  BY <1>1, AppendPrefix
<1>4. n.recs = Append(m.recs, r) /\ n.synced = m.synced
  OBVIOUS
<1>5. ViewOf(n) = [files |-> (ViewOf(m).files \ r.dels) \cup r.adds, full |-> TRUE,
                   log |-> r.log, next |-> r.next, last |-> r.last]
  BY <1>1, <1>4, ReplayOfAppend DEF ViewOf
<1>6. SureViewOf(n) = SureViewOf(m)
  BY <1>3, <1>4 DEF SureViewOf
<1>7. n \in [recs : Seq(Edits), synced : Nat] /\ n.synced <= Len(n.recs)
  BY <1>1, <1>3
<1> HIDE DEF n
<1>8. \A x \in DOMAIN manifests' : /\ manifests'[x] \in [recs : Seq(Edits), synced : Nat]
                                   /\ manifests'[x].synced <= Len(manifests'[x].recs)
  BY <1>2, <1>7 DEF FilesInv
<1>9. FilesInv'
  BY <1>2, <1>8 DEF FilesInv
<1> QED BY <1>2, <1>5, <1>6, <1>9

LEMMA EditFailsKeeps ==
    ASSUME Sane, NEW h \in Handles, EditFails(h)
    PROVE  WholeInv'
<1> DEFINE d == db[h]
           e == db'[h]
           r == EditOf(d)
           F == (d.files \ d.dels) \cup d.adds
           to == [pc |-> "open", err |-> TRUE]
           v == ViewOf(manifests[current])
           w == [files |-> F, full |-> TRUE, log |-> d.log, next |-> d.next, last |-> d.last]
<1>1. d.pc = "edit" /\ UNCHANGED <<current, temps, logs, tables, acked, safe, undone>>
  BY DEF EditFails, At, tableVars, goalVars
<1>2. d.why \in {"open", "job"}
  BY <1>1, OwnerStage DEF Stage
<1>3. CASE d.why = "open"
  <2>1. manifests' = Without(manifests, d.mfile) /\ Destruct(h)
    BY <1>3 DEF EditFails
  <2> QED BY <1>1, <1>3, <2>1, OpenGivesUp DEF Opening
<1>4. CASE d.why = "job"
  <2>1. /\ Step(h, to)
        /\ \/ UNCHANGED manifests
           \/ manifests' = [manifests EXCEPT ![d.mfile].recs = Append(@, r)]
    BY <1>4 DEF EditFails
  <2>2. /\ WorkingInv(d) /\ SessionType(d) /\ Owns(h) /\ "retire" \notin DOMAIN d
        /\ FilesInv /\ BoundInv /\ CurrentInv /\ WorldInv
    BY <1>1, <1>4, WorkingFacts DEF Working
  <2>3. \A g \in Handles \ {h} : db'[g] = db[g]
    BY <2>1, StepFacts DEF Sane
  <2>4. /\ e.pc = "open" /\ e.err = TRUE /\ DOMAIN e = DOMAIN d \cup {"pc", "err"}
        /\ \A x \in DOMAIN d \ {"pc", "err"} : e[x] = d[x]
    <3>1. e = Changed(d, to)
      BY <2>1, StepFacts DEF Sane
    <3> HIDE DEF e, d
    <3> QED BY <3>1 DEF Changed
  <2>5. /\ e.mfile = d.mfile /\ e.last = d.last /\ e.mem = d.mem /\ e.files = d.files
        /\ e.next = d.next /\ e.log = d.log /\ e.dels = d.dels /\ e.adds = d.adds
        /\ {"pc", "why", "mfile", "next", "files", "log", "last", "mem", "adds", "dels",
            "err", "todo", "ino"} \subseteq DOMAIN e /\ "retire" \notin DOMAIN e
    BY <2>2, <2>4 DEF SessionType
  <2> HIDE DEF to, e
  <2>6. /\ d.mfile = current /\ current \in DOMAIN manifests /\ v.files = d.files
        /\ v.full /\ v.next > 1 /\ v.next <= d.next /\ v.log <= d.log /\ v.last <= d.last
        /\ d.log \in DOMAIN logs /\ (\A n \in DOMAIN logs : n <= d.log)
        /\ \A n \in DOMAIN logs : n >= v.log => \A x \in EntsOf(logs[n]) : x <= d.last
        /\ \A x \in d.mem : x <= d.last
        /\ Lists(v, acked, safe, tables, logs)
        /\ SureViewOf(manifests[current]) = v
    BY <1>1, <1>4, <2>2, WorkingFacts DEF WorkingInv, Working
  <2>7. /\ r \in Edits /\ r.full /\ r.adds = d.adds /\ r.dels = d.dels /\ r.log = d.log
        /\ r.next = d.next /\ r.last = d.last
    BY <2>2, EditFacts
  <2>8. /\ Keeps(acked, safe, F, From(d.log), tables, logs)
        /\ F \subseteq Nat \ {0} /\ \A x \in F : x < d.next
    BY <1>1, <1>4, AfterJob
  <2>9. w.full /\ w.files = F /\ w.log = d.log /\ w.next = d.next /\ w.last = d.last
    OBVIOUS
  <2>10. /\ d.next \in Nat /\ d.last \in Nat /\ d.log \in Nat /\ v.next \in Nat
         /\ v.log \in Nat /\ d.mfile \in Nat \ {0} /\ d.mfile < d.next
    BY <2>2, <2>6 DEF SessionType, CurrentInv, NumbersOf
  <2>11. /\ FilesInv' /\ CurrentInv' /\ WorldInv' /\ current \in DOMAIN manifests'
         /\ ViewOf(manifests'[current]) \in {v, w}
    <3>1. CASE UNCHANGED manifests
      <4>1. FilesInv'
        BY <1>1, <2>2, <3>1 DEF FilesInv
      <4>2. CurrentInv' /\ WorldInv'
        BY <1>1, <2>2, <3>1, WorldOn
      <4> QED BY <2>6, <3>1, <4>1, <4>2
    <3>2. CASE manifests' = [manifests EXCEPT ![current].recs = Append(@, r)]
      <4>1. w = [files |-> (ViewOf(manifests[current]).files \ r.dels) \cup r.adds, full |-> TRUE,
                 log |-> r.log, next |-> r.next, last |-> r.last]
        BY <2>6, <2>7
      <4> HIDE DEF w, F, r, v
      <4>2. /\ FilesInv' /\ DOMAIN manifests' = DOMAIN manifests
            /\ ViewOf(manifests'[current]) = w
            /\ SureViewOf(manifests'[current]) = SureViewOf(manifests[current])
        BY <1>1, <2>2, <2>6, <2>7, <3>2, <4>1, AppendedManifest
      <4>3. SureViewOf(manifests'[current]) \in {w, ViewOf(manifests[current])}
        BY <2>6, <4>2 DEF v
      <4>4. CurrentInv' /\ WorldInv'
        BY <1>1, <1>4, <2>6, <4>2, <4>3, EditOfWorld DEF w, F
      <4> QED BY <2>6, <4>2, <4>4
    <3> QED BY <2>1, <2>6, <3>1, <3>2
  <2> DEFINE u == ViewOf(manifests'[current])
  <2> HIDE DEF F, w, v, r
  <2>12. u = v \/ u = w
    BY <2>11
  <2> HIDE DEF u
  <2>13. (SessionType(db[h]))'
    BY <2>2, <2>4, <2>5 DEF SessionType, e
  <2>14. \A n \in DOMAIN logs : n \in Nat
    BY <2>2 DEF FilesInv
  <2>15. /\ u.full /\ u.next > 1 /\ u.next <= d.next /\ u.log <= d.log /\ u.last <= d.last
         /\ Lists(u, acked, safe, tables, logs)
         /\ \A n \in DOMAIN logs : n >= u.log => \A x \in EntsOf(logs[n]) : x <= d.last
    <3>1. CASE u = v
      BY <2>6, <3>1
    <3>2. CASE u = w
      <4>1. Lists(w, acked, safe, tables, logs)
        BY <2>8, <2>9 DEF Lists
      <4>2. \A n \in DOMAIN logs : n >= d.log => \A x \in EntsOf(logs[n]) : x <= d.last
        BY <2>6, <2>10, <2>14
      <4> QED BY <2>6, <2>9, <2>10, <3>2, <4>1, <4>2
    <3> QED BY <2>12, <3>1, <3>2
  <2>16. (WorkingInv(db[h]))'
    <3>1. /\ e.mfile = current' /\ current' \in DOMAIN manifests' /\ ViewOf(manifests'[current']) = u
          /\ e.log \in DOMAIN logs' /\ (\A n \in DOMAIN logs' : n <= e.log)
          /\ (\A n \in DOMAIN logs' : n >= u.log => \A x \in EntsOf(logs'[n]) : x <= e.last)
          /\ (\A x \in e.mem : x <= e.last) /\ Lists(u, acked', safe', tables', logs')
          /\ u.full /\ u.next > 1 /\ u.next <= e.next /\ u.log <= e.log /\ u.last <= e.last
      BY <1>1, <2>5, <2>6, <2>11, <2>15 DEF u
    <3> QED BY <2>4, <2>13, <3>1 DEF WorkingInv, e
  <2>17. BoundInv'
    <3>1. db'[h].pc # "copy"
      BY <2>4 DEF e
    <3>2. \A g \in Handles : db'[g].pc # "copy"
      BY <2>2, <2>3, <3>1, OwnerFacts
    <3> QED BY <1>1, <2>2, <2>10, <3>2, BoundSame
  <2>18. (Working(db[h]))' /\ "retire" \notin DOMAIN db'[h]
    BY <2>4, <2>5 DEF Working, e
  <2> QED BY <2>2, <2>3, <2>11, <2>16, <2>17, <2>18, WorkingDone
<1> QED BY <1>2, <1>3, <1>4

----------------------------------------------------------------------------
(* CURRENT                                                                 *)

LEMMA RepairFacts ==
    ASSUME Sane, NEW h \in Handles, Repairs(db[h])
    PROVE  /\ RepairInv(db[h]) /\ undone /\ \A g \in Handles \ {h} : db[g] = Gone
           /\ FilesInv /\ BoundInv /\ CurrentInv
           /\ db[h].pc # "copy" => Keeps(acked, safe, DOMAIN tables, DOMAIN logs, tables, logs)
<1>1. RepairInv(db[h]) /\ undone
  BY DEF Sane, WholeInv, CallsInv, CallInv, RepairInv
<1>2. \A g \in Handles \ {h} : db[g] = Gone
  BY DEF Sane, WholeInv, AloneInv
<1>3. \A g \in Handles \ {h} : db[g].pc # "copy"
  BY <1>2 DEF Gone
<1> QED BY <1>1, <1>2, <1>3 DEF Sane, WholeInv, DiskInv

\* RepairDB() goes on.
LEMMA RepairDone ==
    ASSUME Sane, NEW h \in Handles, Repairs(db[h]), \A g \in Handles \ {h} : db'[g] = db[g],
           (Repairs(db[h]))', (RepairInv(db[h]))', FilesInv', BoundInv', CurrentInv',
           db'[h].pc # "copy" => Keeps(acked', safe', DOMAIN tables', DOMAIN logs', tables', logs')
    PROVE  WholeInv'
<1>1. (CallInv(db[h]))'
  BY DEF CallInv, Opening, Working, Creating, Repairs
<1>2. CallsInv' /\ AloneInv'
  BY <1>1, CallsOn DEF Sane, WholeInv
<1>3. DiskInv'
  BY DEF DiskInv
<1>4. WorldInv'
  BY DEF WorldInv, RepairInv
<1> QED BY <1>2, <1>3, <1>4 DEF WholeInv

LEMMA WriteTempKeeps ==
    ASSUME Sane, NEW h \in Handles, WriteTemp(h)
    PROVE  WholeInv'
<1> DEFINE d == db[h]
           e == db'[h]
           to == [pc |-> "rename"]
<1>1. /\ d.pc = "temp" /\ Step(h, to) /\ temps' = temps \cup {d.mfile}
      /\ UNCHANGED <<manifests, current, logs, tables, acked, safe, undone>>
  BY DEF WriteTemp, At, tableVars, goalVars
<1>2. Stage(d) /\ CallInv(d) /\ FilesInv /\ BoundInv /\ CurrentInv /\ WorldInv
  BY DEF Sane, OwnerInv, StagesInv, WholeInv, CallsInv
<1>3. "why" \in DOMAIN d /\ d.why \in {"new", "open", "repair"}
  BY <1>1, <1>2 DEF Stage
<1>4. \A g \in Handles \ {h} : db'[g] = db[g]
  BY <1>1, StepFacts DEF Sane
<1>5. /\ e.pc = "rename" /\ DOMAIN e = DOMAIN d \cup {"pc"}
      /\ \A x \in DOMAIN d \ {"pc"} : e[x] = d[x]
  <2>1. e = Changed(d, to)
    BY <1>1, StepFacts DEF Sane
  <2> HIDE DEF e, d
  <2> QED BY <2>1 DEF Changed
<1> HIDE DEF to, e
<1>6. d.mfile \in Nat \ {0}
  <2>1. CASE d.why = "new"
    BY <1>1, <1>2, <2>1 DEF CallInv, Creating
  <2>2. CASE d.why = "open"
    BY <1>1, <1>2, <2>2 DEF CallInv, Opening, OpeningInv, SessionType
  <2>3. CASE d.why = "repair"
    BY <1>1, <1>2, <2>3 DEF CallInv, Repairs, RepairInv
  <2> QED BY <1>3, <2>1, <2>2, <2>3
<1>7. FilesInv'
  BY <1>1, <1>2, <1>6 DEF FilesInv
<1>8. CurrentInv' /\ WorldInv'
  BY <1>1, <1>2, WorldOn
<1>9. CASE d.why = "repair"
  <2>1. Repairs(d) /\ (Repairs(db[h]))'
    BY <1>1, <1>3, <1>5, <1>9 DEF Repairs, e
  <2>2. /\ RepairInv(d) /\ (\A g \in Handles \ {h} : db[g] = Gone)
        /\ Keeps(acked, safe, DOMAIN tables, DOMAIN logs, tables, logs)
    BY <1>1, <2>1, RepairFacts
  <2>3. {"pc", "todo", "scan", "good", "retire", "next", "mfile", "why"} \subseteq DOMAIN d
    BY <1>1, <2>2 DEF RepairInv
  <2>4. /\ e.todo = d.todo /\ e.scan = d.scan /\ e.good = d.good /\ e.retire = d.retire
        /\ e.next = d.next /\ e.mfile = d.mfile /\ e.why = d.why /\ DOMAIN d \subseteq DOMAIN e
    BY <1>5, <2>3
  <2>5. (RepairInv(db[h]))'
    BY <1>1, <1>5, <2>2, <2>3, <2>4 DEF RepairInv, e
  <2>6. Keeps(acked', safe', DOMAIN tables', DOMAIN logs', tables', logs')
    BY <1>1, <2>2
  <2>7. BoundInv'
    <3>1. \A g \in Handles : db'[g].pc # "copy"
      BY <1>4, <1>5, <2>2 DEF Gone, e
    <3> QED BY <1>1, <1>2, <1>6, <3>1, BoundSame
  <2> QED BY <1>4, <1>7, <1>8, <2>1, <2>5, <2>6, <2>7, RepairDone
<1>10. CASE d.why # "repair"
  <2>1. Owns(h) /\ "retire" \notin DOMAIN d
    BY <1>1, <1>10, OwnerStage
  <2>2. (CallInv(db[h]))' /\ ~(Repairs(db[h]))'
    <3>1. CASE d.why = "new"
      BY <1>1, <1>2, <1>3, <1>5, <2>1, <3>1 DEF CallInv, Opening, Working, Creating, Repairs, e
    <3>2. CASE d.why = "open"
      <4>1. OpeningInv(d) /\ SessionType(d)
        BY <1>1, <1>2, <3>2 DEF CallInv, Opening, OpeningInv
      <4>2. /\ e.why = "open" /\ e.mfile = d.mfile /\ e.files = d.files /\ e.last = d.last
            /\ e.mem = d.mem /\ e.dels = d.dels /\ e.err = d.err /\ e.adds = d.adds
            /\ e.next = d.next /\ e.log = d.log
            /\ {"pc", "why", "mfile", "next", "files", "log", "last", "mem", "adds", "dels",
                "err", "todo", "ino"} \subseteq DOMAIN e /\ "retire" \notin DOMAIN e
        BY <1>5, <2>1, <3>2, <4>1 DEF SessionType
      <4>3. (SessionType(db[h]))'
        BY <4>1, <4>2 DEF SessionType, e
      <4>4. LoggedView(e) = LoggedView(d)
        BY <4>2 DEF LoggedView
      <4>5. (OpeningInv(db[h]))'
        BY <1>1, <1>5, <4>1, <4>2, <4>3, <4>4 DEF OpeningInv, e
      <4> QED BY <1>5, <4>2, <4>5 DEF CallInv, Opening, Working, Creating, Repairs, e
    <3> QED BY <1>3, <1>10, <3>1, <3>2
  <2> QED BY <1>1, <1>4, <1>6, <1>7, <1>8, <2>1, <2>2, OwnerDone
<1> QED BY <1>9, <1>10

LEMMA SetCurrentFailsKeeps ==
    ASSUME Sane, NEW h \in Handles, SetCurrentFails(h)
    PROVE  WholeInv'
<1> DEFINE d == db[h]
<1>1. /\ d.pc \in {"temp", "rename"} /\ temps' \subseteq temps
      /\ manifests' = IF d.why = "open" THEN Without(manifests, d.mfile) ELSE manifests
      /\ UNCHANGED <<current, logs, tables, acked, safe, undone>>
      /\ IF d.why = "repair" THEN db' = [db EXCEPT ![h] = Gone] ELSE Destruct(h)
  BY DEF SetCurrentFails, tableVars, goalVars
<1>2. Stage(d) /\ FilesInv /\ BoundInv /\ CurrentInv /\ WorldInv
  BY DEF Sane, OwnerInv, StagesInv, WholeInv
<1>3. "why" \in DOMAIN d /\ d.why \in {"new", "open", "repair"}
  BY <1>1, <1>2 DEF Stage
<1>4. /\ \A g \in Handles \ {h} : db'[g] = db[g]
      /\ (CallInv(db[h]))' /\ ~(Repairs(db[h]))' /\ db'[h].pc # "copy"
  BY <1>1, GoneFacts, GoneCall, DestructFacts DEF Sane
<1>5. CASE d.why = "open"
  <2>1. manifests' = Without(manifests, d.mfile) /\ Opening(d)
    BY <1>1, <1>5 DEF Opening
  <2> QED BY <1>1, <1>5, <2>1, OpenGivesUp
<1>6. CASE d.why # "open"
  <2>1. manifests' = manifests
    BY <1>1, <1>6
  <2>2. FilesInv'
    BY <1>1, <1>2, <2>1 DEF FilesInv
  <2>3. CurrentInv' /\ WorldInv'
    BY <1>1, <1>2, <2>1, WorldOn
  <2>4. 0 \in Nat /\ temps' \subseteq temps \cup {0}
    BY <1>1
  <2>5. CASE d.why = "new"
    <3>1. Owns(h)
      BY <1>1, <2>5, OwnerStage
    <3> QED BY <1>1, <1>4, <2>2, <2>3, <2>4, <3>1, OwnerDone
  <2>6. CASE d.why = "repair"
    <3>1. Repairs(d)
      BY <1>1, <2>6 DEF Repairs
    <3>2. /\ \A g \in Handles \ {h} : db[g] = Gone
          /\ Keeps(acked, safe, DOMAIN tables, DOMAIN logs, tables, logs)
      BY <1>1, <3>1, RepairFacts
    <3>3. CallsInv' /\ AloneInv'
      BY <1>4, <3>1, CallsOn DEF Sane, WholeInv
    <3>4. DiskInv'
      BY <1>1, <3>2, DiskKeeps
    <3>5. \A g \in Handles : db'[g].pc # "copy"
      BY <1>4, <3>2 DEF Gone
    <3>6. BoundInv'
      BY <1>1, <1>2, <2>4, <3>5, BoundSame
    <3> QED BY <2>2, <2>3, <3>3, <3>4, <3>6 DEF WholeInv
  <2> QED BY <1>3, <1>6, <2>5, <2>6
<1> QED BY <1>5, <1>6

LEMMA RenameNewKeeps ==
    ASSUME Sane, NEW h \in Handles, RenameTemp(h), db[h].why = "new"
    PROVE  WholeInv'
<1> DEFINE d == db[h]
           e == db'[h]
           to == [pc |-> "locked"]
           file == [recs |-> <<FullRecord({}, {}, 0, 2, 0)>>, synced |-> 0]
<1>1. /\ d.pc = "rename" /\ current' = d.mfile /\ temps' \subseteq temps /\ Step(h, to)
      /\ UNCHANGED <<manifests, logs, tables, acked, safe, undone>>
  BY DEF RenameTemp, At, tableVars
<1>2. FilesInv /\ BoundInv /\ CurrentInv /\ WorldInv /\ CallInv(d)
  BY DEF Sane, WholeInv, CallsInv
<1>3. Owns(h) /\ "retire" \notin DOMAIN d
  BY <1>1, OwnerStage
<1>4. \A g \in Handles \ {h} : db'[g] = db[g]
  BY <1>1, StepFacts DEF Sane
<1>5. e.pc = "locked" /\ DOMAIN e = DOMAIN d \cup {"pc"}
  <2>1. e = Changed(d, to)
    BY <1>1, StepFacts DEF Sane
  <2> HIDE DEF e, d
  <2> QED BY <2>1 DEF Changed
<1> HIDE DEF to, e
<1>6. d.mfile = 1 /\ current = 0 /\ 1 \in DOMAIN manifests /\ manifests[1] = file
  BY <1>1, <1>2 DEF CallInv, Creating
<1>7. (CallInv(db[h]))' /\ ~(Repairs(db[h]))'
  BY <1>3, <1>5 DEF CallInv, Opening, Working, Creating, Repairs, e
<1>8. FilesInv'
  BY <1>1, <1>2, <1>6 DEF FilesInv
<1> DEFINE v == ViewOf(file)
           s == SureViewOf(file)
<1>9. /\ v = [files |-> {}, full |-> TRUE, log |-> 0, next |-> 2, last |-> 0]
      /\ s = [files |-> {}, full |-> FALSE, log |-> 0, next |-> 0, last |-> 0]
  <2> DEFINE r == FullRecord({}, {}, 0, 2, 0)
  <2>1. r \in Edits /\ r.full /\ r.adds = {} /\ r.log = 0 /\ r.next = 2 /\ r.last = 0
    BY DEF FullRecord, Edits
  <2>2. file.recs = <<r>> /\ file.synced = 0
    OBVIOUS
  <2> HIDE DEF r, file
  <2>3. /\ Replay(<<r>>) = [files |-> {}, full |-> TRUE, log |-> 0, next |-> 2, last |-> 0]
        /\ SubSeq(<<r>>, 1, 0) = <<>>
    BY <2>1, ReplayOfOne
  <2> QED BY <2>2, <2>3, ReplayOfNothing DEF ViewOf, SureViewOf
<1>10. NumbersOf(v) /\ NumbersOf(s) /\ v.full /\ v.next = 2 /\ v.files = {} /\ ~s.full /\ s.files = {}
  BY <1>9 DEF NumbersOf
<1>11. /\ current' = 1 /\ 1 \in DOMAIN manifests' /\ ViewOf(manifests'[1]) = v
       /\ SureViewOf(manifests'[1]) = s /\ Contents(manifests', current') = v
  BY <1>1, <1>6 DEF Contents, ViewOf
<1> HIDE DEF file, v, s
<1>12. CurrentInv'
  BY <1>10, <1>11 DEF CurrentInv
<1>13. ~undone => acked = {} /\ safe = {}
  <2>1. 0 \notin DOMAIN manifests
    BY <1>2 DEF FilesInv
  <2>2. ~Contents(manifests, current).full
    BY <1>6, <2>1, ReplayOfNothing DEF Contents
  <2> QED BY <1>2, <2>2 DEF WorldInv, Lists
<1>14. WorldInv'
  <2>1. GoodTables(v.files, v.last, tables)
    BY <1>10 DEF GoodTables
  <2>2. ~undone => Lists(v, acked, safe, tables, logs)
    BY <1>13 DEF Lists, Keeps, Hold, HoldSafe
  <2> QED BY <1>1, <1>10, <1>11, <2>1, <2>2 DEF WorldInv
<1>15. 0 \in Nat /\ temps' \subseteq temps \cup {0}
  BY <1>1
<1> QED BY <1>1, <1>3, <1>4, <1>7, <1>8, <1>12, <1>14, <1>15, OwnerDone

LEMMA RenameOpenKeeps ==
    ASSUME Sane, NEW h \in Handles, RenameTemp(h), db[h].why = "open"
    PROVE  WholeInv'
<1> DEFINE d == db[h]
           e == db'[h]
           to == [pc |-> "clean"]
           v == LoggedView(d)
<1>1. /\ d.pc = "rename" /\ current' = d.mfile /\ temps' \subseteq temps /\ Step(h, to)
      /\ UNCHANGED <<manifests, logs, tables, acked, safe>>
      /\ undone' = (undone /\ ~Sound(d))
  BY DEF RenameTemp, At, tableVars
<1>2. /\ OpeningInv(d) /\ SessionType(d) /\ Owns(h) /\ "retire" \notin DOMAIN d
      /\ FilesInv /\ BoundInv /\ DiskInv /\ CurrentInv /\ WorldInv
  BY <1>1, OpeningFacts DEF Opening
<1>3. \A g \in Handles \ {h} : db'[g] = db[g]
  BY <1>1, StepFacts DEF Sane
<1>4. /\ e.pc = "clean" /\ DOMAIN e = DOMAIN d \cup {"pc"}
      /\ \A x \in DOMAIN d \ {"pc"} : e[x] = d[x]
  <2>1. e = Changed(d, to)
    BY <1>1, StepFacts DEF Sane
  <2> HIDE DEF e, d
  <2> QED BY <2>1 DEF Changed
<1>5. /\ e.mfile = d.mfile /\ e.last = d.last /\ e.files = d.files
      /\ e.mem = {} /\ e.dels = {} /\ e.err = FALSE /\ e.adds = d.adds
      /\ e.next = d.next /\ e.log = d.log
      /\ {"pc", "why", "mfile", "next", "files", "log", "last", "mem", "adds", "dels",
          "err", "todo", "ino"} \subseteq DOMAIN e /\ "retire" \notin DOMAIN e
  BY <1>2, <1>4 DEF SessionType, OpeningInv
<1> HIDE DEF to, e
<1>6. /\ d.mfile \in DOMAIN manifests /\ d.adds \subseteq d.files
      /\ ViewOf(manifests[d.mfile]) = v /\ SureViewOf(manifests[d.mfile]) = v
      /\ manifests[d.mfile].synced = Len(manifests[d.mfile].recs)
  BY <1>1, <1>2, SyncedView DEF OpeningInv
<1>7. v.full /\ v.files = d.files /\ v.log = d.log /\ v.next = d.next /\ v.last = d.last
  BY DEF LoggedView
<1> HIDE DEF v
<1>8. /\ d.mfile \in Nat \ {0} /\ d.mfile < d.next /\ d.next \in Nat /\ d.log \in Nat /\ d.last \in Nat
      /\ d.log < d.next /\ d.files \subseteq Nat \ {0} /\ \A x \in d.files : x < d.next
  BY <1>2 DEF SessionType
<1>9. /\ d.log \in DOMAIN logs /\ EntsOf(logs[d.log]) = {} /\ \A n \in DOMAIN logs : n <= d.log /\ n \in Nat
      /\ Keeps(acked, safe, d.files \cup d.adds, {}, tables, logs)
  BY <1>1, <1>2 DEF OpeningInv, FilesInv
<1>10. /\ current' \in DOMAIN manifests' /\ ViewOf(manifests'[current']) = v
       /\ SureViewOf(manifests'[current']) = v /\ Contents(manifests', current') = v
  BY <1>1, <1>6 DEF Contents, ViewOf
<1>11. NumbersOf(v) /\ v.next > 1 /\ v.next > 0 /\ current' < v.next /\ \A n \in v.files : n < v.next
  BY <1>1, <1>7, <1>8 DEF NumbersOf
<1>12. CurrentInv'
  BY <1>10, <1>11 DEF CurrentInv
<1>13. Keeps(acked, safe, v.files, From(v.log), tables, logs)
  <2>1. \A n \in DOMAIN tables : n \in d.files \cup d.adds => n \in v.files
    BY <1>6, <1>7
  <2> QED BY <1>9, <2>1, KeepsOn
<1>14. Lists(v, acked, safe, tables, logs) /\ HoldSafe(safe, v.files, From(v.log), tables, logs)
  BY <1>7, <1>13 DEF Lists, Keeps
<1>15. ~undone' => GoodTables(v.files, v.last, tables)
  <2>1. CASE ~undone
    BY <1>2, <1>7, <2>1 DEF OpeningInv
  <2>2. CASE Sound(d)
    <3>1. d.files \subseteq DOMAIN tables /\ \A y \in EntriesOf(d.files) : y <= d.last
      BY <2>2 DEF Sound
    <3>2. \A n \in d.files : \A y \in tables[n].ents : y \in EntriesOf(d.files)
      BY DEF EntriesOf
    <3> QED BY <1>7, <3>1, <3>2 DEF GoodTables
  <2> QED BY <1>1, <2>1, <2>2
<1>16. WorldInv'
  <2>1. v.next # 1
    BY <1>11
  <2> QED BY <1>1, <1>7, <1>10, <1>14, <1>15, <2>1 DEF WorldInv
<1>17. (SessionType(db[h]))'
  BY <1>2, <1>4, <1>5 DEF SessionType, e
<1>18. (WorkingInv(db[h]))'
  <2>1. /\ e.mfile = current' /\ v.next <= e.next /\ v.log <= e.log /\ v.last <= e.last
        /\ v.files = e.files /\ v.log = e.log
    BY <1>1, <1>5, <1>7, <1>8
  <2>2. /\ e.log \in DOMAIN logs' /\ (\A n \in DOMAIN logs' : n <= e.log)
        /\ EntsOf(logs'[e.log]) = {}
    BY <1>1, <1>5, <1>9
  <2>3. \A n \in DOMAIN logs' : n >= v.log => \A x \in EntsOf(logs'[n]) : x <= e.last
    <3>1. \A n \in DOMAIN logs : n >= d.log => n = d.log
      BY <1>8, <1>9
    <3> QED BY <1>1, <1>7, <1>9, <3>1
  <2>4. Lists(v, acked', safe', tables', logs')
    BY <1>1, <1>14
  <2>5. manifests'[current'].synced = Len(manifests'[current'].recs)
    BY <1>1, <1>6
  <2> QED BY <1>4, <1>5, <1>7, <1>10, <1>11, <1>17, <2>1, <2>2, <2>3, <2>4, <2>5 DEF WorkingInv, e
<1>19. FilesInv'
  BY <1>1, <1>2, <1>8 DEF FilesInv
<1>20. BoundInv'
  <2>1. db'[h].pc # "copy"
    BY <1>4 DEF e
  <2>2. \A g \in Handles : db'[g].pc # "copy"
    BY <1>2, <1>3, <2>1, OwnerFacts
  <2>3. 0 \in Nat /\ temps' \subseteq temps \cup {0}
    BY <1>1
  <2> QED BY <1>1, <1>2, <2>2, <2>3, BoundSame
<1>21. (Working(db[h]))' /\ "retire" \notin DOMAIN db'[h]
  BY <1>4, <1>5 DEF Working, e
<1> QED BY <1>2, <1>3, <1>12, <1>16, <1>18, <1>19, <1>20, <1>21, WorkingDone

LEMMA RenameRepairKeeps ==
    ASSUME Sane, NEW h \in Handles, RenameTemp(h), db[h].why = "repair"
    PROVE  WholeInv'
<1> DEFINE d == db[h]
           v == ViewOf(manifests[1])
           s == SureViewOf(manifests[1])
<1>1. /\ d.pc = "rename" /\ current' = d.mfile /\ temps' \subseteq temps
      /\ UNCHANGED <<manifests, logs, tables, acked, safe>>
      /\ db' = [db EXCEPT ![h] = Gone] /\ undone' = FALSE
  BY DEF RenameTemp, At, tableVars
<1>2. Repairs(d)
  BY <1>1 DEF Repairs
<1>3. /\ RepairInv(d) /\ (\A g \in Handles \ {h} : db[g] = Gone)
      /\ FilesInv /\ BoundInv /\ CurrentInv
      /\ Keeps(acked, safe, DOMAIN tables, DOMAIN logs, tables, logs)
  BY <1>1, <1>2, RepairFacts
<1>4. /\ \A g \in Handles \ {h} : db'[g] = db[g]
      /\ (CallInv(db[h]))' /\ ~(Repairs(db[h]))' /\ db'[h].pc = "none"
  BY <1>1, GoneFacts, GoneCall DEF Sane
<1>5. /\ d.mfile = 1 /\ 1 \in DOMAIN manifests /\ manifests[1].synced = 0
      /\ v.full /\ v.files = d.good /\ v.log = 0 /\ v.next = d.next /\ v.last \in Nat
      /\ (\A n \in d.good : \A x \in tables[n].ents : x <= v.last)
      /\ d.next \in Nat \ {0} /\ (\A n \in DOMAIN tables : n < d.next)
      /\ d.good \subseteq DOMAIN tables /\ DOMAIN logs = {}
      /\ \A n \in DOMAIN tables : n \in d.good \/ tables[n].ents = {}
  BY <1>1, <1>2, <1>3 DEF RepairInv
<1>6. ~s.full /\ s.files = {}
  <2>1. manifests[1].recs \in Seq(Edits)
    BY <1>3, <1>5 DEF FilesInv
  <2>2. SubSeq(manifests[1].recs, 1, 0) = <<>>
    BY <2>1
  <2>3. s = Replay(<<>>)
    BY <1>5, <2>2, Zenon DEF SureViewOf
  <2> HIDE DEF s
  <2> QED BY <2>3, ReplayOfNothing
<1>7. /\ current' = 1 /\ 1 \in DOMAIN manifests' /\ ViewOf(manifests'[1]) = v
      /\ SureViewOf(manifests'[1]) = s /\ Contents(manifests', current') = v
  BY <1>1, <1>5 DEF Contents, ViewOf
<1> HIDE DEF v, s
<1>8. NumbersOf(v) /\ NumbersOf(s)
  BY <1>5, <1>6 DEF NumbersOf
<1>9. CurrentInv'
  <2>1. v.next > 0
    BY <1>5
  <2> QED BY <1>6, <1>7, <1>8, <2>1 DEF CurrentInv
<1>10. Lists(v, acked, safe, tables, logs)
  <2>1. ASSUME NEW a \in acked PROVE InTables(a, v.files, tables)
    BY <1>3, <1>5, <2>1 DEF Keeps, Hold, InTables, InLogs
  <2>2. ASSUME NEW a \in safe PROVE SureInTables(a, v.files, tables)
    BY <1>3, <1>5, <2>2 DEF Keeps, HoldSafe, SureInTables, SureInLogs
  <2> QED BY <1>5, <2>1, <2>2 DEF Lists, Keeps, Hold, HoldSafe
<1>11. GoodTables(v.files, v.last, tables)
  BY <1>5 DEF GoodTables
<1>12. v.next = 1 => acked = {}
  <2> SUFFICES ASSUME v.next = 1, NEW a \in acked PROVE FALSE
    OBVIOUS
  <2>1. PICK n \in DOMAIN tables : a \in tables[n].ents
    BY <1>3, <1>5 DEF Keeps, Hold, InTables, InLogs
  <2>2. n \in Nat \ {0} /\ n < 1
    BY <1>3, <1>5 DEF FilesInv
  <2> QED BY <2>2
<1>13. WorldInv'
  BY <1>1, <1>6, <1>7, <1>10, <1>11, <1>12 DEF WorldInv
<1>14. FilesInv'
  BY <1>1, <1>3, <1>5 DEF FilesInv
<1>15. CallsInv' /\ AloneInv'
  BY <1>2, <1>4, CallsOn DEF Sane, WholeInv
<1>16. DiskInv'
  BY <1>1, <1>3, DiskKeeps
<1>17. \A g \in Handles : db'[g].pc # "copy"
  BY <1>3, <1>4 DEF Gone
<1>18. BoundInv'
  <2>1. 0 \in Nat /\ temps' \subseteq temps \cup {0}
    BY <1>1
  <2> QED BY <1>1, <1>3, <1>17, <2>1, BoundSame
<1> QED BY <1>9, <1>13, <1>14, <1>15, <1>16, <1>18 DEF WholeInv

LEMMA RenameTempKeeps ==
    ASSUME Sane, NEW h \in Handles, RenameTemp(h)
    PROVE  WholeInv'
<1>1. db[h].why \in {"new", "open", "repair"}
  BY DEF RenameTemp
<1> QED BY <1>1, RenameNewKeeps, RenameOpenKeeps, RenameRepairKeeps

----------------------------------------------------------------------------
(* An open world.                                                          *)

\* A step that leaves the MANIFEST of an open world
LEMMA WorldSame ==
    ASSUME CurrentInv, current' = current, undone' = undone,
           current \in DOMAIN manifests, current \in DOMAIN manifests',
           manifests'[current] = manifests[current], NEW v, v = ViewOf(manifests[current]),
           SureViewOf(manifests[current]) = v, v.full, v.next > 1,
           Lists(v, acked', safe', tables', logs'),
           ~undone => GoodTables(v.files, v.last, tables')
    PROVE  CurrentInv' /\ WorldInv'
<1>1. CurrentInv'
  BY DEF CurrentInv
<1>2. /\ current' \in DOMAIN manifests' /\ ViewOf(manifests'[current']) = v
      /\ SureViewOf(manifests'[current']) = v /\ Contents(manifests', current') = v
  BY DEF Contents, ViewOf
<1>3. v.next \in Nat
  BY DEF CurrentInv, NumbersOf
<1>4. HoldSafe(safe', v.files, From(v.log), tables', logs')
  BY DEF Lists, Keeps
<1>5. v.next # 1
  BY <1>3
<1>6. WorldInv'
  BY <1>2, <1>4, <1>5 DEF WorldInv
<1> QED BY <1>1, <1>6

\* The world of a call that may go on writing
LEMMA AtWork ==
    ASSUME Sane, NEW h \in Handles, Working(db[h]), ~db[h].err,
           NEW v, v = ViewOf(manifests[current])
    PROVE  /\ WorkingInv(db[h]) /\ SessionType(db[h]) /\ Owns(h) /\ "retire" \notin DOMAIN db[h]
           /\ FilesInv /\ BoundInv /\ CurrentInv /\ WorldInv
           /\ current \in DOMAIN manifests /\ SureViewOf(manifests[current]) = v
           /\ v.full /\ v.files = db[h].files /\ v.next > 1
           /\ Lists(v, acked, safe, tables, logs) /\ Keeps(acked, safe, v.files, From(v.log), tables, logs)
           /\ ~undone => GoodTables(v.files, v.last, tables)
           /\ v.log \in Nat /\ v.next \in Nat /\ v.last \in Nat
           /\ v.log <= db[h].log /\ v.next <= db[h].next /\ v.last <= db[h].last
           /\ \A n \in DOMAIN logs : n <= db[h].log /\ n \in Nat
           /\ \A n \in v.files : n \in Nat \ {0} /\ n < v.next
<1>1. /\ WorkingInv(db[h]) /\ SessionType(db[h]) /\ Owns(h) /\ "retire" \notin DOMAIN db[h]
      /\ FilesInv /\ BoundInv /\ CurrentInv /\ WorldInv
      /\ SureViewOf(manifests[current]) = v
  BY WorkingFacts
<1>2. /\ current \in DOMAIN manifests /\ v.full /\ v.files = db[h].files /\ v.next > 1
      /\ Lists(v, acked, safe, tables, logs)
      /\ v.log <= db[h].log /\ v.next <= db[h].next /\ v.last <= db[h].last
      /\ \A n \in DOMAIN logs : n <= db[h].log
  BY <1>1 DEF WorkingInv
<1>3. Keeps(acked, safe, v.files, From(v.log), tables, logs)
  BY <1>2 DEF Lists
<1>4. ~undone => GoodTables(v.files, v.last, tables)
  BY <1>1, <1>2 DEF WorldInv
<1>5. /\ v.log \in Nat /\ v.next \in Nat /\ v.last \in Nat /\ \A n \in v.files : n < v.next
  BY <1>1, <1>2 DEF CurrentInv, NumbersOf
<1>6. \A n \in v.files : n \in Nat \ {0}
  BY <1>1, <1>2, ViewFacts
<1> QED BY <1>1, <1>2, <1>3, <1>4, <1>5, <1>6 DEF FilesInv

\* The numbers of a call that goes on
LEMMA SessionOn ==
    ASSUME NEW d, SessionType(d), NEW e,
           e.mfile = d.mfile, e.files = d.files, e.dels \subseteq Nat \ {0}, e.err = d.err,
           e.mem \subseteq Nat, e.last \in Nat, e.log \in Nat, e.next \in Nat,
           e.next >= d.next, e.log < e.next, DOMAIN d \subseteq DOMAIN e, "why" \in DOMAIN e,
           e.adds \subseteq Nat \ {0}, \A n \in e.adds : n < e.next
    PROVE  SessionType(e)
<1>1. /\ d.mfile \in Nat \ {0} /\ d.next \in Nat /\ d.mfile < d.next
      /\ d.files \subseteq Nat \ {0} /\ d.err \in BOOLEAN
      /\ \A n \in d.files : n < d.next
      /\ {"pc", "why", "mfile", "next", "files", "log", "last", "mem", "adds", "dels",
          "err", "todo", "ino"} \subseteq DOMAIN d
  BY DEF SessionType
<1>2. e.mfile < e.next /\ \A n \in e.files : n < e.next
  BY <1>1
<1>3. \A n \in e.files \cup e.adds : n < e.next
  BY <1>2
<1> QED BY <1>1, <1>2, <1>3 DEF SessionType

LEMMA DeleteObsoleteKeeps ==
    ASSUME Sane, NEW h \in Handles, DeleteObsoleteFile(h)
    PROVE  WholeInv'
<1> DEFINE d == db[h]
           v == ViewOf(manifests[current])
<1>1. d.pc = "clean" /\ UNCHANGED <<current, db, acked, safe, undone>>
  BY DEF DeleteObsoleteFile, At, goalVars, nameVars
<1>2. Working(d) /\ WorkingInv(d) /\ ~d.err
  BY <1>1, WorkingFacts DEF Working, WorkingInv
<1>3. /\ SessionType(d) /\ Owns(h) /\ "retire" \notin DOMAIN d
      /\ FilesInv /\ BoundInv /\ CurrentInv /\ WorldInv
      /\ current \in DOMAIN manifests /\ SureViewOf(manifests[current]) = v
      /\ v.full /\ v.files = d.files /\ v.next > 1
      /\ Lists(v, acked, safe, tables, logs) /\ Keeps(acked, safe, v.files, From(v.log), tables, logs)
      /\ ~undone => GoodTables(v.files, v.last, tables)
      /\ v.log \in Nat /\ \A n \in DOMAIN logs : n <= d.log /\ n \in Nat
  BY <1>2, AtWork
<1>4. /\ v.log = d.log /\ EntsOf(logs[d.log]) \subseteq d.mem /\ d.mfile = current
      /\ d.log \in DOMAIN logs
  BY <1>1, <1>2 DEF WorkingInv
<1>5. /\ \/ manifests' = manifests
         \/ \E n \in DOMAIN manifests : n < d.mfile /\ manifests' = Without(manifests, n)
      /\ logs' = logs \/ \E n \in DOMAIN logs : n < d.log /\ logs' = Without(logs, n)
      /\ tables' = tables \/ \E n \in DOMAIN tables \ d.files : tables' = Without(tables, n)
      /\ temps' \subseteq temps
  BY DEF DeleteObsoleteFile, OldLogs, OldTables, OldManifests, nameVars, tableVars
<1> HIDE DEF v
<1>6. /\ DOMAIN manifests' \subseteq DOMAIN manifests /\ current \in DOMAIN manifests'
      /\ \A n \in DOMAIN manifests' : manifests'[n] = manifests[n]
  <2>1. current \in Nat
    BY <1>3 DEF FilesInv
  <2>2. CASE manifests' = manifests
    BY <1>3, <2>2
  <2>3. ASSUME NEW n \in DOMAIN manifests, n < d.mfile, manifests' = Without(manifests, n)
        PROVE  /\ DOMAIN manifests' \subseteq DOMAIN manifests /\ current \in DOMAIN manifests'
               /\ \A x \in DOMAIN manifests' : manifests'[x] = manifests[x]
    <3>1. n # current
      BY <1>4, <2>1, <2>3
    <3>2. /\ DOMAIN manifests' = DOMAIN manifests \ {n}
          /\ \A x \in DOMAIN manifests' : manifests'[x] = manifests[x]
      BY <2>3 DEF Without
    <3> QED BY <1>3, <3>1, <3>2
  <2> QED BY <1>5, <2>2, <2>3
<1>7. /\ DOMAIN logs' \subseteq DOMAIN logs /\ \A n \in DOMAIN logs' : logs'[n] = logs[n]
      /\ \A n \in DOMAIN logs : n \in From(v.log) => n \in DOMAIN logs'
  <2>1. \A n \in DOMAIN logs : n \in From(v.log) => ~(n < d.log)
    BY <1>3, <1>4 DEF From
  <2> QED BY <1>5, <2>1 DEF Without
<1>8. /\ DOMAIN tables' \subseteq DOMAIN tables /\ \A n \in DOMAIN tables' : tables'[n] = tables[n]
      /\ \A n \in DOMAIN tables : n \in v.files => n \in DOMAIN tables'
  BY <1>3, <1>5 DEF Without
<1>9. FilesInv'
  <2>1. DOMAIN manifests' \subseteq Nat \ {0} /\ DOMAIN logs' \subseteq Nat \ {0}
        /\ DOMAIN tables' \subseteq Nat \ {0} /\ temps' \subseteq Nat
    BY <1>3, <1>5, <1>6, <1>7, <1>8 DEF FilesInv
  <2> QED BY <1>1, <1>3, <1>6, <1>7, <1>8, <2>1 DEF FilesInv
<1>10. Keeps(acked', safe', v.files, From(v.log), tables', logs')
  BY <1>1, <1>3, <1>7, <1>8, KeepsOn
<1>11. Lists(v, acked', safe', tables', logs')
  BY <1>3, <1>10 DEF Lists
<1>12. ~undone => GoodTables(v.files, v.last, tables')
  BY <1>3, <1>8 DEF GoodTables
<1>13. CurrentInv' /\ WorldInv'
  <2>1. manifests'[current] = manifests[current]
    BY <1>6
  <2> QED BY <1>1, <1>3, <1>6, <1>11, <1>12, <2>1, WorldSame DEF v
<1>14. (WorkingInv(db[h]))'
  <2>1. /\ ViewOf(manifests'[current']) = v /\ manifests'[current'] = manifests[current]
        /\ current' \in DOMAIN manifests' /\ db'[h] = d
    BY <1>1, <1>6 DEF v
  <2>2. (SessionType(db[h]))'
    BY <1>3, <2>1 DEF SessionType
  <2>3. d.log \in DOMAIN logs' /\ \A n \in DOMAIN logs' : n <= d.log
    BY <1>3, <1>4, <1>7 DEF From
  <2>4. \A n \in DOMAIN logs' : n >= v.log => \A x \in EntsOf(logs'[n]) : x <= d.last
    BY <1>2, <1>7 DEF WorkingInv, v
  <2>5. EntsOf(logs'[d.log]) \subseteq d.mem
    BY <1>4, <1>7, <2>3
  <2> QED BY <1>1, <1>2, <1>3, <1>4, <1>11, <2>1, <2>2, <2>3, <2>4, <2>5 DEF WorkingInv, v
<1>15. BoundInv'
  <2>1. \A n \in temps' \cup DOMAIN logs' \cup DOMAIN tables' : n \in temps \cup DOMAIN logs \cup DOMAIN tables
    BY <1>5, <1>7, <1>8
  <2>2. \A n \in DOMAIN logs' : \A x \in EntsOf(logs'[n]) : OldEntry(x)
    BY <1>7 DEF OldEntry
  <2>3. \A n \in DOMAIN tables' : \A x \in tables'[n].ents : OldEntry(x)
    BY <1>8 DEF OldEntry
  <2>4. db' = db /\ db'[h].pc # "copy" /\ 0 \in Nat
    BY <1>1
  <2> QED BY <1>3, <2>1, <2>2, <2>3, <2>4, BoundOwner
<1>16. (Working(db[h]))' /\ "retire" \notin DOMAIN db'[h]
  BY <1>1, <1>3 DEF Working
<1> QED BY <1>1, <1>3, <1>9, <1>13, <1>14, <1>15, <1>16, WorkingDone

\* The steps between jobs that leave all files
LEMMA IdleWorkKeeps ==
    ASSUME Sane, NEW h \in Handles, EndClean(h) \/ StartMerge(h)
    PROVE  WholeInv'
<1> DEFINE d == db[h]
           e == db'[h]
           v == ViewOf(manifests[current])
           to == IF EndClean(h) THEN [pc |-> "open", adds |-> {}, dels |-> {}]
                 ELSE [pc |-> "merge", dels |-> d.files]
<1>1. /\ d.pc \in {"clean", "open"} /\ UNCHANGED <<diskVars, goalVars>>
      /\ \/ d.pc = "clean" /\ Step(h, [pc |-> "open", adds |-> {}, dels |-> {}])
         \/ d.pc = "open" /\ ~d.err /\ d.files \subseteq DOMAIN tables /\ Step(h, [pc |-> "merge", dels |-> d.files])
  BY DEF EndClean, StartMerge, At
<1>2. Working(d) /\ WorkingInv(d) /\ ~d.err
  BY <1>1, WorkingFacts DEF Working, WorkingInv
<1>3. /\ SessionType(d) /\ Owns(h) /\ "retire" \notin DOMAIN d
  BY <1>2, AtWork
<1>4. UNCHANGED <<manifests, current, temps, logs, tables, acked, safe, undone>>
  BY <1>1 DEF diskVars, nameVars, tableVars, goalVars
<1>5. /\ \/ e.pc = "open" /\ e.adds = {} /\ e.dels = {}
         \/ e.pc = "merge" /\ e.dels = d.files /\ e.adds = d.adds /\ d.pc = "open" /\ d.files \subseteq DOMAIN tables
      /\ DOMAIN e = DOMAIN d \cup {"pc", "adds", "dels"}
      /\ \A x \in DOMAIN d \ {"pc", "adds", "dels"} : e[x] = d[x]
      /\ \A g \in Handles \ {h} : db'[g] = db[g]
  <2>1. CASE d.pc = "clean" /\ Step(h, [pc |-> "open", adds |-> {}, dels |-> {}])
    <3>1. e = Changed(d, [pc |-> "open", adds |-> {}, dels |-> {}])
          /\ \A g \in Handles \ {h} : db'[g] = db[g]
      BY <2>1, StepFacts DEF Sane
    <3> HIDE DEF e, d
    <3> QED BY <3>1 DEF Changed
  <2>2. CASE d.pc = "open" /\ d.files \subseteq DOMAIN tables /\ Step(h, [pc |-> "merge", dels |-> d.files])
    <3>1. e = Changed(d, [pc |-> "merge", dels |-> d.files])
          /\ \A g \in Handles \ {h} : db'[g] = db[g]
      BY <2>2, StepFacts DEF Sane
    <3>2. {"pc", "adds", "dels"} \subseteq DOMAIN d
      BY <1>3 DEF SessionType
    <3> HIDE DEF e, d
    <3> QED BY <2>2, <3>1, <3>2 DEF Changed
  <2> QED BY <1>1, <2>1, <2>2
<1>6. /\ e.mfile = d.mfile /\ e.last = d.last /\ e.files = d.files /\ e.mem = d.mem /\ e.err = d.err
      /\ e.next = d.next /\ e.log = d.log
      /\ {"pc", "why", "mfile", "next", "files", "log", "last", "mem", "adds", "dels",
          "err", "todo", "ino"} \subseteq DOMAIN e /\ "retire" \notin DOMAIN e
  BY <1>3, <1>5 DEF SessionType
<1> HIDE DEF e, v
<1>7. (SessionType(db[h]))'
  <2>1. e.adds \subseteq d.adds /\ e.dels \subseteq Nat \ {0}
    BY <1>3, <1>5 DEF SessionType
  <2> QED BY <1>3, <1>6, <2>1 DEF SessionType, e
<1>8. (WorkingInv(db[h]))'
  <2>1. /\ d.mfile = current /\ current \in DOMAIN manifests
        /\ v.full /\ v.next > 1 /\ v.next <= d.next /\ v.log <= d.log /\ v.last <= d.last
        /\ d.log \in DOMAIN logs /\ (\A n \in DOMAIN logs : n <= d.log)
        /\ (\A n \in DOMAIN logs : n >= v.log => \A x \in EntsOf(logs[n]) : x <= d.last)
        /\ (\A x \in d.mem : x <= d.last) /\ Lists(v, acked, safe, tables, logs)
        /\ manifests[current].synced = Len(manifests[current].recs) /\ v.files = d.files
        /\ v.log = d.log /\ EntsOf(logs[d.log]) \subseteq d.mem
    BY <1>1, <1>2 DEF WorkingInv, v
  <2>2. /\ e.pc \in {"open", "merge"} /\ (e.pc = "open" => e.adds = {} /\ e.dels = {})
        /\ (e.pc = "merge" => e.dels = e.files /\ e.dels \subseteq DOMAIN tables)
    BY <1>5, <1>6
  <2> HIDE DEF d
  <2> QED BY <1>2, <1>4, <1>6, <1>7, <2>1, <2>2 DEF WorkingInv, v, e
<1>9. (CallInv(db[h]))' /\ ~(Repairs(db[h]))' /\ e.pc # "copy"
  BY <1>5, <1>6, <1>8 DEF CallInv, Opening, Working, Creating, Repairs, e
<1>10. \A g \in Handles : db[g].pc # "copy" /\ ~Repairs(db[g])
  BY <1>3, OwnerFacts
<1> QED BY <1>1, <1>5, <1>9, <1>10, Untouched DEF Sane, e

LEMMA SwitchLogKeeps ==
    ASSUME Sane, NEW h \in Handles, SwitchLog(h)
    PROVE  WholeInv'
<1> DEFINE d == db[h]
           e == db'[h]
           v == ViewOf(manifests[current])
           to == [pc |-> "flush", log |-> d.next, next |-> d.next + 1]
<1>1. /\ d.pc = "open" /\ ~d.err /\ Step(h, to) /\ logs' = With(logs, d.next, NewLog)
      /\ UNCHANGED <<manifests, current, temps, tables, acked, safe, undone>>
  BY DEF SwitchLog, NewLogFile, At, nameVars, goalVars
<1>2. Working(d)
  BY <1>1 DEF Working
<1>3. /\ WorkingInv(d) /\ SessionType(d) /\ Owns(h) /\ "retire" \notin DOMAIN d
      /\ FilesInv /\ BoundInv /\ CurrentInv /\ WorldInv
      /\ current \in DOMAIN manifests /\ SureViewOf(manifests[current]) = v
      /\ v.full /\ v.files = d.files /\ v.next > 1
      /\ Lists(v, acked, safe, tables, logs) /\ Keeps(acked, safe, v.files, From(v.log), tables, logs)
      /\ (~undone => GoodTables(v.files, v.last, tables))
      /\ v.log \in Nat /\ v.next <= d.next /\ v.next \in Nat /\ v.last <= d.last
      /\ \A n \in DOMAIN logs : n <= d.log /\ n \in Nat
  BY <1>1, <1>2, AtWork
<1>4. /\ v.log = d.log /\ EntsOf(logs[d.log]) \subseteq d.mem /\ d.mfile = current
      /\ d.log \in DOMAIN logs /\ d.adds = {} /\ d.dels = {}
      /\ (\A n \in DOMAIN logs : n >= v.log => \A x \in EntsOf(logs[n]) : x <= d.last)
      /\ (\A x \in d.mem : x <= d.last)
      /\ manifests[current].synced = Len(manifests[current].recs)
  BY <1>1, <1>3 DEF WorkingInv
<1>5. \A g \in Handles \ {h} : db'[g] = db[g]
  BY <1>1, StepFacts DEF Sane
<1>6. /\ e.pc = "flush" /\ e.log = d.next /\ e.next = d.next + 1
      /\ DOMAIN e = DOMAIN d \cup {"pc", "log", "next"}
      /\ \A x \in DOMAIN d \ {"pc", "log", "next"} : e[x] = d[x]
  <2>1. e = Changed(d, to)
    BY <1>1, StepFacts DEF Sane
  <2> HIDE DEF e, d
  <2> QED BY <2>1 DEF Changed
<1>7. /\ e.mfile = d.mfile /\ e.files = d.files /\ e.last = d.last
      /\ e.mem = d.mem /\ e.dels = {} /\ e.err = d.err /\ e.adds = {}
      /\ {"pc", "why", "mfile", "next", "files", "log", "last", "mem", "adds", "dels",
          "err", "todo", "ino"} \subseteq DOMAIN e /\ "retire" \notin DOMAIN e
  BY <1>3, <1>4, <1>6 DEF SessionType
<1> HIDE DEF to, e, v
<1>8. /\ d.next \in Nat \ {0} /\ d.log \in Nat /\ d.log < d.next /\ d.last \in Nat /\ d.mem \subseteq Nat
  BY <1>3 DEF SessionType
<1>9. /\ DOMAIN logs' = DOMAIN logs \cup {d.next} /\ logs'[d.next] = NewLog
      /\ d.next \notin DOMAIN logs
      /\ \A x \in DOMAIN logs : logs'[x] = logs[x]
  <2>1. d.next \notin DOMAIN logs
    BY <1>3, <1>8
  <2> HIDE DEF d
  <2> QED BY <1>1, <2>1 DEF With
<1>10. /\ NewLog \in [ents : Seq(Nat), synced : Nat] /\ NewLog.synced <= Len(NewLog.ents)
       /\ EntsOf(NewLog) = {}
  BY SetOfEmpty DEF NewLog, EntsOf
<1>11. FilesInv'
  <2>1. \A x \in DOMAIN logs' : /\ logs'[x] \in [ents : Seq(Nat), synced : Nat]
                                /\ logs'[x].synced <= Len(logs'[x].ents)
    BY <1>3, <1>9, <1>10 DEF FilesInv
  <2>2. DOMAIN logs' \subseteq Nat \ {0}
    BY <1>3, <1>8, <1>9 DEF FilesInv
  <2> QED BY <1>1, <1>3, <2>1, <2>2 DEF FilesInv
<1>12. Keeps(acked', safe', v.files, From(v.log), tables', logs')
  BY <1>1, <1>3, <1>9, KeepsOn
<1>13. Lists(v, acked', safe', tables', logs')
  BY <1>3, <1>12 DEF Lists
<1>14. CurrentInv' /\ WorldInv'
  BY <1>1, <1>3, <1>13, WorldSame DEF v
<1>15. (SessionType(db[h]))'
  <2>1. e.next >= d.next /\ e.log < e.next /\ e.log \in Nat /\ e.next \in Nat
    BY <1>6, <1>8
  <2> QED BY <1>3, <1>6, <1>7, <1>8, <2>1, SessionOn DEF e
<1>16. (WorkingInv(db[h]))'
  <2>1. /\ e.log \in DOMAIN logs' /\ (\A n \in DOMAIN logs' : n <= e.log)
        /\ EntsOf(logs'[e.log]) = {}
    BY <1>3, <1>6, <1>8, <1>9, <1>10
  <2>2. \A n \in DOMAIN logs' : n >= v.log => EntsOf(logs'[n]) \subseteq e.mem
    <3>1. \A n \in DOMAIN logs : n >= v.log => n = d.log
      BY <1>3, <1>4, <1>8
    <3> QED BY <1>4, <1>7, <1>9, <1>10, <3>1
  <2>3. \A n \in DOMAIN logs' : n >= v.log => \A x \in EntsOf(logs'[n]) : x <= e.last
    BY <1>4, <1>7, <2>2
  <2>4. /\ v.next <= e.next /\ v.log <= e.log /\ v.last <= e.last
    BY <1>3, <1>4, <1>6, <1>7, <1>8
  <2>5. /\ e.mfile = current' /\ current' \in DOMAIN manifests' /\ ViewOf(manifests'[current']) = v
        /\ manifests'[current'].synced = Len(manifests'[current'].recs)
        /\ v.files = e.files /\ (\A x \in e.mem : x <= e.last)
    BY <1>1, <1>3, <1>4, <1>7 DEF v
  <2> QED BY <1>1, <1>3, <1>6, <1>7, <1>13, <1>15, <2>1, <2>2, <2>3, <2>4, <2>5 DEF WorkingInv, e
<1>17. BoundInv'
  <2>1. \A x \in temps' \cup DOMAIN logs' \cup DOMAIN tables' :
           x \in 0..d.next \/ x \in temps \cup DOMAIN logs \cup DOMAIN tables
    BY <1>1, <1>8, <1>9
  <2>2. \A x \in DOMAIN logs' : \A y \in EntsOf(logs'[x]) : OldEntry(y)
    BY <1>9, <1>10 DEF OldEntry
  <2>3. \A x \in DOMAIN tables' : \A y \in tables'[x].ents : OldEntry(y)
    BY <1>1 DEF OldEntry
  <2>4. db'[h].pc # "copy"
    BY <1>6 DEF e
  <2> QED BY <1>3, <1>5, <1>8, <2>1, <2>2, <2>3, <2>4, BoundOwner
<1>18. (Working(db[h]))' /\ "retire" \notin DOMAIN db'[h]
  BY <1>6, <1>7 DEF Working, e
<1> QED BY <1>3, <1>5, <1>11, <1>14, <1>16, <1>17, <1>18, WorkingDone

LEMMA WriteKeeps ==
    ASSUME Sane, NEW h \in Handles, NEW sync \in BOOLEAN, Write(h, sync)
    PROVE  WholeInv'
<1> DEFINE d == db[h]
           e == db'[h]
           v == ViewOf(manifests[current])
           a == d.last + 1
           l == logs[d.log]
           file == [ents |-> Append(l.ents, a), synced |-> IF sync THEN Len(l.ents) + 1 ELSE l.synced]
           to == [last |-> a, mem |-> d.mem \cup {a}]
<1>1. /\ d.pc = "open" /\ ~d.err /\ Step(h, to) /\ logs' = [logs EXCEPT ![d.log] = file]
      /\ acked' = acked \cup {a} /\ safe' = (IF sync THEN safe \cup {a} ELSE safe)
      /\ UNCHANGED <<manifests, current, temps, tables, undone>>
  BY DEF Write, At, nameVars
<1>2. Working(d)
  BY <1>1 DEF Working
<1>3. /\ WorkingInv(d) /\ SessionType(d) /\ Owns(h) /\ "retire" \notin DOMAIN d
      /\ FilesInv /\ BoundInv /\ CurrentInv /\ WorldInv
      /\ current \in DOMAIN manifests /\ SureViewOf(manifests[current]) = v
      /\ v.full /\ v.files = d.files /\ v.next > 1
      /\ Lists(v, acked, safe, tables, logs) /\ Keeps(acked, safe, v.files, From(v.log), tables, logs)
      /\ (~undone => GoodTables(v.files, v.last, tables))
      /\ v.log \in Nat /\ v.next <= d.next /\ v.next \in Nat /\ v.last <= d.last /\ v.last \in Nat
      /\ \A n \in DOMAIN logs : n <= d.log /\ n \in Nat
  BY <1>1, <1>2, AtWork
<1>4. /\ v.log = d.log /\ EntsOf(logs[d.log]) \subseteq d.mem /\ d.mfile = current
      /\ d.log \in DOMAIN logs /\ d.adds = {} /\ d.dels = {}
      /\ (\A n \in DOMAIN logs : n >= v.log => \A x \in EntsOf(logs[n]) : x <= d.last)
      /\ (\A x \in d.mem : x <= d.last)
      /\ manifests[current].synced = Len(manifests[current].recs)
  BY <1>1, <1>3 DEF WorkingInv
<1>5. \A g \in Handles \ {h} : db'[g] = db[g]
  BY <1>1, StepFacts DEF Sane
<1>6. /\ e.last = a /\ e.mem = d.mem \cup {a}
      /\ DOMAIN e = DOMAIN d \cup {"last", "mem"}
      /\ \A x \in DOMAIN d \ {"last", "mem"} : e[x] = d[x]
  <2>1. e = Changed(d, to)
    BY <1>1, StepFacts DEF Sane
  <2> HIDE DEF e, d, a
  <2> QED BY <2>1 DEF Changed
<1>7. /\ e.pc = "open" /\ e.mfile = d.mfile /\ e.files = d.files /\ e.log = d.log /\ e.next = d.next
      /\ e.dels = {} /\ e.err = d.err /\ e.adds = {}
      /\ {"pc", "why", "mfile", "next", "files", "log", "last", "mem", "adds", "dels",
          "err", "todo", "ino"} \subseteq DOMAIN e /\ "retire" \notin DOMAIN e
  BY <1>1, <1>3, <1>4, <1>6 DEF SessionType
<1>8. /\ d.next \in Nat \ {0} /\ d.log \in Nat /\ d.log < d.next /\ d.last \in Nat /\ d.mem \subseteq Nat
      /\ a \in Nat /\ a > d.last
  BY <1>3 DEF SessionType
<1>9. l.ents \in Seq(Nat) /\ l.synced \in 0..Len(l.ents)
  BY <1>3, <1>4 DEF FilesInv
<1> HIDE DEF to, e, v, a
<1>10. /\ file \in [ents : Seq(Nat), synced : Nat] /\ file.synced <= Len(file.ents)
       /\ EntsOf(file) = EntsOf(l) \cup {a} /\ SureOf(l) \subseteq SureOf(file)
       /\ sync => a \in SureOf(file)
  <2>1. /\ Append(l.ents, a) \in Seq(Nat) /\ Len(Append(l.ents, a)) = Len(l.ents) + 1
        /\ ToSet(Append(l.ents, a)) = ToSet(l.ents) \cup {a}
        /\ SubSeq(Append(l.ents, a), 1, Len(l.ents) + 1) = Append(l.ents, a)
        /\ SubSeq(Append(l.ents, a), 1, l.synced) = SubSeq(l.ents, 1, l.synced)
    BY <1>8, <1>9, SetOfAppend
  <2>2. file.ents = Append(l.ents, a) /\ file.synced = IF sync THEN Len(l.ents) + 1 ELSE l.synced
    OBVIOUS
  <2>3. SureOf(l) \subseteq EntsOf(l)
    BY <1>9, SetOfSubSeq DEF SureOf, EntsOf
  <2>4. file \in [ents : Seq(Nat), synced : Nat] /\ file.synced <= Len(file.ents)
    <3> DEFINE more == Append(l.ents, a)
               sure == IF sync THEN Len(l.ents) + 1 ELSE l.synced
    <3>1. more \in Seq(Nat) /\ Len(more) = Len(l.ents) + 1 /\ Len(l.ents) \in Nat
      BY <1>9, <2>1
    <3>2. file = [ents |-> more, synced |-> sure]
      OBVIOUS
    <3> HIDE DEF l, d, more, file
    <3>3. sure \in Nat /\ sure <= Len(more)
      <4>1. l.synced \in Nat /\ l.synced <= Len(l.ents)
        BY <1>9, <3>1
      <4> QED BY <3>1, <4>1
    <3> HIDE DEF sure
    <3> QED BY <3>1, <3>2, <3>3
  <2> DEFINE f == file
  <2>5. f.ents = Append(l.ents, a) /\ f.synced = IF sync THEN Len(l.ents) + 1 ELSE l.synced
    BY <2>2
  <2> HIDE DEF f, l
  <2>6. EntsOf(f) = EntsOf(l) \cup {a}
    BY <2>1, <2>5 DEF EntsOf
  <2>7. CASE sync
    <3>1. SubSeq(f.ents, 1, f.synced) = f.ents
      BY <2>1, <2>5, <2>7
    <3>2. SureOf(f) = EntsOf(f)
      BY <3>1 DEF SureOf, EntsOf
    <3> QED BY <2>3, <2>4, <2>6, <3>2 DEF f
  <2>8. CASE ~sync
    <3>1. SubSeq(f.ents, 1, f.synced) = SubSeq(l.ents, 1, l.synced)
      BY <2>1, <2>5, <2>8
    <3>2. SureOf(f) = SureOf(l)
      BY <3>1 DEF SureOf
    <3> QED BY <2>4, <2>6, <2>8, <3>2 DEF f
  <2> QED BY <2>7, <2>8
<1> HIDE DEF file
<1>11. /\ DOMAIN logs' = DOMAIN logs /\ logs'[d.log] = file
       /\ \A x \in DOMAIN logs : x # d.log => logs'[x] = logs[x]
  BY <1>1, <1>4
<1>12. FilesInv'
  <2>1. \A x \in DOMAIN logs' : /\ logs'[x] \in [ents : Seq(Nat), synced : Nat]
                                /\ logs'[x].synced <= Len(logs'[x].ents)
    BY <1>3, <1>10, <1>11 DEF FilesInv
  <2>2. acked' \subseteq Nat /\ safe' \subseteq acked'
    BY <1>1, <1>3, <1>8 DEF FilesInv
  <2> QED BY <1>1, <1>3, <1>11, <2>1, <2>2 DEF FilesInv
<1>13. Keeps(acked', safe', v.files, From(v.log), tables', logs')
  <2>1. d.log \in From(v.log)
    BY <1>4, <1>8 DEF From
  <2>2. InLogs(a, From(v.log), logs')
    BY <1>4, <1>10, <1>11, <2>1 DEF InLogs
  <2>3. ASSUME NEW x \in acked PROVE InTables(x, v.files, tables) \/ InLogs(x, From(v.log), logs')
    <3>1. InLogs(x, From(v.log), logs) => InLogs(x, From(v.log), logs')
      BY <1>10, <1>11 DEF InLogs
    <3> QED BY <1>3, <2>3, <3>1 DEF Keeps, Hold
  <2>4. ASSUME NEW x \in safe PROVE SureInTables(x, v.files, tables) \/ SureInLogs(x, From(v.log), logs')
    <3>1. SureInLogs(x, From(v.log), logs) => SureInLogs(x, From(v.log), logs')
      BY <1>10, <1>11 DEF SureInLogs
    <3> QED BY <1>3, <2>4, <3>1 DEF Keeps, HoldSafe
  <2>5. sync => SureInLogs(a, From(v.log), logs')
    BY <1>4, <1>10, <1>11, <2>1 DEF SureInLogs
  <2> QED BY <1>1, <2>2, <2>3, <2>4, <2>5 DEF Keeps, Hold, HoldSafe
<1>14. Lists(v, acked', safe', tables', logs')
  BY <1>3, <1>13 DEF Lists
<1>15. CurrentInv' /\ WorldInv'
  BY <1>1, <1>3, <1>14, WorldSame DEF v
<1>16. (SessionType(db[h]))'
  <2>1. /\ e.next >= d.next /\ e.log < e.next /\ e.log \in Nat /\ e.next \in Nat
        /\ e.mem \subseteq Nat /\ e.last \in Nat
    BY <1>6, <1>7, <1>8
  <2> QED BY <1>3, <1>6, <1>7, <2>1, SessionOn DEF e
<1>17. (WorkingInv(db[h]))'
  <2>1. e.log \in DOMAIN logs' /\ (\A n \in DOMAIN logs' : n <= e.log)
    BY <1>3, <1>4, <1>7, <1>11
  <2>2. \A x \in e.mem : x <= e.last
    <3>1. \A x \in d.mem : x <= a
      BY <1>4, <1>8
    <3> QED BY <1>6, <1>8, <3>1
  <2>3. EntsOf(logs'[e.log]) \subseteq e.mem
    BY <1>4, <1>6, <1>7, <1>10, <1>11
  <2>4. \A n \in DOMAIN logs' : n >= v.log => \A x \in EntsOf(logs'[n]) : x <= e.last
    <3>1. \A n \in DOMAIN logs : n >= v.log => n = d.log
      BY <1>3, <1>4, <1>8
    <3> QED BY <1>7, <1>11, <2>2, <2>3, <3>1
  <2>5. /\ v.next <= e.next /\ v.log <= e.log /\ v.last <= e.last
    BY <1>3, <1>4, <1>6, <1>7, <1>8
  <2>6. /\ e.mfile = current' /\ current' \in DOMAIN manifests' /\ ViewOf(manifests'[current']) = v
        /\ manifests'[current'].synced = Len(manifests'[current'].recs)
        /\ v.files = e.files /\ v.log = e.log
    BY <1>1, <1>3, <1>4, <1>7 DEF v
  <2> QED BY <1>1, <1>3, <1>7, <1>14, <1>16, <2>1, <2>2, <2>3, <2>4, <2>5, <2>6 DEF WorkingInv, e
<1>18. BoundInv'
  <2>1. \A x \in temps' \cup DOMAIN logs' \cup DOMAIN tables' :
           x \in temps \cup DOMAIN logs \cup DOMAIN tables
    BY <1>1, <1>11
  <2>2. \A x \in DOMAIN logs' : \A y \in EntsOf(logs'[x]) : y \in 0..a \/ OldEntry(y)
    <3>1. a \in 0..a
      BY <1>8
    <3> QED BY <1>4, <1>10, <1>11, <3>1 DEF OldEntry
  <2>3. \A x \in DOMAIN tables' : \A y \in tables'[x].ents : OldEntry(y)
    BY <1>1 DEF OldEntry
  <2>4. db'[h].pc # "copy"
    BY <1>7 DEF e
  <2> QED BY <1>3, <1>5, <1>8, <2>1, <2>2, <2>3, <2>4, BoundOwner
<1>19. (Working(db[h]))' /\ "retire" \notin DOMAIN db'[h]
  BY <1>7 DEF Working, e
<1> QED BY <1>3, <1>5, <1>12, <1>15, <1>17, <1>18, <1>19, WorkingDone

LEMMA BuildTableKeeps ==
    ASSUME Sane, NEW h \in Handles, BuildTable(h)
    PROVE  WholeInv'
<1> DEFINE d == db[h]
           e == db'[h]
           v == ViewOf(manifests[current])
           E == IF d.pc = "flush" THEN d.mem ELSE EntriesOf(d.dels)
           mem == IF d.pc = "flush" THEN {} ELSE d.mem
           to == [pc |-> "edit", why |-> "job", adds |-> {d.next}, next |-> d.next + 1, mem |-> mem]
<1>1. /\ d.pc \in {"flush", "merge"} /\ Step(h, to) /\ tables' = With(tables, d.next, Whole(E))
      /\ UNCHANGED <<manifests, current, temps, logs, acked, safe, undone>>
  BY DEF BuildTable, nameVars, goalVars
<1>2. Working(d) /\ ~d.err
  BY <1>1, WorkingFacts DEF Working, WorkingInv
<1>3. /\ WorkingInv(d) /\ SessionType(d) /\ Owns(h) /\ "retire" \notin DOMAIN d
      /\ FilesInv /\ BoundInv /\ CurrentInv /\ WorldInv
      /\ current \in DOMAIN manifests /\ SureViewOf(manifests[current]) = v
      /\ v.full /\ v.files = d.files /\ v.next > 1
      /\ Lists(v, acked, safe, tables, logs) /\ Keeps(acked, safe, v.files, From(v.log), tables, logs)
      /\ (~undone => GoodTables(v.files, v.last, tables))
      /\ v.log \in Nat /\ v.next <= d.next /\ v.next \in Nat /\ v.last <= d.last /\ v.last \in Nat
      /\ (\A n \in DOMAIN logs : n <= d.log /\ n \in Nat)
      /\ \A n \in v.files : n \in Nat \ {0} /\ n < v.next
  BY <1>1, <1>2, AtWork
<1>4. /\ d.mfile = current /\ d.log \in DOMAIN logs /\ v.log <= d.log
      /\ (\A n \in DOMAIN logs : n >= v.log => \A x \in EntsOf(logs[n]) : x <= d.last)
      /\ (\A x \in d.mem : x <= d.last)
      /\ manifests[current].synced = Len(manifests[current].recs)
      /\ d.pc = "flush" => /\ EntsOf(logs[d.log]) = {} /\ d.dels = {}
                           /\ \A n \in DOMAIN logs : n >= v.log => EntsOf(logs[n]) \subseteq d.mem
      /\ d.pc = "merge" => /\ d.dels = d.files /\ d.dels \subseteq DOMAIN tables
                           /\ v.log = d.log /\ EntsOf(logs[d.log]) \subseteq d.mem
  BY <1>1, <1>2, <1>3 DEF WorkingInv
<1>5. \A g \in Handles \ {h} : db'[g] = db[g]
  BY <1>1, StepFacts DEF Sane
<1>6. /\ e.pc = "edit" /\ e.why = "job" /\ e.adds = {d.next} /\ e.next = d.next + 1 /\ e.mem = mem
      /\ DOMAIN e = DOMAIN d \cup {"pc", "why", "adds", "next", "mem"}
      /\ \A x \in DOMAIN d \ {"pc", "why", "adds", "next", "mem"} : e[x] = d[x]
  <2>1. e = Changed(d, to)
    BY <1>1, StepFacts DEF Sane
  <2> HIDE DEF e, d, mem
  <2> QED BY <2>1 DEF Changed
<1>7. /\ e.mfile = d.mfile /\ e.files = d.files /\ e.log = d.log /\ e.last = d.last
      /\ e.dels = d.dels /\ e.err = d.err
      /\ {"pc", "why", "mfile", "next", "files", "log", "last", "mem", "adds", "dels",
          "err", "todo", "ino"} \subseteq DOMAIN e /\ "retire" \notin DOMAIN e
  BY <1>3, <1>6 DEF SessionType
<1>8. /\ d.next \in Nat \ {0} /\ d.log \in Nat /\ d.log < d.next /\ d.last \in Nat /\ d.mem \subseteq Nat
      /\ d.dels \subseteq Nat \ {0} /\ mem \subseteq d.mem
  BY <1>3 DEF SessionType
<1> HIDE DEF to, e, v
<1>9. /\ E \subseteq Nat
      /\ ~undone => \A x \in E : x <= d.last
      /\ \A n \in DOMAIN tables : n \in d.dels => tables[n].ents \subseteq E
  <2>1. CASE d.pc = "flush"
    BY <1>4, <1>8, <2>1
  <2>2. CASE d.pc = "merge"
    <3>1. E = EntriesOf(d.dels)
      BY <2>2
    <3>2. \A x : x \in E <=> \E n \in d.dels : x \in tables[n].ents
      BY <3>1 DEF EntriesOf
    <3>3. \A n \in d.dels : n \in DOMAIN tables /\ tables[n].ents \subseteq Nat
      BY <1>3, <1>4, <2>2 DEF FilesInv
    <3>4. ASSUME ~undone, NEW n \in d.dels, NEW x \in tables[n].ents PROVE x <= d.last
      <4>1. x <= v.last /\ x \in Nat
        BY <1>3, <1>4, <2>2, <3>3, <3>4 DEF GoodTables
      <4> QED BY <1>3, <1>8, <4>1
    <3> HIDE DEF E
    <3> QED BY <3>2, <3>3, <3>4
  <2> QED BY <1>1, <2>1, <2>2
<1>10. Whole(E) \in [ents : SUBSET Nat, ok : BOOLEAN, synced : BOOLEAN] /\ IsSure(Whole(E)) /\ Whole(E).ents = E
  <2> HIDE DEF E
  <2> QED BY <1>9 DEF Whole, IsSure
<1>11. /\ DOMAIN tables' = DOMAIN tables \cup {d.next} /\ tables'[d.next] = Whole(E)
       /\ \A x \in DOMAIN tables : x # d.next => tables'[x] = tables[x]
  <2> HIDE DEF E, d
  <2> QED BY <1>1 DEF With
<1>12. FilesInv'
  <2>1. \A x \in DOMAIN tables' : tables'[x] \in [ents : SUBSET Nat, ok : BOOLEAN, synced : BOOLEAN]
    BY <1>3, <1>10, <1>11 DEF FilesInv
  <2>2. DOMAIN tables' \subseteq Nat \ {0}
    BY <1>3, <1>8, <1>11 DEF FilesInv
  <2> QED BY <1>1, <1>3, <2>1, <2>2 DEF FilesInv
<1>13. \A n \in v.files : n # d.next
  BY <1>3, <1>8
<1>14. Keeps(acked', safe', v.files, From(v.log), tables', logs')
  BY <1>1, <1>3, <1>11, <1>13, KeepsOn
<1>15. Lists(v, acked', safe', tables', logs')
  BY <1>3, <1>14 DEF Lists
<1>16. ~undone => GoodTables(v.files, v.last, tables')
  BY <1>3, <1>11, <1>13 DEF GoodTables
<1>17. CurrentInv' /\ WorldInv'
  BY <1>1, <1>3, <1>15, <1>16, WorldSame DEF v
<1>18. (SessionType(db[h]))'
  <2>1. /\ e.next >= d.next /\ e.log < e.next /\ e.log \in Nat /\ e.next \in Nat
        /\ e.mem \subseteq Nat /\ e.last \in Nat /\ e.adds \subseteq Nat \ {0}
        /\ \A n \in e.adds : n < e.next
    BY <1>6, <1>7, <1>8
  <2>2. e.dels \subseteq Nat \ {0}
    BY <1>7, <1>8
  <2> QED BY <1>3, <1>6, <1>7, <2>1, <2>2, SessionOn DEF e
<1>19. (WorkingInv(db[h]))'
  <2>1. e.log \in DOMAIN logs' /\ (\A n \in DOMAIN logs' : n <= e.log)
    BY <1>1, <1>3, <1>4, <1>7
  <2>2. \A x \in e.mem : x <= e.last
    BY <1>4, <1>6, <1>7, <1>8
  <2>3. EntsOf(logs'[e.log]) \subseteq e.mem
    BY <1>1, <1>4, <1>6, <1>7
  <2>4. \A n \in DOMAIN logs' : n >= v.log => \A x \in EntsOf(logs'[n]) : x <= e.last
    BY <1>1, <1>4, <1>7
  <2>5. /\ v.next <= e.next /\ v.log <= e.log /\ v.last <= e.last
    BY <1>3, <1>4, <1>6, <1>7, <1>8
  <2>6. /\ e.mfile = current' /\ current' \in DOMAIN manifests' /\ ViewOf(manifests'[current']) = v
        /\ manifests'[current'].synced = Len(manifests'[current'].recs)
        /\ v.files = e.files
    BY <1>1, <1>3, <1>4, <1>7 DEF v
  <2>7. /\ d.next \in DOMAIN tables' /\ e.adds = {d.next} /\ IsSure(tables'[d.next])
        /\ \A n \in DOMAIN tables' : n \in e.dels => tables'[n].ents \subseteq tables'[d.next].ents
    BY <1>6, <1>7, <1>9, <1>10, <1>11
  <2>8. ASSUME NEW n \in DOMAIN logs', n >= v.log
        PROVE  n = e.log \/ EntsOf(logs'[n]) \subseteq tables'[d.next].ents
    <3>1. CASE d.pc = "flush"
      BY <1>1, <1>4, <1>10, <1>11, <2>8, <3>1
    <3>2. CASE d.pc = "merge"
      BY <1>1, <1>3, <1>4, <1>7, <1>8, <2>8, <3>2
    <3> QED BY <1>1, <3>1, <3>2
  <2>9. ~undone' => \A x \in tables'[d.next].ents : x <= e.last
    BY <1>1, <1>7, <1>9, <1>10, <1>11
  <2>10. \E n0 \in DOMAIN tables' :
            /\ e.adds = {n0} /\ IsSure(tables'[n0])
            /\ \A n \in DOMAIN tables' : n \in e.dels => tables'[n].ents \subseteq tables'[n0].ents
            /\ EntsOf(logs'[e.log]) \subseteq e.mem
            /\ \A n \in DOMAIN logs' :
                  n >= v.log => n = e.log \/ EntsOf(logs'[n]) \subseteq tables'[n0].ents
            /\ ~undone' => \A x \in tables'[n0].ents : x <= e.last
    BY <2>3, <2>7, <2>8, <2>9
  <2> QED BY <1>2, <1>3, <1>6, <1>7, <1>15, <1>18, <2>1, <2>2, <2>4, <2>5, <2>6, <2>10 DEF WorkingInv, e
<1>20. BoundInv'
  <2> DEFINE c == d.next + d.last
  <2>1. c \in Nat /\ d.next \in 0..c /\ \A x \in d.mem : x \in 0..c
    BY <1>4, <1>8
  <2> HIDE DEF c
  <2>2. \A x \in temps' \cup DOMAIN logs' \cup DOMAIN tables' :
           x \in 0..c \/ x \in temps \cup DOMAIN logs \cup DOMAIN tables
    BY <1>1, <1>11, <2>1
  <2>3. \A x \in DOMAIN logs' : \A y \in EntsOf(logs'[x]) : OldEntry(y)
    BY <1>1 DEF OldEntry
  <2>4. \A y \in E : y \in 0..c \/ OldEntry(y)
    <3>1. CASE d.pc = "flush"
      BY <2>1, <3>1
    <3>2. CASE d.pc = "merge"
      BY <1>4, <3>2 DEF OldEntry, EntriesOf
    <3> QED BY <1>1, <3>1, <3>2
  <2> HIDE DEF E
  <2>5. \A x \in DOMAIN tables' : \A y \in tables'[x].ents : y \in 0..c \/ OldEntry(y)
    BY <1>10, <1>11, <2>4 DEF OldEntry
  <2>6. db'[h].pc # "copy"
    BY <1>6 DEF e
  <2> QED BY <1>3, <1>5, <2>1, <2>2, <2>3, <2>5, <2>6, BoundOwner
<1>21. (Working(db[h]))' /\ "retire" \notin DOMAIN db'[h]
  BY <1>6, <1>7 DEF Working, e
<1> QED BY <1>3, <1>5, <1>12, <1>17, <1>19, <1>20, <1>21, WorkingDone

----------------------------------------------------------------------------
(* RepairDB()                                                              *)

LEMMA BoundRepair ==
    ASSUME Sane, NEW h \in Handles, Repairs(db[h]), \A g \in Handles \ {h} : db'[g] = db[g],
           NEW c \in Nat,
           \A n \in temps' \cup DOMAIN logs' \cup DOMAIN tables' :
              n \in 0..c \/ n \in temps \cup DOMAIN logs \cup DOMAIN tables,
           \A n \in DOMAIN logs' : \A x \in EntsOf(logs'[n]) : OldEntry(x),
           \A n \in DOMAIN tables' : \A x \in tables'[n].ents : OldEntry(x),
           db'[h].pc = "copy" => \A x \in db'[h].ents : OldEntry(x)
    PROVE  BoundInv'
<1>1. \A g \in Handles : db'[g].pc = "copy" => g = h
  BY RepairFacts DEF Gone
<1> QED BY <1>1, BoundOn DEF Sane, WholeInv

\* A step of RepairDB() that writes and deletes no table and no log
LEMMA RepairSame ==
    ASSUME Sane, NEW h \in Handles, Repairs(db[h]), \A g \in Handles \ {h} : db'[g] = db[g],
           (Repairs(db[h]))', (RepairInv(db[h]))', FilesInv', CurrentInv',
           logs' = logs, tables' = tables, acked' = acked, safe' = safe,
           NEW c \in Nat, temps' \subseteq temps \cup {c},
           db[h].pc # "copy", db'[h].pc # "copy"
    PROVE  WholeInv'
<1>1. BoundInv /\ Keeps(acked', safe', DOMAIN tables', DOMAIN logs', tables', logs')
  BY RepairFacts
<1>2. \A g \in Handles : db'[g].pc # "copy"
  BY RepairFacts DEF Gone
<1>3. BoundInv'
  BY <1>1, <1>2, BoundSame
<1> QED BY <1>1, <1>3, RepairDone

LEMMA FindFilesKeeps ==
    ASSUME Sane, NEW h \in Handles, FindFiles(h)
    PROVE  WholeInv'
<1> DEFINE M == DOMAIN logs \cup DOMAIN tables \cup temps \cup {0}
           new == [pc |-> "convert", todo |-> DOMAIN logs, scan |-> DOMAIN tables, good |-> {},
                   retire |-> DOMAIN manifests, next |-> Max(M) + 1]
           e == db'[h]
<1>1. /\ \A g \in Handles : db[g] = Gone
      /\ db' = [db EXCEPT ![h] = new] /\ undone' = TRUE
      /\ UNCHANGED <<manifests, current, temps, logs, tables, acked, safe>>
  BY DEF FindFiles, diskVars, nameVars, tableVars
<1>2. FilesInv /\ BoundInv /\ CurrentInv /\ DiskInv
  BY DEF Sane, WholeInv
<1>3. Max(M) \in Nat /\ \A x \in M : x <= Max(M)
  <2>1. PICK b \in Nat : \A n \in temps \cup DOMAIN logs \cup DOMAIN tables : n \in 0..b
    BY <1>2 DEF BoundInv
  <2>2. M \in SUBSET Nat /\ M # {} /\ \A y \in M : y <= b
    BY <2>1
  <2>3. \A x \in M : x \in Nat
    BY <2>2
  <2> HIDE DEF M
  <2>4. Max(M) \in M /\ \A y \in M : Max(M) >= y
    BY <2>2, MaxIn
  <2> QED BY <2>3, <2>4
<1>4. e = new /\ \A g \in Handles \ {h} : db'[g] = Gone
  <2> HIDE DEF new
  <2> QED BY <1>1 DEF Sane, OwnerInv, StagesInv
<1> DEFINE mx == Max(M)
<1>5. /\ e.pc = "convert" /\ e.todo = DOMAIN logs /\ e.scan = DOMAIN tables /\ e.good = {}
      /\ e.next = mx + 1
      /\ {"pc", "todo", "scan", "good", "retire", "next"} \subseteq DOMAIN e
  BY <1>4
<1>6. mx \in Nat /\ (\A n \in DOMAIN tables \cup DOMAIN logs : n <= mx)
  BY <1>3
<1> HIDE DEF mx, M, new, e
<1>7. mx + 1 \in Nat \ {0} /\ \A n \in DOMAIN tables \cup DOMAIN logs : n < mx + 1
  BY <1>2, <1>6 DEF FilesInv
<1>8. (RepairInv(db[h]))'
  <2>1. DOMAIN tables \subseteq Nat \ {0}
    BY <1>2 DEF FilesInv
  <2> QED BY <1>1, <1>5, <1>7, <2>1 DEF RepairInv, e
<1>9. CallsInv'
  <2>1. (CallInv(db[h]))'
    BY <1>5, <1>8 DEF CallInv, Opening, Working, Creating, e
  <2>2. \A g \in Handles \ {h} : (CallInv(db[g]))'
    BY <1>4, GoneCall
  <2> QED BY <2>1, <2>2 DEF CallsInv
<1>10. AloneInv'
  BY <1>4, GoneCall DEF AloneInv
<1>11. FilesInv' /\ CurrentInv' /\ WorldInv'
  BY <1>1, <1>2 DEF FilesInv, CurrentInv, WorldInv
<1>12. \A g \in Handles : db[g].pc # "copy" /\ db'[g].pc # "copy"
  BY <1>1, <1>4, <1>5 DEF Gone, e
<1>13. BoundInv'
  <2>1. 0 \in Nat /\ temps' \subseteq temps \cup {0}
    BY <1>1
  <2> QED BY <1>1, <1>2, <1>12, <2>1, BoundSame
<1>14. DiskInv'
  BY <1>1, <1>2, <1>12 DEF DiskInv
<1> QED BY <1>9, <1>10, <1>11, <1>13, <1>14 DEF WholeInv

LEMMA ConvertKeeps ==
    ASSUME Sane, NEW h \in Handles, ConvertLogToTable(h)
    PROVE  WholeInv'
<1> DEFINE d == db[h]
           e == db'[h]
<1>1. /\ d.pc = "convert"
      /\ UNCHANGED <<manifests, current, temps, logs, acked, safe, undone>>
  BY DEF ConvertLogToTable, At, nameVars, goalVars
<1>2. PICK n \in d.todo :
        /\ tables' = IF EntsOf(logs[n]) = {} THEN tables ELSE With(tables, d.next, Whole(EntsOf(logs[n])))
        /\ Step(h, [pc |-> "archive", todo |-> d.todo \ {n}, log |-> n,
                    scan |-> IF EntsOf(logs[n]) = {} THEN d.scan ELSE d.scan \cup {d.next},
                    next |-> d.next + 1])
  BY DEF ConvertLogToTable, EntsOf
<1> DEFINE E == EntsOf(logs[n])
           scan == IF E = {} THEN d.scan ELSE d.scan \cup {d.next}
           to == [pc |-> "archive", todo |-> d.todo \ {n}, log |-> n, scan |-> scan, next |-> d.next + 1]
<1>3. Repairs(d)
  BY <1>1 DEF Repairs
<1>4. /\ RepairInv(d) /\ undone /\ FilesInv /\ BoundInv /\ CurrentInv
      /\ Keeps(acked, safe, DOMAIN tables, DOMAIN logs, tables, logs)
  BY <1>1, <1>3, RepairFacts
<1>5. /\ {"pc", "todo", "scan", "good", "retire", "next"} \subseteq DOMAIN d
      /\ d.next \in Nat \ {0} /\ d.good \subseteq Nat \ {0} /\ d.scan \subseteq Nat \ {0}
      /\ (\A x \in DOMAIN tables \cup DOMAIN logs : x < d.next)
      /\ d.good \cup d.scan \subseteq DOMAIN tables /\ d.good \cap d.scan = {}
      /\ (\A x \in DOMAIN tables : x \in d.good \cup d.scan \/ tables[x].ents = {})
      /\ DOMAIN logs = d.todo
  BY <1>1, <1>4 DEF RepairInv
<1>6. /\ \A g \in Handles \ {h} : db'[g] = db[g]
      /\ e = Changed(d, to)
  BY <1>2, StepFacts DEF Sane
<1>7. /\ e.pc = "archive" /\ e.todo = d.todo \ {n} /\ e.log = n /\ e.scan = scan /\ e.next = d.next + 1
      /\ e.good = d.good
      /\ {"pc", "todo", "scan", "good", "retire", "next", "log"} \subseteq DOMAIN e
  <2> HIDE DEF e, d, scan
  <2>1. "good" \in DOMAIN d /\ "retire" \in DOMAIN d
    BY <1>5 DEF d
  <2> QED BY <1>6, <2>1 DEF Changed
<1> HIDE DEF to, e
<1>8. E \subseteq Nat /\ SureOf(logs[n]) \subseteq E /\ n \in DOMAIN logs
  BY <1>4, <1>5, EntsFacts
<1>9. Whole(E) \in [ents : SUBSET Nat, ok : BOOLEAN, synced : BOOLEAN] /\ IsSure(Whole(E)) /\ Whole(E).ents = E
  <2> HIDE DEF E
  <2> QED BY <1>8 DEF Whole, IsSure
<1>10. /\ \A x \in DOMAIN tables : x # d.next /\ x \in DOMAIN tables' /\ tables'[x] = tables[x]
       /\ E # {} => d.next \in DOMAIN tables' /\ tables'[d.next] = Whole(E)
       /\ \A x \in DOMAIN tables' : (x \in DOMAIN tables /\ tables'[x] = tables[x])
                                     \/ (E # {} /\ x = d.next /\ tables'[x] = Whole(E))
  <2>1. \A x \in DOMAIN tables : x # d.next
    BY <1>4, <1>5 DEF FilesInv
  <2>2. tables' = IF E = {} THEN tables ELSE With(tables, d.next, Whole(E))
    BY <1>2
  <2> HIDE DEF E, d
  <2> QED BY <2>1, <2>2 DEF With
<1> HIDE DEF E
<1>11. FilesInv'
  <2>1. \A x \in DOMAIN tables' : tables'[x] \in [ents : SUBSET Nat, ok : BOOLEAN, synced : BOOLEAN]
    BY <1>4, <1>9, <1>10 DEF FilesInv
  <2>2. DOMAIN tables' \subseteq Nat \ {0}
    BY <1>4, <1>5, <1>10 DEF FilesInv
  <2> QED BY <1>1, <1>4, <2>1, <2>2 DEF FilesInv
<1>12. CurrentInv'
  BY <1>1, <1>4 DEF CurrentInv
<1>13. Keeps(acked', safe', DOMAIN tables', d.todo \ {n}, tables', logs')
  <2>1. ASSUME NEW a \in acked
        PROVE  InTables(a, DOMAIN tables', tables') \/ InLogs(a, d.todo \ {n}, logs)
    <3>1. CASE InTables(a, DOMAIN tables, tables)
      BY <1>10, <3>1 DEF InTables
    <3>2. CASE InLogs(a, DOMAIN logs, logs)
      <4>1. CASE a \in E
        BY <1>9, <1>10, <4>1 DEF InTables
      <4>2. CASE a \notin E
        BY <1>5, <3>2, <4>2 DEF InLogs, E
      <4> QED BY <4>1, <4>2
    <3> QED BY <1>4, <3>1, <3>2 DEF Keeps, Hold
  <2>2. ASSUME NEW a \in safe
        PROVE  SureInTables(a, DOMAIN tables', tables') \/ SureInLogs(a, d.todo \ {n}, logs)
    <3>1. CASE SureInTables(a, DOMAIN tables, tables)
      BY <1>10, <3>1 DEF SureInTables
    <3>2. CASE SureInLogs(a, DOMAIN logs, logs)
      <4>1. CASE a \in SureOf(logs[n])
        BY <1>8, <1>9, <1>10, <4>1 DEF SureInTables
      <4>2. CASE a \notin SureOf(logs[n])
        BY <1>5, <3>2, <4>2 DEF SureInLogs
      <4> QED BY <4>1, <4>2
    <3> QED BY <1>4, <3>1, <3>2 DEF Keeps, HoldSafe
  <2> QED BY <1>1, <2>1, <2>2 DEF Keeps, Hold, HoldSafe
<1>14. Keeps(acked', safe', DOMAIN tables', DOMAIN logs', tables', logs')
  BY <1>13, KeepsOn
<1>15. (RepairInv(db[h]))'
  <2>1. d.next + 1 \in Nat \ {0} /\ \A x \in DOMAIN tables' \cup DOMAIN logs' : x < d.next + 1
    <3>1. \A x \in DOMAIN tables \cup DOMAIN logs : x \in Nat
      BY <1>4 DEF FilesInv
    <3> QED BY <1>1, <1>5, <1>10, <3>1
  <2>2. /\ scan \subseteq Nat \ {0} /\ d.good \cup scan \subseteq DOMAIN tables'
        /\ d.good \cap scan = {}
    BY <1>5, <1>10
  <2>3. \A x \in DOMAIN tables' : x \in d.good \cup scan \/ tables'[x].ents = {}
    BY <1>5, <1>10
  <2>4. n \notin d.todo \ {n} /\ DOMAIN logs' = (d.todo \ {n}) \cup {n}
    BY <1>1, <1>5
  <2> HIDE DEF scan
  <2> QED BY <1>1, <1>4, <1>5, <1>7, <1>13, <2>1, <2>2, <2>3, <2>4 DEF RepairInv, e
<1>16. BoundInv'
  <2>1. \A x \in temps' \cup DOMAIN logs' \cup DOMAIN tables' :
           x \in 0..d.next \/ x \in temps \cup DOMAIN logs \cup DOMAIN tables
    BY <1>1, <1>5, <1>10
  <2>2. \A x \in DOMAIN logs' : \A y \in EntsOf(logs'[x]) : OldEntry(y)
    BY <1>1 DEF OldEntry
  <2>3. \A x \in DOMAIN tables' : \A y \in tables'[x].ents : OldEntry(y)
    BY <1>8, <1>9, <1>10 DEF OldEntry, E
  <2>4. db'[h].pc # "copy" /\ d.next \in Nat
    BY <1>5, <1>7 DEF e
  <2> QED BY <1>3, <1>6, <2>1, <2>2, <2>3, <2>4, BoundRepair
<1>17. (Repairs(db[h]))'
  BY <1>7 DEF Repairs, e
<1> QED BY <1>3, <1>6, <1>11, <1>12, <1>14, <1>15, <1>16, <1>17, RepairDone

\* The archive: a log that was converted is moved away.
LEMMA ArchiveLogKeeps ==
    ASSUME Sane, NEW h \in Handles, ArchiveLog(h)
    PROVE  WholeInv'
<1> DEFINE d == db[h]
           e == db'[h]
           to == [pc |-> "convert"]
<1>1. /\ d.pc = "archive" /\ Step(h, to) /\ logs' = Without(logs, d.log)
      /\ UNCHANGED <<manifests, current, temps, tables, acked, safe, undone>>
  BY DEF ArchiveLog, At, nameVars, goalVars
<1>2. Repairs(d)
  BY <1>1 DEF Repairs
<1>3. /\ RepairInv(d) /\ undone /\ FilesInv /\ BoundInv /\ CurrentInv
  BY <1>2, RepairFacts
<1>4. /\ {"pc", "todo", "scan", "good", "retire", "next", "log"} \subseteq DOMAIN d
      /\ d.next \in Nat \ {0} /\ d.good \subseteq Nat \ {0} /\ d.scan \subseteq Nat \ {0}
      /\ (\A x \in DOMAIN tables \cup DOMAIN logs : x < d.next)
      /\ d.good \cup d.scan \subseteq DOMAIN tables /\ d.good \cap d.scan = {}
      /\ (\A x \in DOMAIN tables : x \in d.good \cup d.scan \/ tables[x].ents = {})
      /\ d.log \notin d.todo /\ DOMAIN logs = d.todo \cup {d.log}
      /\ Keeps(acked, safe, DOMAIN tables, d.todo, tables, logs)
  BY <1>1, <1>3 DEF RepairInv
<1>5. /\ \A g \in Handles \ {h} : db'[g] = db[g]
      /\ e = Changed(d, to)
  BY <1>1, StepFacts DEF Sane
<1>6. /\ e.pc = "convert" /\ e.todo = d.todo /\ e.scan = d.scan /\ e.next = d.next /\ e.good = d.good
      /\ {"pc", "todo", "scan", "good", "retire", "next"} \subseteq DOMAIN e
  <2> HIDE DEF e, d
  <2> QED BY <1>4, <1>5 DEF Changed
<1> HIDE DEF to, e
<1>7. DOMAIN logs' = d.todo /\ \A x \in DOMAIN logs' : x \in DOMAIN logs /\ logs'[x] = logs[x]
  <2>1. DOMAIN logs' = DOMAIN logs \ {d.log} /\ \A x \in DOMAIN logs : x # d.log => logs'[x] = logs[x]
    BY <1>1 DEF Without
  <2> QED BY <1>4, <2>1
<1>8. FilesInv'
  BY <1>1, <1>3, <1>7 DEF FilesInv
<1>9. CurrentInv'
  BY <1>1, <1>3 DEF CurrentInv
<1>10. Keeps(acked', safe', DOMAIN tables', DOMAIN logs', tables', logs')
  <2>1. \A x \in DOMAIN logs : x \in d.todo => x \in DOMAIN logs' /\ logs'[x] = logs[x]
    BY <1>7
  <2> QED BY <1>1, <1>4, <2>1, KeepsOn
<1>11. (RepairInv(db[h]))'
  BY <1>1, <1>3, <1>4, <1>6, <1>7 DEF RepairInv, e
<1>12. BoundInv'
  <2>1. \A x \in temps' \cup DOMAIN logs' \cup DOMAIN tables' :
           x \in 0..0 \/ x \in temps \cup DOMAIN logs \cup DOMAIN tables
    BY <1>1, <1>7
  <2>2. \A x \in DOMAIN logs' : \A y \in EntsOf(logs'[x]) : OldEntry(y)
    BY <1>7 DEF OldEntry
  <2>3. \A x \in DOMAIN tables' : \A y \in tables'[x].ents : OldEntry(y)
    BY <1>1 DEF OldEntry
  <2>4. db'[h].pc # "copy" /\ 0 \in Nat
    BY <1>6 DEF e
  <2> QED BY <1>2, <1>5, <2>1, <2>2, <2>3, <2>4, BoundRepair
<1>13. (Repairs(db[h]))'
  BY <1>6 DEF Repairs, e
<1> QED BY <1>2, <1>5, <1>8, <1>9, <1>10, <1>11, <1>12, <1>13, RepairDone

\* What RepairDB() knows when the logs are converted, and it reads a table
LEMMA Scanning ==
    ASSUME Sane, NEW h \in Handles, db[h].pc \in {"convert", "retire"}, db[h].todo = {}
    PROVE  /\ Repairs(db[h]) /\ RepairInv(db[h]) /\ undone /\ FilesInv /\ BoundInv /\ CurrentInv
           /\ Keeps(acked, safe, DOMAIN tables, DOMAIN logs, tables, logs)
           /\ {"pc", "todo", "scan", "good", "retire", "next"} \subseteq DOMAIN db[h]
           /\ db[h].next \in Nat \ {0} /\ db[h].good \subseteq Nat \ {0}
           /\ db[h].scan \subseteq Nat \ {0}
           /\ \A x \in DOMAIN tables : x < db[h].next
           /\ db[h].good \cup db[h].scan \subseteq DOMAIN tables
           /\ db[h].good \cap db[h].scan = {}
           /\ \A x \in DOMAIN tables : x \in db[h].good \cup db[h].scan \/ tables[x].ents = {}
           /\ DOMAIN logs = {}
           /\ \A a \in acked : InTables(a, DOMAIN tables, tables)
           /\ \A a \in safe : SureInTables(a, DOMAIN tables, tables)
<1>1. Repairs(db[h])
  BY DEF Repairs
<1>2. /\ RepairInv(db[h]) /\ undone /\ FilesInv /\ BoundInv /\ CurrentInv
      /\ Keeps(acked, safe, DOMAIN tables, DOMAIN logs, tables, logs)
  BY <1>1, RepairFacts
<1>3. DOMAIN logs = {}
  BY <1>2 DEF RepairInv
<1>4. /\ \A a \in acked : InTables(a, DOMAIN tables, tables)
      /\ \A a \in safe : SureInTables(a, DOMAIN tables, tables)
  BY <1>2, <1>3 DEF Keeps, Hold, HoldSafe, InLogs, SureInLogs
<1> QED BY <1>1, <1>2, <1>3, <1>4 DEF RepairInv

LEMMA ScanGoodKeeps ==
    ASSUME Sane, NEW h \in Handles, At(h, "convert"), db[h].todo = {}, NEW n \in db[h].scan,
           Step(h, [scan |-> db[h].scan \ {n}, good |-> db[h].good \cup {n}]),
           UNCHANGED <<manifests, current, temps, logs, tables, acked, safe, undone>>
    PROVE  WholeInv'
<1> DEFINE d == db[h]
           e == db'[h]
           to == [scan |-> d.scan \ {n}, good |-> d.good \cup {n}]
<1>1. d.pc = "convert" /\ Step(h, to)
  BY DEF At
<1>2. /\ Repairs(d) /\ RepairInv(d) /\ undone /\ FilesInv /\ CurrentInv
      /\ {"pc", "todo", "scan", "good", "retire", "next"} \subseteq DOMAIN d
      /\ d.next \in Nat \ {0} /\ d.good \subseteq Nat \ {0} /\ d.scan \subseteq Nat \ {0}
      /\ (\A x \in DOMAIN tables : x < d.next)
      /\ d.good \cup d.scan \subseteq DOMAIN tables /\ d.good \cap d.scan = {}
      /\ (\A x \in DOMAIN tables : x \in d.good \cup d.scan \/ tables[x].ents = {})
      /\ DOMAIN logs = {}
  BY <1>1, Scanning
<1>3. /\ \A g \in Handles \ {h} : db'[g] = db[g]
      /\ e = Changed(d, to)
  BY <1>1, StepFacts DEF Sane
<1>4. /\ e.pc = "convert" /\ e.todo = d.todo /\ e.scan = d.scan \ {n} /\ e.next = d.next
      /\ e.good = d.good \cup {n}
      /\ {"pc", "todo", "scan", "good", "retire", "next"} \subseteq DOMAIN e
  <2> HIDE DEF e, d
  <2> QED BY <1>1, <1>2, <1>3 DEF Changed
<1> HIDE DEF to, e
<1>5. /\ e.good \subseteq Nat \ {0} /\ e.scan \subseteq Nat \ {0} /\ e.todo = {}
      /\ e.good \cup e.scan \subseteq DOMAIN tables /\ e.good \cap e.scan = {}
      /\ \A x \in DOMAIN tables : x \in e.good \cup e.scan \/ tables[x].ents = {}
  BY <1>2, <1>4
<1>6. (RepairInv(db[h]))'
  BY <1>2, <1>4, <1>5 DEF RepairInv, e
<1>7. (Repairs(db[h]))' /\ db'[h].pc # "copy" /\ d.pc # "copy"
  BY <1>1, <1>4 DEF Repairs, e
<1>8. FilesInv' /\ CurrentInv'
  BY <1>2 DEF FilesInv, CurrentInv
<1>9. 0 \in Nat /\ temps' \subseteq temps \cup {0}
  OBVIOUS
<1> QED BY <1>2, <1>3, <1>6, <1>7, <1>8, <1>9, RepairSame

LEMMA ScanTornKeeps ==
    ASSUME Sane, NEW h \in Handles, At(h, "convert"), db[h].todo = {}, NEW n \in db[h].scan,
           ~tables[n].ok, tables' = With(tables, db[h].next, Torn),
           Step(h, [pc |-> "torn", next |-> db[h].next + 1,
                    table |-> n, copy |-> db[h].next, ents |-> tables[n].ents]),
           UNCHANGED <<manifests, current, temps, logs, acked, safe, undone>>
    PROVE  WholeInv'
<1> DEFINE d == db[h]
           e == db'[h]
           E == tables[n].ents
           to == [pc |-> "torn", next |-> d.next + 1, table |-> n, copy |-> d.next, ents |-> E]
<1>1. d.pc = "convert" /\ Step(h, to)
  BY DEF At
<1>2. /\ Repairs(d) /\ RepairInv(d) /\ undone /\ FilesInv /\ CurrentInv /\ BoundInv
      /\ Keeps(acked, safe, DOMAIN tables, DOMAIN logs, tables, logs)
      /\ {"pc", "todo", "scan", "good", "retire", "next"} \subseteq DOMAIN d
      /\ d.next \in Nat \ {0} /\ d.good \subseteq Nat \ {0} /\ d.scan \subseteq Nat \ {0}
      /\ (\A x \in DOMAIN tables : x < d.next)
      /\ d.good \cup d.scan \subseteq DOMAIN tables /\ d.good \cap d.scan = {}
      /\ (\A x \in DOMAIN tables : x \in d.good \cup d.scan \/ tables[x].ents = {})
      /\ DOMAIN logs = {}
  BY <1>1, Scanning
<1>3. /\ \A g \in Handles \ {h} : db'[g] = db[g]
      /\ e = Changed(d, to)
  BY <1>1, StepFacts DEF Sane
<1>4. /\ e.pc = "torn" /\ e.todo = d.todo /\ e.scan = d.scan /\ e.next = d.next + 1
      /\ e.good = d.good /\ e.table = n /\ e.copy = d.next /\ e.ents = E
      /\ {"pc", "todo", "scan", "good", "retire", "next", "table", "copy", "ents"} \subseteq DOMAIN e
  <2> HIDE DEF e, d, E
  <2> QED BY <1>1, <1>2, <1>3 DEF Changed
<1> HIDE DEF to, e
<1>5. n \in DOMAIN tables /\ d.next \notin DOMAIN tables
  BY <1>2
<1>6. /\ DOMAIN tables' = DOMAIN tables \cup {d.next} /\ tables'[d.next] = Torn
      /\ \A x \in DOMAIN tables : x # d.next /\ tables'[x] = tables[x]
  BY <1>5 DEF With
<1>7. Torn \in [ents : SUBSET Nat, ok : BOOLEAN, synced : BOOLEAN] /\ Torn.ents = {}
  BY DEF Torn
<1>8. FilesInv'
  <2>1. DOMAIN tables' \subseteq Nat \ {0}
    BY <1>2, <1>6 DEF FilesInv
  <2>2. \A x \in DOMAIN tables' : tables'[x] \in [ents : SUBSET Nat, ok : BOOLEAN, synced : BOOLEAN]
    BY <1>2, <1>6, <1>7 DEF FilesInv
  <2> QED BY <1>2, <2>1, <2>2 DEF FilesInv
<1>9. CurrentInv'
  BY <1>2 DEF CurrentInv
<1>10. Keeps(acked', safe', DOMAIN tables', DOMAIN logs', tables', logs')
  BY <1>2, <1>6, KeepsOn
<1>11. tables'[n].ents = E /\ ~tables'[n].ok
  BY <1>5, <1>6
<1>12. (RepairInv(db[h]))'
  <2>1. d.next + 1 \in Nat \ {0} /\ \A x \in DOMAIN tables' \cup DOMAIN logs' : x < d.next + 1
    <3>1. \A x \in DOMAIN tables : x \in Nat
      BY <1>2 DEF FilesInv
    <3> QED BY <1>2, <1>6, <3>1
  <2>2. /\ d.good \cup d.scan \subseteq DOMAIN tables'
        /\ d.next \in DOMAIN tables' /\ d.next \notin d.good \cup d.scan
    BY <1>2, <1>5, <1>6
  <2>3. \A y \in DOMAIN tables' : y \in d.good \cup d.scan \/ tables'[y].ents = {}
    BY <1>2, <1>6, <1>7
  <2>4. e.todo = {} /\ DOMAIN logs' = {}
    BY <1>2, <1>4
  <2> HIDE DEF E
  <2> QED BY <1>2, <1>4, <1>11, <2>1, <2>2, <2>3, <2>4 DEF RepairInv, e
<1>13. BoundInv'
  <2>1. \A x \in temps' \cup DOMAIN logs' \cup DOMAIN tables' :
           x \in 0..d.next \/ x \in temps \cup DOMAIN logs \cup DOMAIN tables
    BY <1>2, <1>6
  <2>2. \A x \in DOMAIN logs' : \A y \in EntsOf(logs'[x]) : OldEntry(y)
    BY DEF OldEntry
  <2>3. \A x \in DOMAIN tables' : \A y \in tables'[x].ents : OldEntry(y)
    BY <1>6, <1>7 DEF OldEntry
  <2>4. db'[h].pc # "copy" /\ d.next \in Nat
    BY <1>2, <1>4 DEF e
  <2> QED BY <1>2, <1>3, <2>1, <2>2, <2>3, <2>4, BoundRepair
<1>14. (Repairs(db[h]))'
  BY <1>4 DEF Repairs, e
<1> QED BY <1>2, <1>3, <1>8, <1>9, <1>10, <1>12, <1>13, <1>14, RepairDone

LEMMA ArchiveTableKeeps ==
    ASSUME Sane, NEW h \in Handles, ArchiveTable(h)
    PROVE  WholeInv'
<1> DEFINE d == db[h]
           e == db'[h]
           n == d.table
           E == d.ents
           to == [pc |-> "copy", scan |-> d.scan \ {n}]
<1>1. /\ d.pc = "torn" /\ Step(h, to) /\ tables' = Without(tables, n)
      /\ UNCHANGED <<manifests, current, temps, logs, acked, safe, undone>>
  BY DEF ArchiveTable, At, nameVars, goalVars
<1>2. /\ Repairs(d) /\ RepairInv(d) /\ undone /\ FilesInv /\ CurrentInv /\ BoundInv
      /\ Keeps(acked, safe, DOMAIN tables, DOMAIN logs, tables, logs)
  BY <1>1, RepairFacts DEF Repairs
<1>3. /\ {"pc", "todo", "scan", "good", "retire", "next", "table", "copy", "ents"} \subseteq DOMAIN d
      /\ d.next \in Nat \ {0} /\ d.good \subseteq Nat \ {0} /\ d.scan \subseteq Nat \ {0}
      /\ (\A x \in DOMAIN tables : x < d.next)
      /\ d.good \cup d.scan \subseteq DOMAIN tables /\ d.good \cap d.scan = {}
      /\ (\A x \in DOMAIN tables : x \in d.good \cup d.scan \/ tables[x].ents = {})
      /\ d.todo = {} /\ DOMAIN logs = {}
      /\ n \in d.scan /\ ~tables[n].ok /\ E = tables[n].ents
      /\ d.copy \in DOMAIN tables /\ d.copy \notin d.good \cup d.scan
  BY <1>1, <1>2 DEF RepairInv
<1>4. /\ \A g \in Handles \ {h} : db'[g] = db[g]
      /\ e = Changed(d, to)
  BY <1>1, StepFacts DEF Sane
<1>5. /\ e.pc = "copy" /\ e.todo = d.todo /\ e.scan = d.scan \ {n} /\ e.next = d.next
      /\ e.good = d.good /\ e.table = n /\ e.copy = d.copy /\ e.ents = E
      /\ {"pc", "todo", "scan", "good", "retire", "next", "table", "copy", "ents"} \subseteq DOMAIN e
  <2> HIDE DEF e, d
  <2> QED BY <1>3, <1>4 DEF Changed
<1> HIDE DEF to, e
<1>6. /\ n \in DOMAIN tables /\ n \in Nat \ {0} /\ n < d.next /\ n # d.copy
      /\ E \subseteq Nat
      /\ DOMAIN tables' = DOMAIN tables \ {n}
      /\ \A x \in DOMAIN tables : x # n => tables'[x] = tables[x]
  BY <1>1, <1>2, <1>3 DEF FilesInv, Without
<1>7. /\ \A a \in acked : InTables(a, DOMAIN tables, tables)
      /\ \A a \in safe : SureInTables(a, DOMAIN tables, tables)
  BY <1>2, <1>3 DEF Keeps, Hold, HoldSafe, InLogs, SureInLogs
<1>8. FilesInv'
  BY <1>1, <1>2, <1>6 DEF FilesInv
<1>9. CurrentInv'
  BY <1>1, <1>2 DEF CurrentInv
<1>10. \A a \in acked' : InTables(a, DOMAIN tables', tables') \/ a \in E
  <2> SUFFICES ASSUME NEW a \in acked, a \notin E PROVE InTables(a, DOMAIN tables', tables')
    BY <1>1
  <2>1. PICK x \in DOMAIN tables : a \in tables[x].ents
    BY <1>7 DEF InTables
  <2>2. x # n
    BY <1>3, <2>1
  <2> QED BY <1>6, <2>1, <2>2 DEF InTables
<1>11. \A a \in safe' : SureInTables(a, DOMAIN tables', tables')
  <2> SUFFICES ASSUME NEW a \in safe PROVE SureInTables(a, DOMAIN tables', tables')
    BY <1>1
  <2>1. PICK x \in DOMAIN tables : IsSure(tables[x]) /\ a \in tables[x].ents
    BY <1>7 DEF SureInTables
  <2>2. x # n
    BY <1>3, <2>1 DEF IsSure
  <2> QED BY <1>6, <2>1, <2>2 DEF SureInTables
<1>12. (RepairInv(db[h]))'
  <2>1. /\ \A x \in DOMAIN tables' \cup DOMAIN logs' : x < d.next
        /\ d.good \cup (d.scan \ {n}) \subseteq DOMAIN tables'
        /\ d.good \cap (d.scan \ {n}) = {} /\ d.scan \ {n} \subseteq Nat \ {0}
        /\ n \notin DOMAIN tables' /\ d.copy \in DOMAIN tables'
        /\ d.copy \notin d.good \cup (d.scan \ {n})
    BY <1>1, <1>3, <1>6
  <2>2. \A y \in DOMAIN tables' : y \in d.good \cup (d.scan \ {n}) \/ tables'[y].ents = {}
    BY <1>3, <1>6
  <2>3. e.todo = {} /\ DOMAIN logs' = {} /\ undone'
    BY <1>1, <1>2, <1>3, <1>5
  <2>4. /\ n \in Nat \ {0} /\ n < d.next /\ E \subseteq Nat
        /\ d.next \in Nat \ {0} /\ d.good \subseteq Nat \ {0}
    BY <1>3, <1>6
  <2> HIDE DEF n, E, d
  <2> QED BY <1>5, <1>10, <1>11, <2>1, <2>2, <2>3, <2>4 DEF RepairInv, e
<1>13. BoundInv'
  <2>1. \A x \in temps' \cup DOMAIN logs' \cup DOMAIN tables' :
           x \in 0..d.next \/ x \in temps \cup DOMAIN logs \cup DOMAIN tables
    BY <1>1, <1>6
  <2>2. \A x \in DOMAIN logs' : \A y \in EntsOf(logs'[x]) : OldEntry(y)
    BY <1>1 DEF OldEntry
  <2>3. \A x \in DOMAIN tables' : \A y \in tables'[x].ents : OldEntry(y)
    BY <1>6 DEF OldEntry
  <2>4. \A x \in E : OldEntry(x)
    BY <1>3, <1>6 DEF OldEntry
  <2>5. db'[h].pc = "copy" => \A x \in db'[h].ents : OldEntry(x)
    BY <1>5, <2>4 DEF e
  <2>6. d.next \in Nat
    BY <1>3
  <2> QED BY <1>2, <1>4, <2>1, <2>2, <2>3, <2>5, <2>6, BoundRepair
<1>14. (Repairs(db[h]))' /\ db'[h].pc = "copy"
  BY <1>5 DEF Repairs, e
<1> QED BY <1>2, <1>4, <1>8, <1>9, <1>12, <1>13, <1>14, RepairDone

LEMMA ScanTableKeeps ==
    ASSUME Sane, NEW h \in Handles, ScanTable(h)
    PROVE  WholeInv'
<1>1. /\ At(h, "convert") /\ db[h].todo = {}
      /\ UNCHANGED <<manifests, current, temps, logs, acked, safe, undone>>
  BY DEF ScanTable, nameVars, goalVars
<1>2. PICK n \in db[h].scan :
         \/ /\ Step(h, [scan |-> db[h].scan \ {n}, good |-> db[h].good \cup {n}])
            /\ UNCHANGED tables
         \/ /\ ~tables[n].ok
            /\ tables' = With(tables, db[h].next, Torn)
            /\ Step(h, [pc |-> "torn", next |-> db[h].next + 1,
                        table |-> n, copy |-> db[h].next, ents |-> tables[n].ents])
  BY DEF ScanTable
<1> QED BY <1>1, <1>2, ScanGoodKeeps, ScanTornKeeps

LEMMA RepairTableKeeps ==
    ASSUME Sane, NEW h \in Handles, RepairTable(h)
    PROVE  WholeInv'
<1> DEFINE d == db[h]
           e == db'[h]
           E == d.ents
           file == [ents |-> E, ok |-> TRUE, synced |-> FALSE]
           good == IF E = {} THEN d.good ELSE d.good \cup {d.table}
           to == [pc |-> "convert", good |-> good]
<1>1. /\ d.pc = "copy" /\ Step(h, to) /\ tables' = Repaired(d)
      /\ UNCHANGED <<manifests, current, temps, logs, acked, safe, undone>>
  BY DEF RepairTable, At, nameVars, goalVars
<1>2. /\ Repairs(d) /\ RepairInv(d) /\ undone /\ FilesInv /\ CurrentInv /\ BoundInv
  BY <1>1, RepairFacts DEF Repairs
<1>3. /\ {"pc", "todo", "scan", "good", "retire", "next"} \subseteq DOMAIN d
      /\ d.next \in Nat \ {0} /\ d.good \subseteq Nat \ {0} /\ d.scan \subseteq Nat \ {0}
      /\ (\A x \in DOMAIN tables : x < d.next)
      /\ d.good \cup d.scan \subseteq DOMAIN tables /\ d.good \cap d.scan = {}
      /\ d.todo = {} /\ DOMAIN logs = {}
      /\ E \subseteq Nat /\ d.table \in Nat \ {0} /\ d.table < d.next
      /\ d.table \notin DOMAIN tables /\ d.copy \in DOMAIN tables
      /\ d.copy \notin d.good \cup d.scan
      /\ (\A x \in DOMAIN tables : x \in d.good \cup d.scan \/ tables[x].ents = {})
      /\ (\A a \in acked : InTables(a, DOMAIN tables, tables) \/ a \in E)
      /\ (\A a \in safe : SureInTables(a, DOMAIN tables, tables))
  BY <1>1, <1>2 DEF RepairInv
<1>4. /\ \A g \in Handles \ {h} : db'[g] = db[g]
      /\ e = Changed(d, to)
  BY <1>1, StepFacts DEF Sane
<1>5. /\ e.pc = "convert" /\ e.todo = d.todo /\ e.scan = d.scan /\ e.next = d.next /\ e.good = good
      /\ {"pc", "todo", "scan", "good", "retire", "next"} \subseteq DOMAIN e
  <2> HIDE DEF e, d, good
  <2> QED BY <1>3, <1>4 DEF Changed
<1> HIDE DEF to, e
<1>6. /\ E = {} => tables' = tables
      /\ E # {} => /\ DOMAIN tables' = (DOMAIN tables \ {d.copy}) \cup {d.table}
                   /\ tables'[d.table] = file
                   /\ \A x \in DOMAIN tables : x # d.copy => tables'[x] = tables[x]
  <2>1. CASE E = {}
    BY <1>1, <2>1 DEF Repaired
  <2>2. CASE E # {}
    <3>1. tables' = With(Without(tables, d.copy), d.table, file)
      BY <1>1, <2>2 DEF Repaired
    <3> HIDE DEF file
    <3>2. /\ DOMAIN Without(tables, d.copy) = DOMAIN tables \ {d.copy}
          /\ \A x \in DOMAIN tables : x # d.copy => Without(tables, d.copy)[x] = tables[x]
      BY DEF Without
    <3>3. /\ DOMAIN tables' = DOMAIN Without(tables, d.copy) \cup {d.table} /\ tables'[d.table] = file
          /\ \A x \in DOMAIN Without(tables, d.copy) :
                x # d.table => tables'[x] = Without(tables, d.copy)[x]
      BY <3>1 DEF With
    <3> QED BY <1>3, <2>2, <3>2, <3>3
  <2> QED BY <2>1, <2>2
<1>7. file \in [ents : SUBSET Nat, ok : BOOLEAN, synced : BOOLEAN] /\ file.ents = E
  BY <1>3
<1> HIDE DEF file, E
<1>8. FilesInv'
  <2>1. DOMAIN tables' \subseteq Nat \ {0}
    BY <1>2, <1>3, <1>6 DEF FilesInv
  <2>2. \A x \in DOMAIN tables' : tables'[x] \in [ents : SUBSET Nat, ok : BOOLEAN, synced : BOOLEAN]
    BY <1>2, <1>6, <1>7 DEF FilesInv
  <2> QED BY <1>1, <1>2, <2>1, <2>2 DEF FilesInv
<1>9. CurrentInv'
  BY <1>1, <1>2 DEF CurrentInv
<1>10. tables[d.copy].ents = {}
  BY <1>3
<1>11. \A a \in acked : InTables(a, DOMAIN tables', tables')
  <2> SUFFICES ASSUME NEW a \in acked PROVE InTables(a, DOMAIN tables', tables')
    OBVIOUS
  <2>1. CASE a \in E
    BY <1>6, <1>7, <2>1 DEF InTables
  <2>2. CASE a \notin E
    <3>1. PICK x \in DOMAIN tables : a \in tables[x].ents
      BY <1>3, <2>2 DEF InTables
    <3>2. x # d.copy
      BY <1>10, <3>1
    <3> QED BY <1>6, <3>1, <3>2 DEF InTables
  <2> QED BY <2>1, <2>2
<1>12. \A a \in safe : SureInTables(a, DOMAIN tables', tables')
  <2> SUFFICES ASSUME NEW a \in safe PROVE SureInTables(a, DOMAIN tables', tables')
    OBVIOUS
  <2>1. PICK x \in DOMAIN tables : IsSure(tables[x]) /\ a \in tables[x].ents
    BY <1>3 DEF SureInTables
  <2>2. x # d.copy
    BY <1>10, <2>1
  <2> QED BY <1>6, <2>1, <2>2 DEF SureInTables
<1>13. Keeps(acked', safe', DOMAIN tables', DOMAIN logs', tables', logs')
  BY <1>1, <1>11, <1>12 DEF Keeps, Hold, HoldSafe
<1>14. (RepairInv(db[h]))'
  <2>1. \A x \in DOMAIN tables' \cup DOMAIN logs' : x < d.next
    BY <1>1, <1>3, <1>6
  <2>2. /\ good \subseteq Nat \ {0} /\ good \cup d.scan \subseteq DOMAIN tables' /\ good \cap d.scan = {}
    BY <1>3, <1>6
  <2>3. \A y \in DOMAIN tables' : y \in good \cup d.scan \/ tables'[y].ents = {}
    BY <1>3, <1>6
  <2> HIDE DEF good
  <2> QED BY <1>1, <1>2, <1>3, <1>5, <2>1, <2>2, <2>3 DEF RepairInv, e
<1>15. BoundInv'
  <2>1. \A x \in temps' \cup DOMAIN logs' \cup DOMAIN tables' :
           x \in 0..d.next \/ x \in temps \cup DOMAIN logs \cup DOMAIN tables
    BY <1>1, <1>3, <1>6
  <2>2. \A x \in DOMAIN logs' : \A y \in EntsOf(logs'[x]) : OldEntry(y)
    BY <1>1 DEF OldEntry
  <2>3. \A x \in E : OldEntry(x)
    BY <1>1 DEF OldEntry, E
  <2>4. \A x \in DOMAIN tables' : \A y \in tables'[x].ents : OldEntry(y)
    BY <1>6, <1>7, <2>3 DEF OldEntry
  <2>5. db'[h].pc # "copy" /\ d.next \in Nat
    BY <1>3, <1>5 DEF e
  <2> QED BY <1>2, <1>4, <2>1, <2>2, <2>4, <2>5, BoundRepair
<1>16. (Repairs(db[h]))'
  BY <1>5 DEF Repairs, e
<1> QED BY <1>2, <1>4, <1>8, <1>9, <1>13, <1>14, <1>15, <1>16, RepairDone

LEMMA WriteDescriptorKeeps ==
    ASSUME Sane, NEW h \in Handles, WriteDescriptor(h)
    PROVE  WholeInv'
<1> DEFINE d == db[h]
           e == db'[h]
           to == [pc |-> "retire"]
<1>1. /\ d.pc = "convert" /\ d.todo = {} /\ d.scan = {} /\ Step(h, to) /\ temps' = temps \cup {1}
      /\ UNCHANGED <<manifests, current, logs, tables, acked, safe, undone>>
  BY DEF WriteDescriptor, At, tableVars, goalVars
<1>2. /\ Repairs(d) /\ RepairInv(d) /\ undone /\ FilesInv /\ CurrentInv /\ DOMAIN logs = {}
      /\ {"pc", "todo", "scan", "good", "retire", "next"} \subseteq DOMAIN d
  BY <1>1, Scanning
<1>3. /\ \A g \in Handles \ {h} : db'[g] = db[g]
      /\ e = Changed(d, to)
  BY <1>1, StepFacts DEF Sane
<1>4. /\ e.pc = "retire" /\ e.todo = d.todo /\ e.scan = d.scan /\ e.next = d.next
      /\ e.good = d.good
      /\ {"pc", "todo", "scan", "good", "retire", "next"} \subseteq DOMAIN e
  <2> HIDE DEF e, d
  <2> QED BY <1>2, <1>3 DEF Changed
<1> HIDE DEF to, e
<1>5. (RepairInv(db[h]))'
  BY <1>1, <1>2, <1>4 DEF RepairInv, e
<1>6. (Repairs(db[h]))' /\ db'[h].pc # "copy" /\ d.pc # "copy"
  BY <1>1, <1>4 DEF Repairs, e
<1>7. FilesInv' /\ CurrentInv'
  BY <1>1, <1>2 DEF FilesInv, CurrentInv
<1>8. 1 \in Nat /\ temps' \subseteq temps \cup {1}
  BY <1>1
<1> QED BY <1>1, <1>2, <1>3, <1>5, <1>6, <1>7, <1>8, RepairSame

\* RepairDB() while it writes its MANIFEST
LEMMA Retiring ==
    ASSUME Sane, NEW h \in Handles, db[h].pc = "retire"
    PROVE  db[h].todo = {} /\ db[h].scan = {}
BY DEF Sane, WholeInv, CallsInv, CallInv, Repairs, RepairInv

LEMMA ArchiveManifestKeeps ==
    ASSUME Sane, NEW h \in Handles, ArchiveManifest(h)
    PROVE  WholeInv'
<1> DEFINE d == db[h]
           e == db'[h]
<1>1. /\ d.pc = "retire"
      /\ UNCHANGED <<current, temps, logs, tables, acked, safe, undone>>
  BY DEF ArchiveManifest, At, tableVars, goalVars
<1>2. PICK n \in d.retire : manifests' = Without(manifests, n) /\ Step(h, [retire |-> d.retire \ {n}])
  BY DEF ArchiveManifest
<1> DEFINE to == [retire |-> d.retire \ {n}]
<1>3. d.todo = {} /\ d.scan = {}
  BY <1>1, Retiring
<1>4. /\ Repairs(d) /\ RepairInv(d) /\ undone /\ FilesInv /\ CurrentInv /\ DOMAIN logs = {}
      /\ {"pc", "todo", "scan", "good", "retire", "next"} \subseteq DOMAIN d
  BY <1>1, <1>3, Scanning
<1>5. /\ \A g \in Handles \ {h} : db'[g] = db[g]
      /\ e = Changed(d, to)
  BY <1>2, StepFacts DEF Sane
<1>6. /\ e.pc = "retire" /\ e.todo = d.todo /\ e.scan = d.scan /\ e.next = d.next
      /\ e.good = d.good
      /\ {"pc", "todo", "scan", "good", "retire", "next"} \subseteq DOMAIN e
  <2> HIDE DEF e, d
  <2> QED BY <1>1, <1>4, <1>5 DEF Changed
<1> HIDE DEF to, e
<1>7. /\ DOMAIN manifests' \subseteq DOMAIN manifests
      /\ \A x \in DOMAIN manifests' : manifests'[x] = manifests[x]
  BY <1>2 DEF Without
<1>8. (RepairInv(db[h]))'
  BY <1>1, <1>4, <1>6 DEF RepairInv, e
<1>9. (Repairs(db[h]))' /\ db'[h].pc # "copy" /\ d.pc # "copy"
  BY <1>1, <1>6 DEF Repairs, e
<1>10. FilesInv'
  BY <1>1, <1>4, <1>7 DEF FilesInv
<1>11. CurrentInv'
  BY <1>1, <1>4, <1>7 DEF CurrentInv
<1>12. 0 \in Nat /\ temps' \subseteq temps \cup {0}
  BY <1>1
<1> QED BY <1>1, <1>4, <1>5, <1>8, <1>9, <1>10, <1>11, <1>12, RepairSame

\* The MANIFEST of RepairDB() is one record of the tables it has found.
LEMMA InstallDescriptorKeeps ==
    ASSUME Sane, NEW h \in Handles, InstallDescriptor(h)
    PROVE  WholeInv'
<1> DEFINE d == db[h]
           e == db'[h]
           file == [recs |-> <<Descriptor(d.good, d.next)>>, synced |-> 0]
           v == ViewOf(file)
           s == SureViewOf(file)
           to == [pc |-> "temp", why |-> "repair", mfile |-> 1]
<1>1. /\ d.pc = "retire" /\ Step(h, to) /\ temps' = temps \ {1}
      /\ manifests' = With(manifests, 1, file)
      /\ UNCHANGED <<current, logs, tables, acked, safe, undone>>
  BY DEF InstallDescriptor, At, tableVars, goalVars
<1>2. d.todo = {} /\ d.scan = {}
  BY <1>1, Retiring
<1>3. /\ Repairs(d) /\ RepairInv(d) /\ undone /\ FilesInv /\ CurrentInv /\ BoundInv /\ DOMAIN logs = {}
      /\ {"pc", "todo", "scan", "good", "retire", "next"} \subseteq DOMAIN d
      /\ d.next \in Nat \ {0} /\ d.good \subseteq DOMAIN tables /\ d.good \subseteq Nat \ {0}
      /\ (\A x \in DOMAIN tables : x < d.next)
  BY <1>1, <1>2, Scanning
<1>4. /\ \A g \in Handles \ {h} : db'[g] = db[g]
      /\ e = Changed(d, to)
  BY <1>1, StepFacts DEF Sane
<1>5. /\ e.pc = "temp" /\ e.why = "repair" /\ e.mfile = 1
      /\ e.todo = d.todo /\ e.scan = d.scan /\ e.next = d.next /\ e.good = d.good
      /\ {"pc", "todo", "scan", "good", "retire", "next", "mfile", "why"} \subseteq DOMAIN e
  <2> HIDE DEF e, d
  <2> QED BY <1>3, <1>4 DEF Changed
<1> HIDE DEF to, e
<1>6. /\ file \in [recs : Seq(Edits), synced : Nat] /\ file.synced = 0 /\ file.synced <= Len(file.recs)
      /\ v.full /\ v.files = d.good /\ v.log = 0 /\ v.next = d.next /\ v.last \in Nat
      /\ (\A n \in d.good : \A x \in tables[n].ents : x <= v.last)
      /\ s.full = FALSE /\ s.files = {}
  <2> DEFINE E == EntriesOf(d.good) \cup {0}
             last == Max(E)
             r == Descriptor(d.good, d.next)
  <2>1. PICK b \in Nat : \A n \in DOMAIN tables : \A x \in tables[n].ents : x \in 0..b
    BY <1>3 DEF BoundInv
  <2>2. E \in SUBSET Nat /\ E # {} /\ \A y \in E : y <= b
    BY <1>3, <2>1 DEF EntriesOf
  <2>3. \A n \in d.good : \A x \in tables[n].ents : x \in E
    BY DEF EntriesOf
  <2>4. last \in Nat /\ \A y \in E : y <= last
    <3> HIDE DEF E
    <3>1. Max(E) \in E /\ \A y \in E : Max(E) >= y
      BY <2>1, <2>2, MaxIn
    <3> QED BY <2>2, <3>1
  <2>5. r = [adds |-> d.good, dels |-> {}, full |-> TRUE, log |-> 0, next |-> d.next, last |-> last]
    BY DEF Descriptor, FullRecord
  <2> HIDE DEF r, last, E
  <2>6. r \in Edits /\ r.full /\ r.adds = d.good /\ r.log = 0 /\ r.next = d.next /\ r.last = last
    BY <1>3, <2>4, <2>5 DEF Edits
  <2>7. /\ <<r>> \in Seq(Edits) /\ Len(<<r>>) = 1 /\ SubSeq(<<r>>, 1, 0) = <<>>
        /\ Replay(<<r>>) = [files |-> r.adds, full |-> TRUE, log |-> r.log, next |-> r.next,
                            last |-> r.last]
    BY <2>6, ReplayOfOne
  <2>8. file.recs = <<r>> /\ file.synced = 0 /\ file \in [recs : Seq(Edits), synced : Nat]
    BY <2>7 DEF r
  <2>9. v = Replay(<<r>>) /\ s = Replay(<<>>)
    BY <2>7, <2>8, Zenon DEF ViewOf, SureViewOf
  <2> HIDE DEF v, s, file, d
  <2>10. s.full = FALSE /\ s.files = {}
    BY <2>9, ReplayOfNothing
  <2>11. v.full /\ v.files = d.good /\ v.log = 0 /\ v.next = d.next /\ v.last = last
    BY <2>6, <2>7, <2>9
  <2>12. file.synced <= Len(file.recs)
    BY <2>7, <2>8
  <2> QED BY <2>3, <2>4, <2>8, <2>10, <2>11, <2>12
<1> HIDE DEF file
<1>7. /\ DOMAIN manifests' = DOMAIN manifests \cup {1} /\ manifests'[1] = file
      /\ \A x \in DOMAIN manifests : x # 1 => manifests'[x] = manifests[x]
  BY <1>1 DEF With
<1>8. FilesInv'
  <2>1. \A x \in DOMAIN manifests' : /\ manifests'[x] \in [recs : Seq(Edits), synced : Nat]
                                     /\ manifests'[x].synced <= Len(manifests'[x].recs)
    BY <1>3, <1>6, <1>7 DEF FilesInv
  <2> QED BY <1>1, <1>3, <1>7, <2>1 DEF FilesInv
<1>9. CurrentInv'
  <2>1. CASE current = 1
    <3>1. NumbersOf(v) /\ NumbersOf(s)
      BY <1>3, <1>6 DEF NumbersOf
    <3>2. ViewOf(manifests'[current']) = v /\ SureViewOf(manifests'[current']) = s /\ current' = 1
      BY <1>1, <1>7, <2>1
    <3>3. v.next > 0
      BY <1>3, <1>6
    <3> HIDE DEF v, s
    <3> QED BY <1>6, <3>1, <3>2, <3>3 DEF CurrentInv
  <2>2. CASE current # 1
    BY <1>1, <1>3, <1>7, <2>2 DEF CurrentInv
  <2> QED BY <2>1, <2>2
<1>10. (RepairInv(db[h]))'
  <2>1. /\ 1 \in DOMAIN manifests' /\ manifests'[1].synced = 0 /\ ViewOf(manifests'[1]) = v
    BY <1>6, <1>7
  <2> HIDE DEF v, s
  <2> QED BY <1>1, <1>2, <1>3, <1>5, <1>6, <2>1 DEF RepairInv, e
<1>11. (Repairs(db[h]))' /\ db'[h].pc # "copy" /\ d.pc # "copy"
  BY <1>1, <1>5 DEF Repairs, e
<1>12. 0 \in Nat /\ temps' \subseteq temps \cup {0}
  BY <1>1
<1> QED BY <1>1, <1>3, <1>4, <1>8, <1>9, <1>10, <1>11, <1>12, RepairSame

----------------------------------------------------------------------------
(* Ends of processes and of the machine, and damage.                       *)

LEMMA IdleStage ==
    ASSUME Sane, NEW g \in Handles, ~Owns(g), ~Repairs(db[g])
    PROVE  Idle(db[g])
BY DEF Sane, OwnerInv, StagesInv, Stage, Held, Free, Owns, Repairs

\* No call is left that does anything to the world.
LEMMA AllIdle ==
    ASSUME Sane, \A g \in Handles : db'[g] = Gone \/ (db'[g] = db[g] /\ Idle(db[g]))
    PROVE  CallsInv' /\ AloneInv' /\ \A g \in Handles : db'[g].pc # "copy"
<1>1. \A g \in Handles : (CallInv(db[g]))'
  BY GoneCall, IdleCall DEF Sane, WholeInv, CallsInv
<1>2. \A g \in Handles : ~(Repairs(db[g]))' /\ db'[g].pc # "copy"
  BY GoneCall DEF Repairs
<1> QED BY <1>1, <1>2 DEF CallsInv, AloneInv

\* The end of a process in BuildTable(): a torn table k, which is none of the
\* tables F that hold the entries
LEMMA TornLeft ==
    ASSUME Sane, \A g \in Handles : db'[g].pc # "copy", NEW k \in Nat \ {0},
           NEW F, NEW K, Keeps(acked, safe, F, K, tables, logs), k \notin F,
           undone \/ (current \in DOMAIN manifests =>
                k \notin ViewOf(manifests[current]).files \cup SureViewOf(manifests[current]).files),
           tables' = With(tables, k, Torn),
           UNCHANGED <<manifests, current, temps, logs, acked, safe, undone>>
    PROVE  FilesInv' /\ BoundInv' /\ DiskInv' /\ CurrentInv' /\ WorldInv'
<1>1. FilesInv /\ BoundInv /\ CurrentInv /\ WorldInv
  BY DEF Sane, WholeInv
<1>2. Torn \in [ents : SUBSET Nat, ok : BOOLEAN, synced : BOOLEAN] /\ Torn.ents = {}
  BY DEF Torn
<1>3. /\ DOMAIN tables' = DOMAIN tables \cup {k} /\ tables'[k] = Torn
      /\ \A x \in DOMAIN tables : x # k => tables'[x] = tables[x]
  BY DEF With
<1>4. FilesInv'
  <2>1. \A x \in DOMAIN tables' : tables'[x] \in [ents : SUBSET Nat, ok : BOOLEAN, synced : BOOLEAN]
    BY <1>1, <1>2, <1>3 DEF FilesInv
  <2>2. DOMAIN tables' \subseteq Nat \ {0}
    BY <1>1, <1>3 DEF FilesInv
  <2> QED BY <1>1, <2>1, <2>2 DEF FilesInv
<1>5. DiskInv'
  <2>1. Keeps(acked', safe', F, K, tables', logs')
    BY <1>3, KeepsOn
  <2> QED BY <2>1, DiskKeeps
<1>6. CurrentInv' /\ WorldInv'
  <2>1. CASE undone
    BY <1>1, <2>1 DEF CurrentInv, WorldInv
  <2>2. CASE ~undone
    <3>1. current \in DOMAIN manifests =>
             \A x \in DOMAIN tables :
                x \in ViewOf(manifests[current]).files \cup SureViewOf(manifests[current]).files
                   => x \in DOMAIN tables' /\ tables'[x] = tables[x]
      BY <1>3, <2>2
    <3> QED BY <1>1, <3>1, WorldOn
  <2> QED BY <2>1, <2>2
<1>7. BoundInv'
  <2>1. \A x \in temps' \cup DOMAIN logs' \cup DOMAIN tables' :
           x \in 0..k \/ x \in temps \cup DOMAIN logs \cup DOMAIN tables
    BY <1>3
  <2>2. \A x \in DOMAIN logs' : \A y \in EntsOf(logs'[x]) : OldEntry(y)
    BY DEF OldEntry
  <2>3. \A x \in DOMAIN tables' : \A y \in tables'[x].ents : OldEntry(y)
    BY <1>2, <1>3 DEF OldEntry
  <2>4. k \in Nat
    OBVIOUS
  <2> QED BY <1>1, <2>1, <2>2, <2>3, <2>4, BoundOn
<1> QED BY <1>4, <1>5, <1>6, <1>7

\* Where a call may be building a table
LEMMA BuildingFacts ==
    ASSUME Sane, NEW h \in Handles, Building(db[h]), NEW k, k = db[h].next
    PROVE  /\ k \in Nat \ {0}
           /\ \E F, K : Keeps(acked, safe, F, K, tables, logs) /\ k \notin F
           /\ undone \/ (current \in DOMAIN manifests =>
                k \notin ViewOf(manifests[current]).files \cup SureViewOf(manifests[current]).files)
<1> DEFINE d == db[h]
<1>1. CASE d.pc \in {"flush", "merge"}
  <2> DEFINE v == ViewOf(manifests[current])
  <2>1. Working(d) /\ ~d.err
    BY <1>1, WorkingFacts DEF Working, WorkingInv
  <2>2. /\ SessionType(d) /\ Keeps(acked, safe, v.files, From(v.log), tables, logs)
        /\ SureViewOf(manifests[current]) = v /\ v.next <= d.next /\ v.next \in Nat
        /\ \A n \in v.files : n \in Nat \ {0} /\ n < v.next
    BY <2>1, AtWork
  <2>3. k \in Nat \ {0}
    BY <2>2 DEF SessionType
  <2>4. k \notin v.files
    BY <2>2, <2>3
  <2> QED BY <2>2, <2>3, <2>4
<1>2. CASE d.pc = "logs"
  <2>1. OpeningInv(d) /\ SessionType(d)
    BY <1>2, OpeningFacts DEF Opening
  <2>2. /\ Keeps(acked, safe, d.files \cup d.adds, d.todo, tables, logs)
        /\ current \in DOMAIN manifests =>
             \A n \in ViewOf(manifests[current]).files \cup SureViewOf(manifests[current]).files : n < k
    BY <1>2, <2>1 DEF OpeningInv
  <2>3. k \in Nat \ {0} /\ \A n \in d.files \cup d.adds : n < k
    BY <2>1 DEF SessionType
  <2>4. k \notin d.files \cup d.adds
    BY <2>3
  <2>5. current \in DOMAIN manifests =>
          k \notin ViewOf(manifests[current]).files \cup SureViewOf(manifests[current]).files
    BY <2>2, <2>3
  <2> QED BY <2>2, <2>3, <2>4, <2>5
<1>3. CASE d.pc = "convert"
  <2>1. /\ RepairInv(d) /\ undone
        /\ Keeps(acked, safe, DOMAIN tables, DOMAIN logs, tables, logs)
    BY <1>3, RepairFacts DEF Repairs
  <2>2. k \in Nat \ {0} /\ \A n \in DOMAIN tables : n < k
    BY <2>1 DEF RepairInv
  <2>3. k \notin DOMAIN tables
    BY <2>2
  <2> QED BY <2>1, <2>2, <2>3
<1> QED BY <1>1, <1>2, <1>3 DEF Building

\* Files as they were
LEMMA FilesSame ==
    ASSUME Sane, \A g \in Handles : db'[g].pc # "copy" /\ db[g].pc # "copy",
           UNCHANGED <<manifests, current, temps, logs, tables, acked, safe, undone>>
    PROVE  FilesInv' /\ BoundInv' /\ DiskInv' /\ CurrentInv' /\ WorldInv'
<1>1. FilesInv /\ BoundInv /\ DiskInv /\ CurrentInv /\ WorldInv
  BY DEF Sane, WholeInv
<1>2. FilesInv' /\ DiskInv' /\ CurrentInv' /\ WorldInv'
  BY <1>1 DEF FilesInv, DiskInv, CurrentInv, WorldInv
<1>3. 0 \in Nat /\ temps' \subseteq temps \cup {0}
  OBVIOUS
<1> QED BY <1>1, <1>2, <1>3, BoundSame

\* The end of RepairTable(): what it was to copy is lost.
LEMMA CopyLost ==
    ASSUME Sane, NEW h \in Handles, db[h].pc = "copy", \A g \in Handles : db'[g].pc # "copy",
           acked' = acked \ db[h].ents, safe' = safe \cap acked',
           UNCHANGED <<manifests, current, temps, logs, tables, undone>>
    PROVE  FilesInv' /\ BoundInv' /\ DiskInv' /\ CurrentInv' /\ WorldInv'
<1>1. Repairs(db[h])
  BY DEF Repairs
<1>2. RepairInv(db[h]) /\ undone /\ FilesInv /\ BoundInv /\ CurrentInv
  BY <1>1, RepairFacts
<1>3. /\ \A a \in acked : InTables(a, DOMAIN tables, tables) \/ a \in db[h].ents
      /\ \A a \in safe : SureInTables(a, DOMAIN tables, tables)
  BY <1>2 DEF RepairInv
<1>4. FilesInv' /\ CurrentInv' /\ WorldInv'
  BY <1>2 DEF FilesInv, CurrentInv, WorldInv
<1>5. DiskInv'
  <2>1. Keeps(acked', safe', DOMAIN tables', DOMAIN logs', tables', logs')
    BY <1>3 DEF Keeps, Hold, HoldSafe
  <2> QED BY <2>1, DiskKeeps
<1>6. 0 \in Nat /\ temps' \subseteq temps \cup {0}
  OBVIOUS
<1> QED BY <1>2, <1>4, <1>5, <1>6, BoundSame

LEMMA CrashKeeps ==
    ASSUME Sane, NEW p \in Processes, Crash(p)
    PROVE  WholeInv'
<1> DEFINE dead == {h \in Handles : ProcessOf[h] = p}
           gone == UNION {Archived(db[h]) : h \in dead}
<1>1. /\ tables' = tables \/ \E h \in dead : Building(db[h]) /\ tables' = With(tables, db[h].next, Torn)
      /\ db' = [h \in Handles |-> IF h \in dead THEN Gone ELSE db[h]]
      /\ acked' = acked \ gone /\ safe' = safe \cap acked'
      /\ UNCHANGED <<manifests, current, temps, logs, undone>>
  BY DEF Crash, nameVars
<1>2. \A g \in Handles : db'[g] = IF g \in dead THEN Gone ELSE db[g]
  <2> HIDE DEF dead
  <2> QED BY <1>1
<1>3. \A a : a \in gone <=> \E h \in dead : db[h].pc = "copy" /\ a \in db[h].ents
  BY DEF Archived
<1>4. dead \subseteq Handles
  OBVIOUS
<1> HIDE DEF dead, gone
<1>5. FilesInv /\ BoundInv /\ DiskInv /\ CurrentInv /\ WorldInv /\ CallsInv /\ AloneInv /\ safe \subseteq acked
  BY DEF Sane, WholeInv, FilesInv
<1>6. CASE \E h \in dead : Owns(h) \/ Repairs(db[h])
  <2>1. PICK h \in dead : Owns(h) \/ Repairs(db[h])
    BY <1>6
  <2>2. \A g \in Handles : g # h => Idle(db[g])
    BY <1>4, <2>1, OthersIdle DEF Sane, WholeInv
  <2>3. CallsInv' /\ AloneInv' /\ \A g \in Handles : db'[g].pc # "copy"
    <3>1. \A g \in Handles : db'[g] = Gone \/ (db'[g] = db[g] /\ Idle(db[g]))
      BY <1>2, <2>1, <2>2
    <3> QED BY <3>1, AllIdle
  <2>4. CASE db[h].pc = "copy"
    <3>1. \A g \in dead : ~Building(db[g])
      BY <1>4, <2>2, <2>4 DEF Building
    <3>2. gone = db[h].ents
      BY <1>3, <1>4, <2>1, <2>2, <2>4
    <3>3. tables' = tables /\ acked' = acked \ db[h].ents
      BY <1>1, <3>1, <3>2
    <3>4. FilesInv' /\ BoundInv' /\ DiskInv' /\ CurrentInv' /\ WorldInv'
      BY <1>1, <1>4, <2>1, <2>3, <2>4, <3>3, CopyLost
    <3> QED BY <2>3, <3>4 DEF WholeInv
  <2>5. CASE db[h].pc # "copy"
    <3>1. \A g \in Handles : db[g].pc # "copy"
      BY <2>2, <2>5
    <3>2. acked' = acked /\ safe' = safe
      BY <1>1, <1>3, <1>4, <1>5, <3>1
    <3>3. CASE tables' = tables
      <4>1. FilesInv' /\ BoundInv' /\ DiskInv' /\ CurrentInv' /\ WorldInv'
        BY <1>1, <2>3, <3>1, <3>2, <3>3, FilesSame
      <4> QED BY <2>3, <4>1 DEF WholeInv
    <3>4. CASE tables' # tables
      <4>1. PICK g \in dead : Building(db[g]) /\ tables' = With(tables, db[g].next, Torn)
        BY <1>1, <3>4
      <4> DEFINE k == db[g].next
      <4>2. /\ k \in Nat \ {0}
            /\ \E F, K : Keeps(acked, safe, F, K, tables, logs) /\ k \notin F
            /\ undone \/ (current \in DOMAIN manifests =>
                 k \notin ViewOf(manifests[current]).files \cup SureViewOf(manifests[current]).files)
        BY <1>4, <4>1, BuildingFacts
      <4>3. PICK F, K : Keeps(acked, safe, F, K, tables, logs) /\ k \notin F
        BY <4>2
      <4>4. tables' = With(tables, k, Torn)
        BY <4>1
      <4> HIDE DEF k
      <4>5. FilesInv' /\ BoundInv' /\ DiskInv' /\ CurrentInv' /\ WorldInv'
        BY <1>1, <2>3, <3>2, <4>2, <4>3, <4>4, TornLeft
      <4> QED BY <2>3, <4>5 DEF WholeInv
    <3> QED BY <3>3, <3>4
  <2> QED BY <2>4, <2>5
<1>7. CASE \A h \in dead : ~Owns(h) /\ ~Repairs(db[h])
  <2>1. \A h \in dead : Idle(db[h])
    BY <1>4, <1>7, IdleStage
  <2>2. tables' = tables /\ acked' = acked /\ safe' = safe
    <3>1. \A h \in dead : ~Building(db[h]) /\ db[h].pc # "copy"
      BY <2>1 DEF Building
    <3>2. gone = {}
      BY <1>3, <3>1
    <3> QED BY <1>1, <1>5, <3>1, <3>2
  <2>3. FilesInv' /\ CurrentInv' /\ WorldInv'
    BY <1>1, <1>5, <2>2 DEF FilesInv, CurrentInv, WorldInv
  <2>4. DiskInv'
    <3>1. \A g \in Handles : db[g].pc = "copy" => db'[g].pc = "copy"
      BY <1>2, <2>1
    <3> QED BY <1>1, <1>5, <2>2, <3>1 DEF DiskInv
  <2>5. CallsInv'
    <3> SUFFICES ASSUME NEW g \in Handles PROVE (CallInv(db[g]))'
      BY DEF CallsInv
    <3>1. CASE g \in dead
      BY <1>2, <3>1, GoneCall
    <3>2. CASE g \notin dead
      <4>1. db'[g] = db[g] /\ CallInv(db[g])
        BY <1>2, <1>5, <3>2 DEF CallsInv
      <4> QED BY <1>1, <2>2, <4>1, SameCall
    <3> QED BY <3>1, <3>2
  <2>6. AloneInv'
    <3> SUFFICES ASSUME NEW h \in Handles, NEW g \in Handles, (Repairs(db[h]))', g # h
                 PROVE  db'[g] = Gone
      BY DEF AloneInv
    <3>1. h \notin dead
      BY <1>2, GoneCall
    <3>2. Repairs(db[h])
      BY <1>2, <3>1
    <3>3. db[g] = Gone
      BY <1>5, <3>2 DEF AloneInv
    <3> QED BY <1>2, <3>3
  <2>7. BoundInv'
    <3>1. \A g \in Handles : db'[g].pc = "copy" => \A x \in db'[g].ents : OldEntry(x)
      BY <1>2 DEF OldEntry, Gone
    <3>2. \A x \in temps' \cup DOMAIN logs' \cup DOMAIN tables' :
             x \in 0..0 \/ x \in temps \cup DOMAIN logs \cup DOMAIN tables
      BY <1>1, <2>2
    <3>3. \A x \in DOMAIN logs' : \A y \in EntsOf(logs'[x]) : OldEntry(y)
      BY <1>1 DEF OldEntry
    <3>4. \A x \in DOMAIN tables' : \A y \in tables'[x].ents : OldEntry(y)
      BY <2>2 DEF OldEntry
    <3>5. 0 \in Nat
      OBVIOUS
    <3> QED BY <1>5, <3>1, <3>2, <3>3, <3>4, <3>5, BoundOn
  <2> QED BY <2>3, <2>4, <2>5, <2>6, <2>7 DEF WholeInv
<1> QED BY <1>6, <1>7

\* What a stop of the machine leaves of the logs
LEMMA CutLogs ==
    ASSUME FilesInv, NEW kept, logs' = Cut(logs, "ents", kept)
    PROVE  /\ DOMAIN logs' = DOMAIN logs
           /\ \A n \in DOMAIN logs :
                 /\ logs'[n] \in [ents : Seq(Nat), synced : Nat] /\ logs'[n].synced = Len(logs'[n].ents)
                 /\ SureOf(logs[n]) \subseteq SureOf(logs'[n]) /\ SureOf(logs'[n]) = EntsOf(logs'[n])
                 /\ EntsOf(logs'[n]) \subseteq EntsOf(logs[n])
<1> DEFINE left(n) == IF n \in kept THEN logs[n].ents ELSE SubSeq(logs[n].ents, 1, logs[n].synced)
<1>1. DOMAIN logs' = DOMAIN logs
  BY DEF Cut
<1>2. ASSUME NEW n \in DOMAIN logs
      PROVE  /\ logs'[n] \in [ents : Seq(Nat), synced : Nat] /\ logs'[n].synced = Len(logs'[n].ents)
             /\ SureOf(logs[n]) \subseteq SureOf(logs'[n]) /\ SureOf(logs'[n]) = EntsOf(logs'[n])
             /\ EntsOf(logs'[n]) \subseteq EntsOf(logs[n])
  <2>1. /\ logs[n] \in [ents : Seq(Nat), synced : Nat] /\ logs[n].ents \in Seq(Nat)
        /\ logs[n].synced \in 0..Len(logs[n].ents)
    BY DEF FilesInv
  <2> DEFINE L == left(n)
             m == logs'[n]
             all == logs[n].ents
             sure == SubSeq(all, 1, logs[n].synced)
  <2>2. m = [logs[n] EXCEPT !["ents"] = L, !.synced = Len(L)]
    BY Zenon DEF Cut
  <2>3. /\ L = all \/ L = sure
        /\ sure \in Seq(Nat) /\ ToSet(sure) \subseteq ToSet(all)
    BY <2>1, SetOfSubSeq
  <2>4. all \in Seq(Nat) /\ SureOf(logs[n]) = ToSet(sure) /\ EntsOf(logs[n]) = ToSet(all)
    BY <2>1 DEF SureOf, EntsOf
  <2> HIDE DEF L, sure, all
  <2>5. L \in Seq(Nat) /\ Len(L) \in Nat /\ Len(L) \in 0..Len(L)
    BY <2>3, <2>4
  <2>6. SubSeq(L, 1, Len(L)) = L
    BY <2>5, SetOfSubSeq
  <2>7. m = [ents |-> L, synced |-> Len(L)]
    BY <2>1, <2>2
  <2>8. m.ents = L /\ m.synced = Len(L) /\ m \in [ents : Seq(Nat), synced : Nat]
    BY <2>5, <2>7
  <2> HIDE DEF m
  <2>9. EntsOf(m) = ToSet(L) /\ SureOf(m) = ToSet(L)
    BY <2>6, <2>8, Zenon DEF EntsOf, SureOf
  <2>10. ToSet(L) = ToSet(all) \/ ToSet(L) = ToSet(sure)
    BY <2>3, Zenon
  <2>11. SureOf(logs[n]) \subseteq SureOf(m) /\ EntsOf(m) \subseteq EntsOf(logs[n])
    BY <2>3, <2>4, <2>9, <2>10
  <2> QED BY <2>8, <2>9, <2>11 DEF m
<1> QED BY <1>1, <1>2

\* ... and of the MANIFESTs
LEMMA CutManifests ==
    ASSUME FilesInv, NEW kept, manifests' = Cut(manifests, "recs", kept)
    PROVE  /\ DOMAIN manifests' = DOMAIN manifests
           /\ \A n \in DOMAIN manifests :
                 /\ manifests'[n] \in [recs : Seq(Edits), synced : Nat]
                 /\ manifests'[n].synced = Len(manifests'[n].recs)
                 /\ SureViewOf(manifests'[n]) = ViewOf(manifests'[n])
                 /\ \/ ViewOf(manifests'[n]) = ViewOf(manifests[n])
                    \/ ViewOf(manifests'[n]) = SureViewOf(manifests[n])
<1> DEFINE left(n) == IF n \in kept THEN manifests[n].recs
                                   ELSE SubSeq(manifests[n].recs, 1, manifests[n].synced)
<1>1. DOMAIN manifests' = DOMAIN manifests
  BY DEF Cut
<1>2. ASSUME NEW n \in DOMAIN manifests
      PROVE  /\ manifests'[n] \in [recs : Seq(Edits), synced : Nat]
             /\ manifests'[n].synced = Len(manifests'[n].recs)
             /\ SureViewOf(manifests'[n]) = ViewOf(manifests'[n])
             /\ \/ ViewOf(manifests'[n]) = ViewOf(manifests[n])
                \/ ViewOf(manifests'[n]) = SureViewOf(manifests[n])
  <2> DEFINE recs == manifests[n].recs
             sure == SubSeq(recs, 1, manifests[n].synced)
             m == manifests'[n]
             L == left(n)
  <2>1. /\ manifests[n] \in [recs : Seq(Edits), synced : Nat] /\ recs \in Seq(Edits)
        /\ manifests[n].synced \in 0..Len(recs)
    BY DEF FilesInv
  <2>2. m = [manifests[n] EXCEPT !["recs"] = L, !.synced = Len(L)]
    BY Zenon DEF Cut
  <2>3. L = recs \/ L = sure
    OBVIOUS
  <2>4. sure \in Seq(Edits)
    BY <2>1, Prefix
  <2> HIDE DEF L, sure, recs
  <2>5. L \in Seq(Edits) /\ Len(L) \in Nat /\ Len(L) \in 0..Len(L)
    BY <2>1, <2>3, <2>4
  <2>6. SubSeq(L, 1, Len(L)) = L
    BY <2>5, Prefix
  <2>7. m = [recs |-> L, synced |-> Len(L)]
    BY <2>1, <2>2
  <2>8. m.recs = L /\ m.synced = Len(L) /\ m \in [recs : Seq(Edits), synced : Nat]
    BY <2>5, <2>7
  <2> HIDE DEF m
  <2>9. ViewOf(m) = Replay(L) /\ SureViewOf(m) = Replay(L)
    BY <2>6, <2>8, Zenon DEF ViewOf, SureViewOf
  <2>10. ViewOf(manifests[n]) = Replay(recs) /\ SureViewOf(manifests[n]) = Replay(sure)
    BY Zenon DEF ViewOf, SureViewOf, recs, sure
  <2>11. Replay(L) = Replay(recs) \/ Replay(L) = Replay(sure)
    BY <2>3, Zenon
  <2> QED BY <2>8, <2>9, <2>10, <2>11 DEF m
<1> QED BY <1>1, <1>2

\* ... and of the tables
LEMMA CutTablesFacts ==
    ASSUME FilesInv, NEW kept, tables' = CutTables(kept)
    PROVE  /\ DOMAIN tables' = DOMAIN tables
           /\ \A n \in DOMAIN tables :
                 /\ tables'[n] \in [ents : SUBSET Nat, ok : BOOLEAN, synced : BOOLEAN]
                 /\ tables'[n].ents \subseteq tables[n].ents
                 /\ IsSure(tables[n]) => IsSure(tables'[n]) /\ tables'[n].ents = tables[n].ents
<1>1. DOMAIN tables' = DOMAIN tables
  BY DEF CutTables
<1>2. ASSUME NEW n \in DOMAIN tables
      PROVE  /\ tables'[n] \in [ents : SUBSET Nat, ok : BOOLEAN, synced : BOOLEAN]
             /\ tables'[n].ents \subseteq tables[n].ents
             /\ IsSure(tables[n]) => IsSure(tables'[n]) /\ tables'[n].ents = tables[n].ents
  <2>1. tables[n] \in [ents : SUBSET Nat, ok : BOOLEAN, synced : BOOLEAN]
    BY DEF FilesInv
  <2>2. tables'[n] = IF n \in kept \/ tables[n].synced THEN [tables[n] EXCEPT !.synced = TRUE] ELSE Torn
    BY DEF CutTables
  <2>3. /\ Torn \in [ents : SUBSET Nat, ok : BOOLEAN, synced : BOOLEAN] /\ Torn.ents = {}
    BY DEF Torn
  <2>4. CASE n \in kept \/ tables[n].synced
    BY <2>1, <2>2, <2>4 DEF IsSure
  <2>5. CASE ~(n \in kept \/ tables[n].synced)
    <3>1. tables'[n] = Torn
      BY <2>2, <2>5
    <3> QED BY <2>3, <2>5, <3>1 DEF IsSure
  <2> QED BY <2>4, <2>5
<1> QED BY <1>1, <1>2

\* Every entry that is safe is in a file that survives a stop of the machine.
LEMMA SafeOnDisk ==
    ASSUME Sane
    PROVE  HoldSafe(safe, DOMAIN tables, DOMAIN logs, tables, logs)
<1>1. CASE \E h \in Handles : db[h].pc = "copy"
  <2>1. PICK h \in Handles : db[h].pc = "copy"
    BY <1>1
  <2>2. RepairInv(db[h])
    BY <2>1, RepairFacts DEF Repairs
  <2> QED BY <2>1, <2>2 DEF RepairInv, HoldSafe
<1>2. CASE \A h \in Handles : db[h].pc # "copy"
  BY <1>2 DEF Sane, WholeInv, DiskInv, Keeps
<1> QED BY <1>1, <1>2

\* Where the sure parts stay
LEMMA SafeStays ==
    ASSUME NEW A, NEW B, B \subseteq A, NEW F, NEW K, HoldSafe(A, F, K, tables, logs),
           DOMAIN tables' = DOMAIN tables, DOMAIN logs' = DOMAIN logs,
           \A n \in DOMAIN tables :
              IsSure(tables[n]) => IsSure(tables'[n]) /\ tables'[n].ents = tables[n].ents,
           \A n \in DOMAIN logs : SureOf(logs[n]) \subseteq SureOf(logs'[n])
    PROVE  HoldSafe(B, F, K, tables', logs')
<1> SUFFICES ASSUME NEW a \in B
             PROVE  SureInTables(a, F, tables') \/ SureInLogs(a, K, logs')
  BY DEF HoldSafe
<1>1. CASE SureInTables(a, F, tables)
  BY <1>1 DEF SureInTables
<1>2. CASE SureInLogs(a, K, logs)
  BY <1>2 DEF SureInLogs
<1> QED BY <1>1, <1>2 DEF HoldSafe

LEMMA MachineCrashKeeps ==
    ASSUME Sane, MachineCrash
    PROVE  WholeInv'
<1>1. PICK keptl, keptm, keptt :
         /\ logs' = Cut(logs, "ents", keptl) /\ manifests' = Cut(manifests, "recs", keptm)
         /\ tables' = CutTables(keptt)
  BY DEF MachineCrash
<1>2. /\ db' = [h \in Handles |-> Gone]
      /\ acked' = acked \cap Recoverable(manifests', current, logs', tables')
      /\ safe' = safe \cap acked' /\ UNCHANGED <<current, temps, undone>>
  BY DEF MachineCrash
<1>3. FilesInv /\ BoundInv /\ CurrentInv /\ WorldInv /\ acked \subseteq Nat /\ safe \subseteq acked
  BY DEF Sane, WholeInv, FilesInv
<1>4. /\ DOMAIN logs' = DOMAIN logs
      /\ \A n \in DOMAIN logs :
            /\ logs'[n] \in [ents : Seq(Nat), synced : Nat] /\ logs'[n].synced = Len(logs'[n].ents)
            /\ SureOf(logs[n]) \subseteq SureOf(logs'[n]) /\ SureOf(logs'[n]) = EntsOf(logs'[n])
            /\ EntsOf(logs'[n]) \subseteq EntsOf(logs[n])
  BY <1>1, <1>3, CutLogs
<1>5. /\ DOMAIN manifests' = DOMAIN manifests
      /\ \A n \in DOMAIN manifests :
            /\ manifests'[n] \in [recs : Seq(Edits), synced : Nat]
            /\ manifests'[n].synced = Len(manifests'[n].recs)
            /\ SureViewOf(manifests'[n]) = ViewOf(manifests'[n])
            /\ \/ ViewOf(manifests'[n]) = ViewOf(manifests[n])
               \/ ViewOf(manifests'[n]) = SureViewOf(manifests[n])
  BY <1>1, <1>3, CutManifests
<1>6. /\ DOMAIN tables' = DOMAIN tables
      /\ \A n \in DOMAIN tables :
            /\ tables'[n] \in [ents : SUBSET Nat, ok : BOOLEAN, synced : BOOLEAN]
            /\ tables'[n].ents \subseteq tables[n].ents
            /\ IsSure(tables[n]) => IsSure(tables'[n]) /\ tables'[n].ents = tables[n].ents
  BY <1>1, <1>3, CutTablesFacts
<1>7. CallsInv' /\ AloneInv' /\ \A g \in Handles : db'[g].pc # "copy"
  BY <1>2, AllIdle
<1>8. acked' \subseteq acked /\ safe' \subseteq safe /\ safe' \subseteq acked'
  BY <1>2
<1>9. FilesInv'
  <2>1. \A n \in DOMAIN manifests' : /\ manifests'[n] \in [recs : Seq(Edits), synced : Nat]
                                     /\ manifests'[n].synced <= Len(manifests'[n].recs)
    BY <1>5
  <2>2. \A n \in DOMAIN logs' : /\ logs'[n] \in [ents : Seq(Nat), synced : Nat]
                                /\ logs'[n].synced <= Len(logs'[n].ents)
    BY <1>4
  <2> QED BY <1>2, <1>3, <1>4, <1>5, <1>6, <1>8, <2>1, <2>2 DEF FilesInv
<1>10. BoundInv'
  <2>1. \A n \in temps' \cup DOMAIN logs' \cup DOMAIN tables' :
           n \in 0..0 \/ n \in temps \cup DOMAIN logs \cup DOMAIN tables
    BY <1>2, <1>4, <1>6
  <2>2. \A n \in DOMAIN logs' : \A e \in EntsOf(logs'[n]) : OldEntry(e)
    BY <1>4 DEF OldEntry
  <2>3. \A n \in DOMAIN tables' : \A e \in tables'[n].ents : OldEntry(e)
    BY <1>6 DEF OldEntry
  <2>4. 0 \in Nat
    OBVIOUS
  <2> QED BY <1>3, <1>7, <2>1, <2>2, <2>3, <2>4, BoundOn
<1> DEFINE c == Contents(manifests', current)
<1>11. \A a \in acked' : c.full /\ (InTables(a, c.files, tables') \/ InLogs(a, From(c.log), logs'))
  <2> SUFFICES ASSUME NEW a \in acked'
               PROVE  c.full /\ (InTables(a, c.files, tables') \/ InLogs(a, From(c.log), logs'))
    OBVIOUS
  <2>1. a \in Recoverable(manifests', current, logs', tables')
    BY <1>2
  <2>2. c.full
    BY <2>1 DEF Recoverable
  <2>3. DOMAIN logs' \subseteq Nat
    BY <1>9 DEF FilesInv
  <2>4. InTables(a, c.files, tables') \/ InLogs(a, From(c.log), logs')
    BY <2>1, <2>2, <2>3, RecoverableIs
  <2> QED BY <2>2, <2>4
<1>12. c.full => current \in DOMAIN manifests
  BY <1>5, ReplayOfNothing DEF Contents
<1>13. current \in DOMAIN manifests => c = ViewOf(manifests'[current])
  BY <1>5 DEF Contents, ViewOf
<1> HIDE DEF c
<1>14. DiskInv'
  <2>1. HoldSafe(safe', DOMAIN tables, DOMAIN logs, tables', logs')
    BY <1>4, <1>6, <1>8, SafeOnDisk, SafeStays
  <2>2. Hold(acked', DOMAIN tables', DOMAIN logs', tables', logs')
    BY <1>11 DEF Hold, InTables, InLogs
  <2> QED BY <1>4, <1>6, <2>1, <2>2 DEF DiskInv, Keeps
<1>15. CurrentInv'
  <2> SUFFICES ASSUME current \in DOMAIN manifests PROVE CurrentInv'
    BY <1>2, <1>5 DEF CurrentInv
  <2> DEFINE v == ViewOf(manifests[current])
             s == SureViewOf(manifests[current])
             w == ViewOf(manifests'[current])
  <2>1. (w = v \/ w = s) /\ SureViewOf(manifests'[current]) = w
    BY <1>5
  <2>2. /\ NumbersOf(v) /\ NumbersOf(s)
        /\ v.full => v.next > 0 /\ (current < v.next \/ current = 1)
        /\ s.full => s.next > 0 /\ (current < s.next \/ current = 1)
    BY <1>3 DEF CurrentInv
  <2> HIDE DEF v, s, w
  <2>3. NumbersOf(w) /\ (w.full => w.next > 0 /\ (current < w.next \/ current = 1))
    BY <2>1, <2>2
  <2>4. w.full => \A n \in w.files : n < w.next
    BY <2>3 DEF NumbersOf
  <2>5. /\ NumbersOf(w)
        /\ w.full => /\ w.next > 0 /\ (current < w.next \/ current = 1)
                     /\ \A n \in w.files : n < w.next
    BY <2>1, <2>2, <2>4
  <2> QED BY <1>2, <1>5, <2>1, <2>5 DEF CurrentInv, w
<1>16. WorldInv'
  <2> SUFFICES ASSUME ~undone PROVE WorldInv'
    BY <1>2 DEF WorldInv
  <2> DEFINE v == ViewOf(manifests[current])
             s == SureViewOf(manifests[current])
             w == ViewOf(manifests'[current])
  <2>1. ASSUME current \in DOMAIN manifests
        PROVE  /\ SureViewOf(manifests'[current]) = w /\ c = w
               /\ current > 1 => w.full
               /\ w.full => GoodTables(w.files, w.last, tables')
               /\ w.full => HoldSafe(safe', w.files, From(w.log), tables', logs')
               /\ w.full /\ w.next = 1 => acked' = {}
    <3>1. (w = v \/ w = s) /\ SureViewOf(manifests'[current]) = w /\ c = w
      BY <1>5, <1>13, <2>1
    <3>2. /\ current > 1 => v.full /\ s.full
          /\ v.full => GoodTables(v.files, v.last, tables)
          /\ s.full => GoodTables(s.files, s.last, tables)
          /\ s.full => HoldSafe(safe, s.files, From(s.log), tables, logs)
          /\ v.full /\ v.next = 1 => acked = {}
          /\ s.full /\ s.next = 1 => acked = {}
      BY <1>3, <2>1 DEF WorldInv
    <3>3. v.full => HoldSafe(safe, v.files, From(v.log), tables, logs)
      <4>1. Contents(manifests, current) = v
        BY <2>1 DEF Contents, ViewOf
      <4>2. Lists(v, acked, safe, tables, logs)
        BY <1>3, <4>1 DEF WorldInv
      <4> HIDE DEF v
      <4> QED BY <4>2 DEF Lists, Keeps
    <3> HIDE DEF v, s, w
    <3>4. /\ current > 1 => w.full
          /\ w.full => GoodTables(w.files, w.last, tables)
          /\ w.full => HoldSafe(safe, w.files, From(w.log), tables, logs)
          /\ w.full /\ w.next = 1 => acked = {}
      BY <3>1, <3>2, <3>3
    <3>5. w.full => GoodTables(w.files, w.last, tables')
      BY <1>6, <3>4 DEF GoodTables
    <3>6. w.full => HoldSafe(safe', w.files, From(w.log), tables', logs')
      BY <1>4, <1>6, <1>8, <3>4, SafeStays
    <3> QED BY <1>8, <3>1, <3>4, <3>5, <3>6
  <2>2. current > 1 => current \in DOMAIN manifests
    BY <1>3 DEF WorldInv
  <2>3. Lists(c, acked', safe', tables', logs')
    <3>1. CASE c.full
      <4>1. HoldSafe(safe', c.files, From(c.log), tables', logs')
        BY <1>12, <2>1, <3>1
      <4> QED BY <1>11, <3>1, <4>1 DEF Lists, Keeps, Hold
    <3>2. CASE ~c.full
      <4>1. acked' = {} /\ safe' = {}
        BY <1>8, <1>11, <3>2
      <4> QED BY <3>2, <4>1 DEF Lists
    <3> QED BY <3>1, <3>2
  <2> HIDE DEF w
  <2>4. ~undone' =>
        /\ current' > 1 => /\ current' \in DOMAIN manifests' /\ w.full
        /\ current' \in DOMAIN manifests' =>
              /\ w.full => GoodTables(w.files, w.last, tables')
              /\ w.full => HoldSafe(safe', w.files, From(w.log), tables', logs')
              /\ w.full /\ w.next = 1 => acked' = {}
        /\ Lists(c, acked', safe', tables', logs')
    BY <1>2, <1>5, <2>1, <2>2, <2>3
  <2>5. current' \in DOMAIN manifests' => SureViewOf(manifests'[current']) = w
    BY <1>2, <1>5, <2>1
  <2> QED BY <1>2, <2>4, <2>5 DEF WorldInv, w, c
<1> QED BY <1>7, <1>9, <1>10, <1>14, <1>15, <1>16 DEF WholeInv

LEMMA DamageKeeps ==
    ASSUME Sane, NEW k \in DOMAIN tables, Damage(k)
    PROVE  WholeInv'
<1> DEFINE old == tables[k].ents
<1>1. /\ \A h \in Handles : db[h] = Gone
      /\ UNCHANGED <<manifests, current, temps, logs, db, undone>> /\ safe' = safe \ old
  BY DEF Damage, nameVars
<1>2. PICK E \in SUBSET old :
         /\ tables' = [tables EXCEPT ![k].ents = E, ![k].ok = FALSE]
         /\ acked' = acked \ (old \ E)
  BY DEF Damage
<1>3. FilesInv /\ BoundInv /\ DiskInv /\ CurrentInv /\ WorldInv /\ CallsInv /\ AloneInv
  BY DEF Sane, WholeInv
<1>4. /\ tables[k] \in [ents : SUBSET Nat, ok : BOOLEAN, synced : BOOLEAN] /\ safe \subseteq acked
  BY <1>3 DEF FilesInv
<1>5. /\ DOMAIN tables' = DOMAIN tables
      /\ tables'[k].ents = E /\ tables'[k] \in [ents : SUBSET Nat, ok : BOOLEAN, synced : BOOLEAN]
      /\ \A x \in DOMAIN tables : x # k => tables'[x] = tables[x]
  <2>1. E \in SUBSET Nat
    BY <1>4
  <2>2. DOMAIN tables' = DOMAIN tables /\ \A x \in DOMAIN tables : x # k => tables'[x] = tables[x]
    BY <1>2
  <2>3. tables'[k] = [ents |-> E, ok |-> FALSE, synced |-> tables[k].synced]
    BY <1>2, <1>4
  <2> QED BY <1>4, <2>1, <2>2, <2>3
<1> HIDE DEF old
<1>6. /\ \A x \in DOMAIN tables : tables'[x].ents \subseteq tables[x].ents
      /\ acked' \subseteq acked /\ safe' \subseteq safe /\ safe' \subseteq acked'
  BY <1>1, <1>2, <1>4, <1>5 DEF old
<1>7. \A h \in Handles : db[h].pc # "copy" /\ db'[h].pc # "copy"
  BY <1>1 DEF Gone
<1>8. FilesInv'
  <2>1. \A x \in DOMAIN tables' : tables'[x] \in [ents : SUBSET Nat, ok : BOOLEAN, synced : BOOLEAN]
    BY <1>3, <1>5 DEF FilesInv
  <2> QED BY <1>1, <1>3, <1>5, <1>6, <2>1 DEF FilesInv
<1>9. CurrentInv'
  BY <1>1, <1>3 DEF CurrentInv
<1>10. BoundInv'
  <2>1. \A n \in temps' \cup DOMAIN logs' \cup DOMAIN tables' :
           n \in 0..0 \/ n \in temps \cup DOMAIN logs \cup DOMAIN tables
    BY <1>1, <1>5
  <2>2. \A n \in DOMAIN logs' : \A e \in EntsOf(logs'[n]) : OldEntry(e)
    BY <1>1 DEF OldEntry
  <2>3. \A n \in DOMAIN tables' : \A e \in tables'[n].ents : OldEntry(e)
    BY <1>5, <1>6 DEF OldEntry
  <2>4. 0 \in Nat
    OBVIOUS
  <2> QED BY <1>3, <1>7, <2>1, <2>2, <2>3, <2>4, BoundOn
\* Nothing else goes than what nobody is promised any more.
<1>11. ASSUME NEW F, NEW K, Hold(acked, F, K, tables, logs)
       PROVE  Hold(acked', F, K, tables', logs')
  <2> SUFFICES ASSUME NEW a \in acked' PROVE InTables(a, F, tables') \/ InLogs(a, K, logs')
    BY DEF Hold
  <2>1. a \in acked /\ (a \in old => a \in E)
    BY <1>2
  <2>2. CASE InTables(a, F, tables)
    <3>1. PICK n \in DOMAIN tables : n \in F /\ a \in tables[n].ents
      BY <2>2 DEF InTables
    <3>2. a \in tables'[n].ents
      BY <1>5, <2>1, <3>1 DEF old
    <3> QED BY <1>5, <3>1, <3>2 DEF InTables
  <2>3. CASE InLogs(a, K, logs)
    BY <1>1, <2>3
  <2> QED BY <1>11, <2>1, <2>2, <2>3 DEF Hold
<1>12. ASSUME NEW F, NEW K, HoldSafe(safe, F, K, tables, logs)
       PROVE  HoldSafe(safe', F, K, tables', logs')
  <2> SUFFICES ASSUME NEW a \in safe' PROVE SureInTables(a, F, tables') \/ SureInLogs(a, K, logs')
    BY DEF HoldSafe
  <2>1. a \in safe /\ a \notin old
    BY <1>1
  <2>2. CASE SureInTables(a, F, tables)
    <3>1. PICK n \in DOMAIN tables : n \in F /\ IsSure(tables[n]) /\ a \in tables[n].ents
      BY <2>2 DEF SureInTables
    <3>2. tables'[n] = tables[n]
      BY <1>5, <2>1, <3>1 DEF old
    <3> QED BY <1>5, <3>1, <3>2 DEF SureInTables
  <2>3. CASE SureInLogs(a, K, logs)
    BY <1>1, <2>3
  <2> QED BY <1>12, <2>1, <2>2, <2>3 DEF HoldSafe
<1>13. DiskInv'
  <2>1. Hold(acked, DOMAIN tables, DOMAIN logs, tables, logs)
        /\ HoldSafe(safe, DOMAIN tables, DOMAIN logs, tables, logs)
    BY <1>3, <1>7 DEF DiskInv, Keeps
  <2>2. Hold(acked', DOMAIN tables, DOMAIN logs, tables', logs')
    BY <1>11, <2>1
  <2>3. HoldSafe(safe', DOMAIN tables, DOMAIN logs, tables', logs')
    BY <1>12, <2>1
  <2> QED BY <1>1, <1>5, <2>2, <2>3 DEF DiskInv, Keeps
<1>14. WorldInv'
  <2> SUFFICES ASSUME ~undone PROVE WorldInv'
    BY <1>1 DEF WorldInv
  <2> DEFINE v == ViewOf(manifests[current])
             s == SureViewOf(manifests[current])
             c == Contents(manifests, current)
  <2>1. /\ current > 1 => current \in DOMAIN manifests /\ v.full /\ s.full
        /\ current \in DOMAIN manifests =>
              /\ v.full => GoodTables(v.files, v.last, tables)
              /\ s.full => GoodTables(s.files, s.last, tables)
              /\ s.full => HoldSafe(safe, s.files, From(s.log), tables, logs)
              /\ v.full /\ v.next = 1 => acked = {}
              /\ s.full /\ s.next = 1 => acked = {}
        /\ Lists(c, acked, safe, tables, logs)
    BY <1>3 DEF WorldInv
  <2> HIDE DEF v, s, c
  <2>2. \A F, n : GoodTables(F, n, tables) => GoodTables(F, n, tables')
    BY <1>5, <1>6 DEF GoodTables
  <2>3. HoldSafe(safe, s.files, From(s.log), tables, logs)
            => HoldSafe(safe', s.files, From(s.log), tables', logs')
    BY <1>12
  <2>4. Lists(c, acked', safe', tables', logs')
    <3>1. CASE c.full
      <4>1. Hold(acked, c.files, From(c.log), tables, logs) /\ HoldSafe(safe, c.files, From(c.log), tables, logs)
        BY <2>1, <3>1 DEF Lists, Keeps
      <4>2. Hold(acked', c.files, From(c.log), tables', logs')
        BY <1>11, <4>1
      <4>3. HoldSafe(safe', c.files, From(c.log), tables', logs')
        BY <1>12, <4>1
      <4> QED BY <3>1, <4>2, <4>3 DEF Lists, Keeps
    <3>2. CASE ~c.full
      BY <1>6, <2>1, <3>2 DEF Lists
    <3> QED BY <3>1, <3>2
  <2>5. /\ current > 1 => current \in DOMAIN manifests /\ v.full /\ s.full
        /\ current \in DOMAIN manifests =>
              /\ v.full => GoodTables(v.files, v.last, tables')
              /\ s.full => GoodTables(s.files, s.last, tables')
              /\ s.full => HoldSafe(safe', s.files, From(s.log), tables', logs')
              /\ v.full /\ v.next = 1 => acked' = {}
              /\ s.full /\ s.next = 1 => acked' = {}
    BY <1>6, <2>1, <2>2, <2>3
  <2>6. /\ current' = current /\ manifests' = manifests /\ Contents(manifests', current') = c
    BY <1>1 DEF c
  <2> QED BY <2>4, <2>5, <2>6 DEF WorldInv, v, s
<1>15. CallsInv' /\ AloneInv'
  <2>1. \A g \in Handles : db'[g] = Gone
    BY <1>1
  <2> QED BY <2>1, AllIdle
<1> QED BY <1>8, <1>9, <1>10, <1>13, <1>14, <1>15 DEF WholeInv

LEMMA WholeInit == Init => WholeInv
<1> SUFFICES ASSUME Init PROVE WholeInv
  OBVIOUS
<1>1. /\ manifests = <<>> /\ current = 0 /\ temps = {} /\ logs = <<>> /\ tables = <<>>
      /\ \A h \in Handles : db[h] = Gone
      /\ acked = {} /\ safe = {} /\ undone = FALSE
  BY DEF Init
<1>2. DOMAIN manifests = {} /\ DOMAIN logs = {} /\ DOMAIN tables = {}
  BY <1>1
<1>3. FilesInv
  BY <1>1, <1>2 DEF FilesInv
<1>4. BoundInv
  <2>1. 0 \in Nat
    OBVIOUS
  <2> QED BY <1>1, <1>2, <2>1 DEF BoundInv, Gone
<1>5. DiskInv
  BY <1>1 DEF DiskInv, Keeps, Hold, HoldSafe
<1>6. CurrentInv
  BY <1>2 DEF CurrentInv
<1>7. WorldInv
  <2>1. Contents(manifests, current) = Replay(<<>>)
    BY <1>2, Zenon DEF Contents
  <2> DEFINE c == Contents(manifests, current)
  <2>2. ~c.full
    <3> HIDE DEF c
    <3>1. c = Replay(<<>>)
      BY <2>1 DEF c
    <3> QED BY <3>1, ReplayOfNothing
  <2> HIDE DEF c
  <2>3. Lists(c, acked, safe, tables, logs)
    BY <1>1, <2>2 DEF Lists
  <2> QED BY <1>1, <1>2, <2>3 DEF WorldInv, c
<1>8. CallsInv /\ AloneInv
  BY <1>1 DEF CallsInv, AloneInv, CallInv, Opening, Working, Repairs, Creating, Gone
<1> QED BY <1>3, <1>4, <1>5, <1>6, <1>7, <1>8 DEF WholeInv

LEMMA WholeStep ==
    OwnerInv /\ OwnerInv' /\ NoTwoOwners /\ NoTwoOwners' /\ WholeInv /\ [Next]_vars => WholeInv'
<1> SUFFICES ASSUME OwnerInv, OwnerInv', NoTwoOwners, NoTwoOwners', WholeInv, [Next]_vars
             PROVE  WholeInv'
  OBVIOUS
<1>0. Sane
  BY DEF Sane
<1>1. CASE UNCHANGED vars
  <2>1. UNCHANGED <<manifests, current, temps, logs, tables, acked, safe, undone, db>>
    BY <1>1 DEF vars, diskVars, nameVars, tableVars, goalVars
  <2>2. FilesInv' /\ BoundInv' /\ DiskInv' /\ CurrentInv' /\ WorldInv'
    BY <2>1 DEF WholeInv, FilesInv, BoundInv, DiskInv, CurrentInv, WorldInv
  <2>3. CallsInv' /\ AloneInv'
    BY <2>1, SameCall DEF WholeInv, CallsInv, AloneInv, Repairs
  <2> QED BY <2>2, <2>3 DEF WholeInv
<1>2. ASSUME NEW h \in Handles, OpenStep(h) PROVE WholeInv'
  <2>1. CASE Open(h) \/ NewDB(h) \/ ReadManifest(h) \/ RecoverLog(h) \/ OpenLog(h)
    BY <1>0, <2>1, OpenKeeps, NewDBKeeps, ReadManifestKeeps, RecoverLogKeeps, OpenLogKeeps
  <2>2. CASE WriteSnapshot(h) \/ EditFails(h) \/ WriteTemp(h) \/ RenameTemp(h) \/ SetCurrentFails(h)
    BY <1>0, <2>2, WriteSnapshotKeeps, EditFailsKeeps, WriteTempKeeps, RenameTempKeeps,
       SetCurrentFailsKeeps
  <2>3. CASE LogEdit(h)
    BY <1>0, <2>3, LogNewKeeps, LogJobKeeps
  <2>4. CASE DeleteObsoleteFile(h) \/ EndClean(h)
    BY <1>0, <2>4, DeleteObsoleteKeeps, IdleWorkKeeps
  <2> QED BY <1>2, <2>1, <2>2, <2>3, <2>4 DEF OpenStep
<1>3. ASSUME NEW h \in Handles, WorldStep(h) PROVE WholeInv'
  BY <1>0, <1>3, WriteKeeps, SwitchLogKeeps, IdleWorkKeeps, BuildTableKeeps, EndKeeps DEF WorldStep
<1>4. ASSUME NEW h \in Handles, DestroyStep(h) PROVE WholeInv'
  BY <1>0, <1>4, ListKeeps, LockingKeeps, DestroyFileKeeps, EndKeeps DEF DestroyStep
<1>5. ASSUME NEW h \in Handles, RepairStep(h) PROVE WholeInv'
  <2>1. CASE \/ FindFiles(h) \/ ConvertLogToTable(h) \/ ArchiveLog(h) \/ ScanTable(h)
             \/ ArchiveTable(h)
    BY <1>0, <2>1, FindFilesKeeps, ConvertKeeps, ArchiveLogKeeps, ScanTableKeeps, ArchiveTableKeeps
  <2>2. CASE RepairTable(h) \/ WriteDescriptor(h) \/ ArchiveManifest(h) \/ InstallDescriptor(h)
    BY <1>0, <2>2, RepairTableKeeps, WriteDescriptorKeeps, ArchiveManifestKeeps,
       InstallDescriptorKeeps
  <2> QED BY <1>5, <2>1, <2>2 DEF RepairStep
<1>6. ASSUME NEW h \in Handles, LockStep(h) PROVE WholeInv'
  BY <1>0, <1>6, LockingKeeps, SetLockKeeps DEF LockStep
<1> QED BY <1>0, <1>1, <1>2, <1>3, <1>4, <1>5, <1>6, CrashKeeps, MachineCrashKeeps, DamageKeeps DEF Next

----------------------------------------------------------------------------
(* What follows for the files.                                             *)

\* After a stop of the machine CURRENT leads to what was synced of its MANIFEST.
LEMMA AfterCut ==
    ASSUME FilesInv, current \in DOMAIN manifests
    PROVE  Contents(Cut(manifests, "recs", {}), current) = SureViewOf(manifests[current])
<1> DEFINE ms == Cut(manifests, "recs", {})
<1>1. DOMAIN ms = DOMAIN manifests
  BY DEF Cut
<1>2. ms[current].recs = SubSeq(manifests[current].recs, 1, manifests[current].synced)
  BY DEF Cut, FilesInv
<1> HIDE DEF ms
<1>3. Contents(ms, current) = Replay(ms[current].recs)
  BY <1>1 DEF Contents
<1> QED BY <1>2, <1>3, Zenon DEF SureViewOf, ms

LEMMA NothingLostFollows == WholeInv => NothingIsLost
<1> SUFFICES ASSUME WholeInv, ~undone
             PROVE  /\ acked \subseteq Recoverable(manifests, current, logs, tables)
                    /\ current # 1 => safe \subseteq OnDisk(Cut(manifests, "recs", {}))
  BY DEF NothingIsLost
<1>1. FilesInv /\ WorldInv /\ Lists(Contents(manifests, current), acked, safe, tables, logs)
  BY DEF WholeInv, WorldInv
<1> DEFINE c  == Contents(manifests, current)
           s  == SureViewOf(manifests[current])
           ms == Cut(manifests, "recs", {})
<1>2. ASSUME NEW a \in acked PROVE a \in Recoverable(manifests, current, logs, tables)
  <2>1. c.full /\ (InTables(a, c.files, tables) \/ InLogs(a, From(c.log), logs))
    <3> HIDE DEF c
    <3>1. Lists(c, acked, safe, tables, logs)
      BY <1>1 DEF c
    <3> QED BY <1>2, <3>1 DEF Lists, Keeps, Hold
  <2>2. DOMAIN logs \subseteq Nat
    BY <1>1 DEF FilesInv
  <2> QED BY <2>1, <2>2, RecoverableIs
<1>3. ASSUME current # 1, NEW a \in safe PROVE a \in OnDisk(ms)
  <2>1. CASE current > 1
    <3>1. current \in DOMAIN manifests /\ s.full /\ HoldSafe(safe, s.files, From(s.log), tables, logs)
      BY <1>1, <2>1 DEF WorldInv
    <3>2. Contents(ms, current) = s
      BY <1>1, <3>1, AfterCut
    <3> HIDE DEF ms, s
    <3>3. SureInTables(a, s.files, tables) \/ SureInLogs(a, From(s.log), logs)
      BY <1>3, <3>1 DEF HoldSafe
    <3> QED BY <1>1, <3>1, <3>2, <3>3, OnDiskIs
  <2>2. CASE ~(current > 1)
    <3>1. current \notin DOMAIN manifests
      BY <1>1, <1>3, <2>2 DEF FilesInv
    <3>2. c = Replay(<<>>)
      BY <3>1, Zenon DEF Contents
    <3> HIDE DEF c
    <3>3. ~c.full
      BY <3>2, ReplayOfNothing
    <3>4. Lists(c, acked, safe, tables, logs)
      BY <1>1 DEF c
    <3> QED BY <1>3, <3>3, <3>4 DEF Lists
  <2> QED BY <2>1, <2>2
<1> QED BY <1>2, <1>3

LEMMA CurrentWholeFollows == WholeInv => CurrentIsWhole
<1> SUFFICES ASSUME WholeInv, ~undone, current > 1
             PROVE  LET s == Contents(Cut(manifests, "recs", {}), current)
                    IN  s.full /\ s.files \subseteq DOMAIN tables
  BY DEF CurrentIsWhole
<1> DEFINE s == SureViewOf(manifests[current])
<1>1. /\ FilesInv /\ current \in DOMAIN manifests /\ s.full /\ GoodTables(s.files, s.last, tables)
  BY DEF WholeInv, WorldInv
<1>2. s.files \subseteq DOMAIN tables
  <2> HIDE DEF s
  <2> QED BY <1>1 DEF GoodTables
<1>3. Contents(Cut(manifests, "recs", {}), current) = s
  BY <1>1, AfterCut
<1> QED BY <1>1, <1>2, <1>3

LEMMA NumbersFreshFollows == WholeInv => NumbersAreFresh
<1> SUFFICES ASSUME WholeInv, NEW h \in Handles, db[h].pc \in {"clean", "open"}
             PROVE  /\ ~undone => \A e \in Recoverable(manifests, current, logs, tables) :
                                     e <= db[h].last
                    /\ \A n \in db[h].files \cup {db[h].log, db[h].mfile} : n < db[h].next
                    /\ current = db[h].mfile
  BY DEF NumbersAreFresh
<1> DEFINE d == db[h]
           v == ViewOf(manifests[current])
<1>1. FilesInv /\ CurrentInv /\ WorldInv /\ WorkingInv(d)
  BY DEF WholeInv, CallsInv, CallInv, Working
<1>2. /\ SessionType(d) /\ d.mfile = current /\ current \in DOMAIN manifests
      /\ v.full /\ v.last <= d.last
      /\ \A n \in DOMAIN logs : n >= v.log => \A e \in EntsOf(logs[n]) : e <= d.last
  BY <1>1 DEF WorkingInv
<1>3. \A n \in d.files \cup {d.log, d.mfile} : n < d.next
  BY <1>2 DEF SessionType
<1>4. ASSUME ~undone, NEW e \in Recoverable(manifests, current, logs, tables)
      PROVE  e <= d.last
  <2>1. Contents(manifests, current) = v
    BY <1>2 DEF Contents, ViewOf
  <2>2. GoodTables(v.files, v.last, tables) /\ NumbersOf(v) /\ d.last \in Nat /\ DOMAIN logs \subseteq Nat
    BY <1>1, <1>2, <1>4 DEF WorldInv, CurrentInv, FilesInv, SessionType
  <2>3. InTables(e, v.files, tables) \/ InLogs(e, From(v.log), logs)
    BY <1>2, <1>4, <2>1, <2>2, RecoverableIs
  <2> HIDE DEF v, d
  <2>4. CASE InTables(e, v.files, tables)
    <3>1. PICK n \in DOMAIN tables : n \in v.files /\ e \in tables[n].ents
      BY <2>4 DEF InTables
    <3>2. e <= v.last /\ e \in Nat /\ v.last \in Nat
      BY <1>1, <1>2, <2>2, <3>1 DEF GoodTables, FilesInv, NumbersOf
    <3> QED BY <1>2, <2>2, <3>2
  <2>5. CASE InLogs(e, From(v.log), logs)
    BY <1>2, <2>5 DEF InLogs, From
  <2> QED BY <2>3, <2>4, <2>5
<1> QED BY <1>2, <1>3, <1>4

----------------------------------------------------------------------------
(* Theorems.                                                               *)

(* What all of the following rests on: as long as no two calls own the world,
   the MANIFEST of CURRENT names the tables that are there, and logs from a
   number on, that hold everything that was written, and each call knows of
   its part of the files what it relies on, whatever files there are from
   calls that failed and processes that ended. *)
THEOREM WorldInvariant == Spec /\ []NoTwoOwners => []WholeInv
<1>1. Init => WholeInv
  BY WholeInit
<1>2. OwnerInv /\ OwnerInv' /\ NoTwoOwners /\ NoTwoOwners' /\ WholeInv /\ [Next]_vars => WholeInv'
  BY WholeStep
<1> QED BY <1>1, <1>2, OwnerInvariant, PTL DEF Spec

(* A world that has never two owners loses nothing that was written, at no
   step of an Open(), a flush, a merge or their clean-up, and nothing that was
   written with sync when the machine stops: the order of LogAndApply(),
   SetCurrentFile() and DeleteObsoleteFiles(), and what Recover() makes of
   what it finds. *)
THEOREM WorldKeepsItsEntries == Spec /\ []NoTwoOwners => []NothingIsLost
BY WorldInvariant, NothingLostFollows, PTL

(* CURRENT of such a world leads to a MANIFEST with all its numbers, and its
   tables are there, even after a stop of the machine: the next Open() does
   not fail for want of them. *)
THEOREM CurrentLeadsToTheWorld == Spec /\ []NoTwoOwners => []CurrentIsWhole
BY WorldInvariant, CurrentWholeFollows, PTL

(* An open world of that kind gives out no number of a file or an entry that
   it has given out before (VersionSet::NewFileNumber(), MarkFileNumberUsed(),
   SetLastSequence()). *)
THEOREM NoNumberIsGivenTwice == Spec /\ []NoTwoOwners => []NumbersAreFresh
BY WorldInvariant, NumbersFreshFollows, PTL

LEMMA DroppedStays == dropped /\ [Next]_vars => dropped'
<1> SUFFICES ASSUME dropped, [Next]_vars PROVE dropped'
  OBVIOUS
<1>1. CASE UNCHANGED vars
  BY <1>1 DEF vars, lockVars
<1>2. ASSUME NEW h \in Handles, OpenStep(h) PROVE dropped'
  <2>1. CASE Open(h)
    BY <2>1 DEF Open, OpenLock
  <2>2. CASE NewDB(h) \/ RecoverLog(h) \/ OpenLog(h) \/ WriteSnapshot(h) \/ LogEdit(h)
    BY <2>2 DEF NewDB, RecoverLog, OpenLog, WriteSnapshot, LogEdit, lockVars
  <2>3. CASE ReadManifest(h) \/ EditFails(h) \/ SetCurrentFails(h)
    BY <2>3 DEF ReadManifest, EditFails, SetCurrentFails, Destruct, UnlockFile, lockVars
  <2>4. CASE WriteTemp(h) \/ RenameTemp(h) \/ DeleteObsoleteFile(h) \/ EndClean(h)
    BY <2>4 DEF WriteTemp, RenameTemp, DeleteObsoleteFile, EndClean, lockVars
  <2> QED BY <1>2, <2>1, <2>2, <2>3, <2>4 DEF OpenStep
<1>3. ASSUME NEW h \in Handles, WorldStep(h) PROVE dropped'
  BY <1>3 DEF WorldStep, Write, SwitchLog, StartMerge, BuildTable, Close, Destruct, UnlockFile, lockVars
<1>4. ASSUME NEW h \in Handles, DestroyStep(h) PROVE dropped'
  BY <1>4 DEF DestroyStep, ListFiles, LockToDestroy, OpenLock, DestroyFile, EndDestroy, UnlockFile,
              DeleteLock, lockVars
<1>5. ASSUME NEW h \in Handles, RepairStep(h) PROVE dropped'
  BY <1>5 DEF RepairStep, FindFiles, ConvertLogToTable, ArchiveLog, ScanTable, ArchiveTable, RepairTable,
              WriteDescriptor, ArchiveManifest, InstallDescriptor, lockVars
<1>6. ASSUME NEW p \in Processes, Crash(p) PROVE dropped'
  BY <1>6 DEF Crash
<1>7. ASSUME MachineCrash PROVE dropped'
  BY <1>7 DEF MachineCrash
<1>8. ASSUME NEW n \in DOMAIN tables, Damage(n) PROVE dropped'
  BY <1>8 DEF Damage, lockVars
<1>9. ASSUME NEW h \in Handles, LockStep(h) PROVE dropped'
  BY <1>9 DEF LockStep, InsertLock, SetLock, SetLockFails, CloseLock
<1> QED BY <1>1, <1>2, <1>3, <1>4, <1>5, <1>6, <1>7, <1>8, <1>9 DEF Next

(* The same without a word about owners: as long as no lock was dropped (the
   ways to that are those of OneOwnerUnlessDropped), whatever opens, failures,
   destructions, repairs and ends come together. *)
THEOREM WorldIsKeptUnlessDropped ==
    Spec => [](~dropped => NothingIsLost /\ CurrentIsWhole /\ NumbersAreFresh)
<1> DEFINE Kept == ~dropped => WholeInv
<1>1. Init => Kept
  BY WholeInit
<1>2. OwnerInv /\ OwnerInv' /\ Kept /\ [Next]_vars => Kept'
  <2> SUFFICES ASSUME OwnerInv, OwnerInv', Kept, [Next]_vars, ~dropped' PROVE WholeInv'
    OBVIOUS
  <2>1. ~dropped
    BY DroppedStays
  <2>2. NoTwoOwners /\ NoTwoOwners'
    BY <2>1 DEF OwnerInv, LockInv, NoTwoOwners, Owns
  <2> QED BY <2>1, <2>2, WholeStep
<1>3. Kept => (~dropped => NothingIsLost /\ CurrentIsWhole /\ NumbersAreFresh)
  BY NothingLostFollows, CurrentWholeFollows, NumbersFreshFollows
<1> HIDE DEF Kept
<1> QED BY <1>1, <1>2, <1>3, OwnerInvariant, PTL DEF Spec
=============================================================================
