---------------------------- MODULE NativeObject ----------------------------
(* The Java side of the bindings (com/litl/leveldb): a DB, the Iterators   *)
(* and Snapshots that were made from it, and WriteBatches, each a wrapper  *)
(* around a native object with a reference count of its own.  The native   *)
(* DB must stay while a native iterator or snapshot needs it, and go when  *)
(* the last of them and the DB are closed: it holds the LOCK file of the   *)
(* world.  What the native calls do to the data is in Storage and DBImpl.  *)
(*                                                                         *)
(* A thread runs a method as a sequence of steps, todo[t]; what a method   *)
(* does while it holds the monitor of one object and waits for no other is *)
(* one step.                                                               *)
EXTENDS Naturals, Sequences, FiniteSets

CONSTANTS
    Threads,
    Iterators, Snapshots, Batches,  \* the wrappers that are ever made
    db,                     \* the DB
    None, Nobody            \* no snapshot; a monitor that is free

Objects == {db} \cup Iterators \cup Snapshots \cup Batches

ASSUME NativeObjectAssumption ==
    /\ db \notin Iterators \cup Snapshots \cup Batches
    /\ Iterators \cap Snapshots = {} /\ (Iterators \cup Snapshots) \cap Batches = {}
    /\ None \notin Snapshots /\ Nobody \notin Threads

VARIABLES
    mPtr,             \* the wrappers whose pointer is not 0
    mRefCount,
    native,           \* the native objects that exist
    source,           \* the snapshot that an iterator was made from
    monitor,          \* who is inside a synchronized method of the object
    mDestroyOnClose, files,
    todo,             \* of each thread: the steps of its call that are left
    wrappers, closing \* wrappers that exist, and that close() was called on

objectsVars == <<mPtr, mRefCount, native, source, monitor, mDestroyOnClose, files,
                 todo, wrappers, closing>>

Idle(t) == todo[t] = <<>>
Current(t) == Head(todo[t])
At(t, step, o) == ~Idle(t) /\ Current(t) = <<step, o>>
Enters(t, o) == monitor[o] \in {Nobody, t}
Goes(t, steps) == todo' = [todo EXCEPT ![t] = steps \o Tail(@)]

\* Mutant of CloseNativeObject: a snapshot does not give the DB back.
CloseKeepingDb(o) ==
    IF o = db THEN <<<<"delete", db>>>>
    ELSE IF o \in Batches THEN <<<<"free", o>>>>
    ELSE IF o \in Snapshots THEN <<<<"release", o>>>>
    ELSE <<<<"free", o>>>>
         \o (IF source[o] = None THEN <<>> ELSE <<<<"unref", source[o]>>>>)
         \o <<<<"unref", db>>>>

\* What closeNativeObject() does, class by class
CloseNativeObject(o) ==
    IF o = db THEN <<<<"delete", db>>>>
    ELSE IF o \in Batches THEN <<<<"free", o>>>>
    ELSE IF o \in Snapshots THEN <<<<"release", o>>, <<"unref", db>>>>
    ELSE <<<<"free", o>>>>
         \o (IF source[o] = None THEN <<>> ELSE <<<<"unref", source[o]>>>>)
         \o <<<<"unref", db>>>>

(* unref(): the wrapper whose count drops to 0 releases its native object, *)
(* inside its monitor, and then clears its pointer.  With a count of 0 it  *)
(* throws, which ends the call and leaves the monitors of the thread.      *)
Throws(t) ==
    /\ todo' = [todo EXCEPT ![t] = <<>>]
    /\ monitor' = [o \in Objects |-> IF monitor[o] = t THEN Nobody ELSE monitor[o]]

Unref(t, o, rest) ==
    IF mRefCount[o] = 0 THEN Throws(t) /\ UNCHANGED mRefCount
    ELSE /\ mRefCount' = [mRefCount EXCEPT ![o] = @ - 1]
         /\ IF mRefCount[o] = 1
            THEN /\ monitor' = [monitor EXCEPT ![o] = t]
                 /\ todo' = [todo EXCEPT ![t] =
                        CloseNativeObject(o) \o <<<<"clear", o>>>> \o rest]
            ELSE todo' = [todo EXCEPT ![t] = rest] /\ UNCHANGED monitor

----------------------------------------------------------------------------
(* The calls.  Clients call nothing on a wrapper once they have begun to   *)
(* close it, and close it when no call on it is under way.                 *)

\* of the wrappers a client has
Usable(o) == o \in wrappers \ closing

\* the steps of a call under way that the caller of close(o) waits for
StepsOn(o) ==
    {<<"call", o>>, <<"with", o>>, <<"ref", o>>, <<"iterator", o>>, <<"snapshot", o>>}
        \cup {<<"iterator", h>> : h \in {i \in Iterators : source[i] = o \/ o = db}}
        \cup {<<"snapshot", s>> : s \in {i \in Snapshots : o = db}}
        \cup {<<"with", h>> : h \in {i \in Snapshots \cup Batches : o = db}}

InUse(o) == \E t \in Threads : \E i \in 1..Len(todo[t]) : todo[t][i] \in StepsOn(o)

\* new DB(path), open(): a client opens a DB object once
Open(t) ==
    /\ Idle(t) /\ db \notin wrappers
    /\ wrappers' = wrappers \cup {db} /\ mPtr' = mPtr \cup {db}
    /\ native' = native \cup {db} /\ files' = TRUE
    /\ UNCHANGED <<mRefCount, source, monitor, mDestroyOnClose, todo, closing>>

\* new WriteBatch(): a batch belongs to no DB.
NewBatch(t, b) ==
    /\ Idle(t) /\ b \notin wrappers
    /\ wrappers' = wrappers \cup {b} /\ mPtr' = mPtr \cup {b} /\ native' = native \cup {b}
    /\ mRefCount' = [mRefCount EXCEPT ![b] = @ + 1]
    /\ UNCHANGED <<source, monitor, mDestroyOnClose, files, todo, closing>>

\* assertOpen(), and then a native method with the pointer: get, put, next, ...
Call(t, o) ==
    /\ Idle(t) /\ Usable(o) /\ Enters(t, o) /\ o \in mPtr
    /\ o \notin Snapshots
    /\ todo' = [todo EXCEPT ![t] = <<<<"call", o>>>>]
    /\ UNCHANGED <<mPtr, mRefCount, native, source, monitor, mDestroyOnClose,
                   files, wrappers, closing>>

\* DB.get(snapshot, key) and DB.write(batch): a native method of the DB with the
\* pointer of the other
CallWith(t, o) ==
    /\ Idle(t) /\ Usable(db) /\ Enters(t, db) /\ db \in mPtr
    /\ o \in Snapshots \cup Batches /\ Usable(o) /\ Enters(t, o) /\ o \in mPtr
    /\ todo' = [todo EXCEPT ![t] = <<<<"with", o>>>>]
    /\ UNCHANGED <<mPtr, mRefCount, native, source, monitor, mDestroyOnClose,
                   files, wrappers, closing>>

\* Mutant of GetIterator: the iterator does not keep the DB.
IteratorWithoutRef(t, h, s) ==
    /\ Idle(t) /\ Usable(db) /\ Enters(t, db) /\ db \in mPtr
    /\ h \notin wrappers /\ s = None
    /\ wrappers' = wrappers \cup {h}
    /\ source' = [source EXCEPT ![h] = s]
    /\ todo' = [todo EXCEPT ![t] = <<<<"iterator", h>>>>]
    /\ UNCHANGED <<mPtr, mRefCount, native, monitor, mDestroyOnClose, files, closing>>

\* Mutant of GetIterator: the iterator does not keep the snapshot.
IteratorWithoutSnapshotRef(t, h, s) ==
    /\ Idle(t) /\ Usable(db) /\ Enters(t, db) /\ db \in mPtr
    /\ h \notin wrappers /\ (s = None \/ Usable(s))
    /\ wrappers' = wrappers \cup {h}
    /\ source' = [source EXCEPT ![h] = s]
    /\ todo' = [todo EXCEPT ![t] = <<<<"ref", db>>, <<"iterator", h>>>>]
    /\ UNCHANGED <<mPtr, mRefCount, native, monitor, mDestroyOnClose, files, closing>>

\* DB.iterator(snapshot)
GetIterator(t, h, s) ==
    /\ Idle(t) /\ Usable(db) /\ Enters(t, db) /\ db \in mPtr
    /\ h \notin wrappers /\ (s = None \/ (Usable(s) /\ s \in mPtr))
    /\ wrappers' = wrappers \cup {h}
    /\ source' = [source EXCEPT ![h] = s]
    /\ todo' = [todo EXCEPT ![t] = <<<<"ref", db>>>>
                    \o (IF s = None THEN <<>> ELSE <<<<"ref", s>>>>)
                    \o <<<<"iterator", h>>>>]
    /\ UNCHANGED <<mPtr, mRefCount, native, monitor, mDestroyOnClose, files, closing>>

\* DB.getSnapshot()
GetSnapshot(t, s) ==
    /\ Idle(t) /\ Usable(db) /\ Enters(t, db) /\ db \in mPtr
    /\ s \notin wrappers
    /\ wrappers' = wrappers \cup {s}
    /\ todo' = [todo EXCEPT ![t] = <<<<"ref", db>>, <<"snapshot", s>>>>]
    /\ UNCHANGED <<mPtr, mRefCount, native, source, monitor, mDestroyOnClose,
                   files, closing>>

\* close(): does nothing to a wrapper whose pointer is 0.  Clients are taken
\* not to close again before it is: each call would take one more reference.
Close(t, o) ==
    /\ Idle(t) /\ o \in wrappers /\ (o \in closing => o \notin mPtr)
    /\ Enters(t, o) /\ ~InUse(o)
    /\ closing' = closing \cup {o}
    /\ IF o \in mPtr THEN Unref(t, o, <<>>) ELSE UNCHANGED <<mRefCount, monitor, todo>>
    /\ UNCHANGED <<mPtr, native, source, mDestroyOnClose, files, wrappers>>

\* DB.destroy(): sets the flag, and then looks at the pointer
Destroy(t) ==
    /\ Idle(t) /\ db \in wrappers /\ ~mDestroyOnClose
    /\ mDestroyOnClose' = TRUE
    /\ todo' = [todo EXCEPT ![t] = <<<<"destroy", db>>>>]
    /\ UNCHANGED <<mPtr, mRefCount, native, source, monitor, files, wrappers, closing>>

----------------------------------------------------------------------------
(* The steps of a call.                                                    *)

StepRef(t, o) ==
    /\ At(t, "ref", o) /\ Enters(t, o)
    /\ mRefCount' = [mRefCount EXCEPT ![o] = @ + 1]
    /\ Goes(t, <<>>)
    /\ UNCHANGED <<mPtr, native, source, monitor, mDestroyOnClose, files, wrappers, closing>>

StepUnref(t, o) ==
    /\ At(t, "unref", o) /\ Enters(t, o)
    /\ Unref(t, o, Tail(todo[t]))
    /\ UNCHANGED <<mPtr, native, source, mDestroyOnClose, files, wrappers, closing>>

\* nativeIterator() or nativeGetSnapshot(), and the constructor of the wrapper
StepCreate(t, o) ==
    /\ At(t, IF o \in Snapshots THEN "snapshot" ELSE "iterator", o)
    /\ mPtr' = mPtr \cup {o} /\ native' = native \cup {o}
    /\ mRefCount' = [mRefCount EXCEPT ![o] = @ + 1]
    /\ Goes(t, <<>>)
    /\ UNCHANGED <<source, monitor, mDestroyOnClose, files, wrappers, closing>>

\* nativeGet(), nativePut(), nativeDelete() or nativeWrite() returns.
StepCall(t, o) ==
    /\ (o = db /\ At(t, "call", db)) \/ At(t, "with", o)
    /\ Goes(t, <<>>)
    /\ UNCHANGED <<mPtr, mRefCount, native, source, monitor, mDestroyOnClose,
                   files, wrappers, closing>>

\* nativeSeek(), nativeNext(), nativeKey(), ... of an iterator returns.
StepIterator(t, h) ==
    /\ At(t, "call", h)
    /\ Goes(t, <<>>)
    /\ UNCHANGED <<mPtr, mRefCount, native, source, monitor, mDestroyOnClose,
                   files, wrappers, closing>>

\* nativePut(), nativeDelete() or nativeClear() of a batch returns.
StepBatch(t, b) ==
    /\ At(t, "call", b)
    /\ Goes(t, <<>>)
    /\ UNCHANGED <<mPtr, mRefCount, native, source, monitor, mDestroyOnClose,
                   files, wrappers, closing>>

\* nativeDestroy() of an iterator or a batch
StepFree(t, o) ==
    /\ At(t, "free", o)
    /\ native' = native \ {o}
    /\ Goes(t, <<>>)
    /\ UNCHANGED <<mPtr, mRefCount, source, monitor, mDestroyOnClose, files, wrappers, closing>>

\* nativeReleaseSnapshot(DB.this.getPtr(), ...)
StepRelease(t, o) ==
    /\ At(t, "release", o) /\ Enters(t, db)
    /\ native' = native \ {o}
    /\ Goes(t, <<>>)
    /\ UNCHANGED <<mPtr, mRefCount, source, monitor, mDestroyOnClose, files, wrappers, closing>>

\* nativeClose(), and the files when destroy() was called before
StepDelete(t) ==
    /\ At(t, "delete", db)
    /\ native' = native \ {db}
    /\ files' = (files /\ ~mDestroyOnClose)
    /\ Goes(t, <<>>)
    /\ UNCHANGED <<mPtr, mRefCount, source, monitor, mDestroyOnClose, wrappers, closing>>

StepClear(t, o) ==
    /\ At(t, "clear", o)
    /\ mPtr' = mPtr \ {o}
    /\ monitor' = [monitor EXCEPT ![o] = Nobody]
    /\ Goes(t, <<>>)
    /\ UNCHANGED <<mRefCount, native, source, mDestroyOnClose, files, wrappers, closing>>

\* Mutant of StepDestroy: the files go whether or not the DB is open.
DestroyAtOnce(t) ==
    /\ At(t, "destroy", db) /\ Enters(t, db)
    /\ files' = FALSE
    /\ Goes(t, <<>>)
    /\ UNCHANGED <<mPtr, mRefCount, native, source, monitor, mDestroyOnClose, wrappers, closing>>

StepDestroy(t) ==
    /\ At(t, "destroy", db) /\ Enters(t, db)
    /\ files' = (files /\ db \in mPtr)
    /\ Goes(t, <<>>)
    /\ UNCHANGED <<mPtr, mRefCount, native, source, monitor, mDestroyOnClose, wrappers, closing>>

----------------------------------------------------------------------------
ObjectsInit ==
    /\ mPtr = {} /\ native = {} /\ wrappers = {} /\ closing = {}
    /\ mRefCount = [o \in Objects |-> IF o = db THEN 1 ELSE 0]
    /\ source = [h \in Iterators |-> None]
    /\ monitor = [o \in Objects |-> Nobody]
    /\ mDestroyOnClose = FALSE /\ files = FALSE
    /\ todo = [t \in Threads |-> <<>>]

Begin(t) ==
    \/ Open(t)
    \/ \E b \in Batches : NewBatch(t, b)
    \/ \E o \in Objects : Call(t, o) \/ CallWith(t, o)
    \/ \E h \in Iterators, s \in Snapshots \cup {None} : GetIterator(t, h, s)
    \/ \E s \in Snapshots : GetSnapshot(t, s)
    \/ \E o \in Objects : Close(t, o)
    \/ Destroy(t)

Step(t) ==
    \/ \E o \in Objects : \/ StepRef(t, o) \/ StepUnref(t, o) \/ StepCreate(t, o)
                          \/ StepCall(t, o) \/ StepFree(t, o) \/ StepRelease(t, o)
                          \/ StepClear(t, o)
    \/ \E h \in Iterators : StepIterator(t, h)
    \/ \E b \in Batches : StepBatch(t, b)
    \/ StepDelete(t) \/ StepDestroy(t)

ObjectsNext == \E t \in Threads : Begin(t) \/ Step(t)

ObjectsSpec == ObjectsInit /\ [][ObjectsNext]_objectsVars

----------------------------------------------------------------------------
(* Properties                                                              *)

\* db.h: "The returned iterator should be deleted before this db is deleted."
\* In whatever order and by whichever threads the wrappers are closed, the native
\* DB outlives every native iterator and snapshot.
ChildrenDieFirst ==
    (Iterators \cup Snapshots) \cap native # {} => db \in native

\* Every native method that is about to run, or runs, finds its object, the snapshot
\* or batch it is handed, and the DB, which only a batch can do without; an iterator
\* is made from, and reads, a snapshot that has not been released.
CallsFindTheirObject ==
    /\ \A t \in Threads, o \in Objects :
         /\ At(t, "call", o) \/ At(t, "free", o) \/ At(t, "delete", o) \/ At(t, "release", o)
              => o \in native /\ (o \in Batches \/ db \in native)
         /\ At(t, "with", o) => {o, db} \subseteq native
         /\ At(t, "snapshot", o) => db \in native
    /\ \A h \in Iterators :
         h \in native \/ (\E t \in Threads : At(t, "iterator", h))
              => {db} \cup ({source[h]} \ {None}) \subseteq native

\* References are given back as often as they are taken: unref() never throws
\* "Reference count is already 0", and when all wrappers have been closed and
\* nobody is in a call, nothing native is left; the LOCK is released and the
\* world can be opened again.
AllReleased ==
    /\ \A t \in Threads, o \in Objects : At(t, "unref", o) => mRefCount[o] > 0
    /\ (\A t \in Threads : Idle(t)) /\ db \in wrappers /\ closing = wrappers => native = {}

\* destroy() never deletes the files of a DB that is open.
FilesOutliveDb == db \in native => files
=============================================================================
