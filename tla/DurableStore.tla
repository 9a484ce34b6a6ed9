---------------------------- MODULE DurableStore ----------------------------
(* What include/leveldb/db.h and options.h promise of DB::Write() and of   *)
(* crashes, without queue, log, memtables or tables: a set of batches that *)
(* readers see, which grows by whole groups and survives restarts.  The    *)
(* one way out of the promise is a file operation that failed while the    *)
(* store was in use: it may leave the store broken, unnoticed by those who *)
(* use it, and a store that is still broken when it is left may be refused *)
(* ever after (Status::Corruption of DB::Open(), paranoid_checks).         *)
CONSTANTS
    Ops,             \* the batches
    SyncOps,         \* those written with WriteOptions.sync
    NullOps,         \* calls of Write(NULL), which write nothing
    Faults,          \* whether file operations can fail
    MachineCrashes   \* whether the machine can crash, not only the process

VARIABLES state,     \* of each call: new, pending, ok, error, lost
          visible,   \* the batches that a read finds (after an Open if need be)
          store      \* sound, broken, or refused

vars == <<state, visible, store>>

InUse == store # "refused"

Init == /\ state = [op \in Ops |-> "new"]
        /\ visible = {}
        /\ store = "sound"

Call(op) == /\ InUse /\ state[op] = "new"
            /\ state' = [state EXCEPT ![op] = "pending"]
            /\ UNCHANGED <<visible, store>>

\* a group of writers takes effect at once, before any of them returns
Commit(G) == /\ InUse
             /\ \A op \in G : state[op] = "pending" /\ op \notin visible
             /\ visible' = visible \cup G
             /\ UNCHANGED <<state, store>>

Reply(op, answer) ==
    /\ InUse /\ state[op] = "pending"
    /\ answer = "ok" => op \in visible \cup NullOps
    /\ state' = [state EXCEPT ![op] = answer]
    /\ UNCHANGED <<visible, store>>

\* Nothing is said to the callers when a failed operation breaks the store, nor
\* when what it left behind is no longer needed.
Break == /\ Faults /\ store = "sound" /\ store' = "broken"
         /\ UNCHANGED <<state, visible>>

Mend == /\ store = "broken" /\ store' = "sound"
        /\ UNCHANGED <<state, visible>>

Left == [op \in Ops |-> IF state[op] = "pending" THEN "lost" ELSE state[op]]

\* Of a call that was interrupted or failed nothing is promised: the restart may
\* reveal it.  Nothing visible disappears, unless the machine itself crashed and
\* the batch was not written with sync.
Restart ==
    LET doubtful == {op \in Ops : state[op] \in {"pending", "error", "lost"}}
        safe     == {op \in visible : MachineCrashes =>
                                        op \in SyncOps /\ state[op] = "ok"}
    IN  /\ InUse /\ store' = "sound"
        /\ safe \subseteq visible' /\ visible' \subseteq visible \cup doubtful
        /\ state' = Left

\* a store that is broken when it is left may not open again
Refuse == /\ store = "broken" /\ store' = "refused"
          /\ visible' = {}
          /\ state' = Left

Next ==
    \/ \E op \in Ops : Call(op)
    \/ \E G \in SUBSET Ops : Commit(G)
    \/ \E op \in Ops, answer \in {"ok", "error"} : Reply(op, answer)
    \/ Break \/ Mend
    \/ Restart \/ Refuse

Spec == Init /\ [][Next]_vars
=============================================================================
