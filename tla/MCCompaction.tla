---------------------------- MODULE MCCompaction ----------------------------
(* Instances of Compaction for TLC.                                        *)
EXTENDS Compaction

CONSTANTS r1

P(k) == <<k, FALSE>>   \* put and delete
D(k) == <<k, TRUE>>

\* readers and a snapshot, or a manual compaction, or a fault
B(plan, r, s, c, f) == [writes |-> plan, reads |-> r, snapshots |-> s, calls |-> c, faults |-> f]

\* overwritten and deleted keys, in an order that makes files overlap
Overlapping == {<<P(1), P(2), D(1), P(2), P(1)>>, <<P(1), P(1), D(1), P(2)>>}
OverlappingBudgets ==
    UNION {{B(plan, 1, 1, 0, 0), B(plan, 2, 0, 0, 0), B(plan, 0, 1, 1, 0), B(plan, 0, 0, 1, 1)}
             : plan \in Overlapping}

\* a key that comes between two files while they are merged
GapBudgets == {B(<<P(1), P(3), P(1), P(3), P(2), P(2)>>, 0, 0, 1, 0)}

MCBudgets == OverlappingBudgets \cup GapBudgets
=============================================================================
