------------------------------ MODULE MCMemory -------------------------------
(* The instance of MemTable and of Caches that TLC checks: what the threads *)
(* of a process share in memory.  A behaviour is one of a memtable, or one  *)
(* of the caches; they share no variable.                                   *)
EXTENDS MemTable, Caches

CONSTANTS r1, t1, t2

---------------------------------------------------------------------------
\* A deletion leaves the allocation pointer unaligned; a value takes a block of
\* its own.
MCUpdates == {[user |-> 1, type |-> kTypeValue], [user |-> 2, type |-> kTypeDeletion]}
MCBytes == [t \in {0, 1} |-> IF t = 0 THEN 3 ELSE 9]

\* One of the two blocks of a file is compressed, and takes the whole block cache.
MCBlockCharge == [off \in Offsets |-> off]
MCCapacities  == {[tables |-> 1, blocks |-> 2], [tables |-> 2, blocks |-> 0]}
ThreadSymmetry == Permutations(Threads)

\* The memtable need not be run once for each choice of capacities.
MCInit == MemInit /\ CachesInit
MCNext == \/ CachesInit /\ tables.capacity = 1 /\ MemNext /\ UNCHANGED cachesVars
          \/ MemInit /\ CachesNext /\ UNCHANGED memVars
MCSpec == MCInit /\ [][MCNext]_<<memVars, cachesVars>>
=============================================================================
