------------------------------ MODULE MemTable ------------------------------
(* A memtable: entries of a user key, a sequence number and a type, in the *)
(* skip list, in the order of InternalKeyComparator, in memory taken from  *)
(* an Arena.  One writer adds the entries of a batch and then makes their  *)
(* sequence numbers visible; Get() looks a user key up at the last visible *)
(* number while the writer goes on.                                        *)
EXTENDS SkipList, Sequences

CONSTANTS Users,        \* user keys, numbered in their order
          Updates,      \* the updates that are made: [user, type]
          MaxSequence,  \* bound: the updates that are made
          BlockSize, Align, PointerBytes, \* of the arena, scaled down
          EntryBytes    \* encoded_len of a deletion (0) and of a value (1)

VARIABLES lastSequence, \* the number readers look up at
          arena,        \* alloc_ptr_, alloc_bytes_remaining_, blocks_
          lookup        \* the Get() each reader is in
memVars == <<vars, lastSequence, arena, lookup>>

kTypeDeletion == 0
kTypeValue == 1

\* PackSequenceAndType() and InternalKeyComparator::Compare(): user keys
\* ascending, then newest first.
Entry == {e \in [user : Users, seq : 0 .. MaxSequence, type : {kTypeDeletion, kTypeValue}] :
            e.seq > 0 \/ e.type = kTypeValue}
Packed(e) == e.seq * 256 + e.type
EntryBefore(a, b) == a.user < b.user \/ (a.user = b.user /\ Packed(a) > Packed(b))

ASSUME EntriesAreKeys ==
    Key = Entry /\ \A a, b \in Entry : Before(a, b) <=> EntryBefore(a, b)
ASSUME MemTableAssumption ==
    /\ Users \subseteq Nat /\ MaxSequence \in Nat
    /\ Updates \subseteq [user : Users, type : {kTypeDeletion, kTypeValue}]
    /\ Nil \notin [user : Users, seq : 0 .. MaxSequence]
ASSUME ArenaAssumption ==
    /\ BlockSize \in Nat \ {0} /\ Align \in Nat \ {0} /\ PointerBytes \in Nat \ {0}
    /\ EntryBytes \in [{kTypeDeletion, kTypeValue} -> Nat \ {0}]

\* Mutant of LookupKey: with the lowest type, not the highest.
LookupKeyLowest(u, s) == [user |-> u, seq |-> s, type |-> kTypeDeletion]

\* LookupKey: before every entry of the user key that is not newer
LookupKey(u, s) == [user |-> u, seq |-> s, type |-> kTypeValue]

---------------------------------------------------------------------------
(* Arena: at is the offset of alloc_ptr_ in block; blocks are the sizes of *)
(* what new[] returned, each aligned; chunks is what was handed out.       *)

NoArena == [block |-> 0, at |-> 0, left |-> 0, blocks |-> <<>>, chunks |-> {}]
Chunk(b, from, bytes) == [block |-> b, from |-> from, bytes |-> bytes]

AllocateFallback(a, bytes) ==
    LET b == Len(a.blocks) + 1
    IN  IF bytes > BlockSize \div 4
        THEN [a EXCEPT !.blocks = Append(@, bytes), !.chunks = @ \cup {Chunk(b, 0, bytes)}]
        ELSE [block |-> b, at |-> bytes, left |-> BlockSize - bytes,
              blocks |-> Append(a.blocks, BlockSize),
              chunks |-> a.chunks \cup {Chunk(b, 0, bytes)}]

AllocateAfter(a, slop, bytes) ==
    IF slop + bytes <= a.left
    THEN [a EXCEPT !.at = @ + slop + bytes, !.left = @ - slop - bytes,
                   !.chunks = @ \cup {Chunk(a.block, a.at + slop, bytes)}]
    ELSE AllocateFallback(a, bytes)

Slop(a) == (Align - (a.at % Align)) % Align
Allocate(a, bytes)        == AllocateAfter(a, 0, bytes)
AllocateAligned(a, bytes) == AllocateAfter(a, Slop(a), bytes)

\* A node of the list: its key, and one pointer for each level
NewNode(a, height) == AllocateAligned(a, PointerBytes * (1 + height))

---------------------------------------------------------------------------
MemInit == /\ Init
           /\ lastSequence = 0
           /\ arena = NewNode(NoArena, MaxHeight)
           /\ lookup = [r \in Readers |-> Nil]

Added == Cardinality(Linked(0))

\* MemTable::Add(), until Insert() returns
Add(up) ==
    /\ Added < MaxSequence
    /\ Insert([user |-> up.user, seq |-> Added + 1, type |-> up.type])
    /\ arena' = Allocate(arena, EntryBytes[up.type])
    /\ UNCHANGED <<lastSequence, lookup>>

AllocateNode(h) ==
    /\ ChooseHeight(h)
    /\ arena' = NewNode(arena, h)
    /\ UNCHANGED <<lastSequence, lookup>>

WriteStep == Write /\ UNCHANGED <<lastSequence, arena, lookup>>

\* The batch is in the memtable: SetLastSequence(), under the mutex
BatchEnds ==
    /\ writer.pc = "idle" /\ lastSequence < Added
    /\ lastSequence' = Added
    /\ UNCHANGED <<vars, arena, lookup>>

\* DBImpl::Get() takes the last sequence number, MemTable::Get() seeks
Get(r, u) ==
    /\ lookup[r] = Nil /\ cursor[r].at = Nil
    /\ Seek(r, LookupKey(u, lastSequence))
    /\ lookup' = [lookup EXCEPT ![r] = [user |-> u, seq |-> lastSequence]]
    /\ UNCHANGED <<lastSequence, arena>>

\* What Get() finds where it stands: an entry, or nothing of that user key
Found(n, u) == IF n # Nil /\ n.user = u THEN n ELSE Nil
GetReturns(r) ==
    /\ lookup[r] # Nil /\ cursor[r].find.op = "idle"
    /\ NewIterator(r)
    /\ lookup' = [lookup EXCEPT ![r] = Nil]
    /\ UNCHANGED <<lastSequence, arena>>

\* A MemTableIterator: DBIter seeks a user key at the number of its snapshot.
Iterate(r) ==
    /\ lookup[r] = Nil
    /\ Move(r) \/ \E u \in Users : Seek(r, LookupKey(u, lastSequence))
    /\ UNCHANGED <<lastSequence, arena, lookup>>
ReadStep(r) == Turn(r) /\ UNCHANGED <<lastSequence, arena, lookup>>

MemNext == \/ \E up \in Updates : Add(up)
           \/ \E h \in Heights : AllocateNode(h)
           \/ WriteStep \/ BatchEnds
           \/ \E r \in Readers : \/ \E u \in Users : Get(r, u)
                                 \/ GetReturns(r) \/ Iterate(r) \/ ReadStep(r)
MemSpec == MemInit /\ [][MemNext]_memVars

---------------------------------------------------------------------------
(* Properties *)

\* Get() returns the newest entry of its user key at its sequence number,
\* whatever the writer adds meanwhile.
Newest(u, s) ==
    LET mine == {e \in Linked(0) : e.user = u /\ e.seq <= s}
    IN  IF mine = {} THEN Nil ELSE CHOOSE e \in mine : \A f \in mine : f.seq <= e.seq
GetIsExact ==
    \A r \in Readers : lookup[r] # Nil /\ cursor[r].find.op = "idle"
       => Found(cursor[r].at, lookup[r].user) = Newest(lookup[r].user, lookup[r].seq)

\* The list is sorted on every level, and nobody stands at a node that is not
\* filled in (SkipList).  Of the memory under it no byte is handed out twice or
\* outside of a block, and what the arena counts as left is the rest of it.
WellFormed ==
    /\ PointersAreFilledIn /\ LevelsAreSorted
    /\ \A c \in arena.chunks : c.from + c.bytes <= arena.blocks[c.block]
    /\ \A c, d \in arena.chunks :
          c # d /\ c.block = d.block => c.from + c.bytes <= d.from \/ d.from + d.bytes <= c.from
    /\ arena.block > 0 => arena.at + arena.left = arena.blocks[arena.block]
=============================================================================
