------------------------------ MODULE WorldEdit ------------------------------
(* How the app puts map paintings into a world of the game:                *)
(* ImportPicActivity makes one map item, on the UI thread;                 *)
(* GridPicActivity makes one per tile of a picture, on a worker.  Where    *)
(* the world lies under Android/data (scoped) the world is copied to a     *)
(* directory of the app, edited there, deleted, and copied back.           *)
(*                                                                         *)
(* A directory is a set of names, each absent, torn (the copy or the       *)
(* deletion of it is not complete) or whole; the db, a directory of its    *)
(* own, is one of the names, and its data are the records the app reads    *)
(* and writes.  A put is atomic and survives the end of the process, as    *)
(* DurableStore promises.  But a db is several files, and a torn one opens *)
(* with what the tables and the log that are there hold.                   *)
EXTENDS Naturals, Sequences, FiniteSets

CONSTANTS
    Plain,               \* files of a world besides its db
    levelname,           \* the one that makes the app list the world
    DB,
    Uuids, NoMap,        \* NoMap: what else a slot of the inventory holds
    Slots,               \* 0..35 in the game
    Inventories,         \* slots that the player's record may have at first
    MaxJobs,             \* bound: edits started
    Scenarios            \* bounds: the activities that are used, the tiles of a
                         \* picture, ends of the process, failing operations

ASSUME WorldEditAssumption ==
    /\ levelname \in Plain /\ DB \notin Plain /\ NoMap \notin Uuids
    /\ \A I \in Inventories : I \subseteq Slots
    /\ MaxJobs \in Nat
    /\ Scenarios \subseteq [activities : SUBSET {"import", "grid"},
                           tiles : Nat, crashes : Nat, faults : Nat]

Activities == {"import", "grid"}

VARIABLES
    scenario,            \* one of Scenarios
    scoped,              \* the world is under Android/data
    disk,                \* what each directory holds, ...
    pieces,              \* ... and the files of its db, if only some are there
    screen,              \* the activity in front
    summon_ing,          \* of GridPicActivity; its button is disabled then
    job, event,          \* the edit an activity runs; a call the worker posted
    told,                \* the last toast
    serial,              \* the number of edits started
    before, asked,       \* the world when the last one did, and its slots
    promised,            \* the maps of the world when an edit succeeded
    crashes, faults,     \* so far
    flaws                \* how a db was used that nobody closed: an edit in a
                         \* copy left behind ("stale"), an open of a torn db

ui == <<screen, summon_ing, event, told>>
last == <<serial, before, asked>>
vars == <<scenario, scoped, disk, pieces, ui, job, last, promised, crashes, faults, flaws>>

Names == Plain \cup {DB}
World == 0                       \* the world's directory
Places == 0 .. MaxJobs + 1       \* and the app's: 1 is ImportPicActivity's
Game == MaxJobs + 1              \* who made a map; 0 if there is none
Nothing == [player |-> [s \in {} |-> NoMap], maps |-> [u \in Uuids |-> 0]]
Idle == [pc |-> "idle", cache |-> World, todo |-> {}, busy |-> {},
         mixed |-> FALSE, slots |-> <<>>, uuid |-> NoMap]

Listing(p) == {n \in Names : disk[p].files[n] # "absent"}

\* A db as an open leaves it: the data are in tables, the log is empty, and
\* an open that finds no CURRENT begins with nothing.  The puts of a log are
\* told by the records they put: a player's has slots, a map is not 0.
Opened(data) == [bases |-> {data, Nothing}, log |-> Nothing, cuts |-> {Nothing},
                 stale |-> {Nothing}]
Logged(db, log) == [db EXCEPT !.log = log, !.cuts = @ \cup {log}]

\* The data after the puts of a log
Over(data, puts) ==
    [player |-> IF puts.player = Nothing.player THEN data.player ELSE puts.player,
     maps |-> [u \in Uuids |-> IF puts.maps[u] = 0 THEN data.maps[u] ELSE puts.maps[u]]]

\* What a torn db may open with: tables, or none, and the logs up to a cut
Recovered(db) == {Over(Over(base, cut), rest) :
                     base \in db.bases, cut \in db.cuts, rest \in db.stale}

\* A db copied over another: a log of the other has a name of its own.
Mixed(db, old) == [bases |-> db.bases \cup old.bases, log |-> db.log, cuts |-> db.cuts,
                   stale |-> old.cuts \cup old.stale]

\* The copy of the world that an edit works on: ImportPicActivity names it
\* after the world, GridPicActivity after the time.
CacheOf(a) == IF a = "import" THEN 1 ELSE serial + 2

\* Mutant of Where: the edit is made in the world itself.
InPlace(a) == World

Where(a) == IF scoped THEN job[a].cache ELSE World
Edited(a) == disk[Where(a)].data
\* Mutant of FreeUuids: isFindEqualKey() finds nothing.
AnyUuid(data) == Uuids

FreeUuids(data) == {u \in Uuids : data.maps[u] = 0}

Source(a) == IF job[a].pc = "copyOut" THEN World ELSE job[a].cache
Target(a) == IF job[a].pc \in {"copyOut", "delCache"} THEN job[a].cache
             ELSE World

\* Mutant of After: the copy is deleted before it is copied back.
AfterSwapped(pc) == CASE pc = "copyOut"  -> "open"
                      [] pc = "close"    -> IF scoped THEN "delOrig" ELSE "done"
                      [] pc = "delOrig"  -> "delCache"
                      [] pc = "delCache" -> "copyBack"
                      [] pc = "copyBack" -> "done"

\* The stages of an edit, in their order
After(pc) == CASE pc = "copyOut"  -> "open"
               [] pc = "close"    -> IF scoped THEN "delOrig" ELSE "done"
               [] pc = "delOrig"  -> "copyBack"
               [] pc = "copyBack" -> "delCache"
               [] pc = "delCache" -> "done"

WorkOf(pc, cache) ==
    IF pc \in {"delOrig", "copyOut"} THEN Listing(World)
    ELSE IF pc \in {"copyBack", "delCache"} THEN Listing(cache) ELSE {}

\* Mutant of TileDone: the last tile is not made.
TileDoneEarly(j) == [j EXCEPT !.slots = Tail(@),
                              !.pc = IF Len(j.slots) <= 2 THEN "close" ELSE "get"]

\* The next tile, if there is one
TileDone(j) == [j EXCEPT !.slots = Tail(@),
                         !.pc = IF Len(j.slots) = 1 THEN "close" ELSE "get"]

UIFree == job["import"] = Idle

MayLeave == screen = "grid" => ~summon_ing

-----------------------------------------------------------------------------
(* The user                                                                *)

\* The list of MainActivity shows a world that has a levelname and a db.
Choose(a) ==
    /\ screen = "list" /\ a \in scenario.activities
    /\ {levelname, DB} \subseteq Listing(World)
    /\ screen' = a /\ summon_ing' = FALSE /\ told' = "none"
    /\ UNCHANGED <<scenario, scoped, disk, pieces, job, event, last, promised,
                   crashes, faults, flaws>>

Leave ==
    /\ screen # "list" /\ UIFree /\ MayLeave
    /\ screen' = "list" /\ told' = "none"
    /\ UNCHANGED <<scenario, scoped, disk, pieces, summon_ing, job, event, last,
                   promised, crashes, faults, flaws>>

\* Bound: the uuids of the game do not run out.
EnoughUuids(slots) ==
    \A data \in {disk[World].data} \cup Recovered(pieces[World]) :
        Len(slots) <= Cardinality(FreeUuids(data))

Start(a, slots) ==
    /\ screen = a /\ UIFree /\ ~summon_ing
    /\ serial < MaxJobs /\ EnoughUuids(slots)
    /\ LET pc == IF scoped THEN "copyOut" ELSE "open" IN
       job' = [job EXCEPT ![a] =
                  [Idle EXCEPT !.pc = pc, !.cache = CacheOf(a), !.slots = slots,
                               !.todo = WorkOf(pc, World)]]
    /\ serial' = serial + 1
    /\ summon_ing' = (a = "grid")
    /\ told' = "none" /\ before' = disk[World]
    /\ asked' = {slots[i] : i \in DOMAIN slots}
    /\ flaws' = flaws \cup {f \in {"stale"} : scoped /\ Listing(CacheOf(a)) # {}}
    /\ UNCHANGED <<scenario, scoped, disk, pieces, screen, event, promised, crashes,
                   faults>>

\* Mutant of ResetsOn: summon_ing is never reset.
NeverResets(e) == FALSE

\* What the worker of GridPicActivity posted to the main thread
ResetsOn(e) == e = "complete"

Succeed == /\ told' = "ok"
           /\ promised' = promised
                \cup {u \in Uuids : disk[World].data.maps[u] # 0}

Deliver ==
    /\ event # "none" /\ UIFree
    /\ event' = "none"
    /\ summon_ing' = (summon_ing /\ ~ResetsOn(event))
    /\ IF event = "complete" THEN Succeed
       ELSE told' = "error" /\ UNCHANGED promised
    /\ UNCHANGED <<scenario, scoped, disk, pieces, screen, job, last, crashes, faults,
                   flaws>>

-----------------------------------------------------------------------------
(* An edit                                                                 *)

Runs(a, pc) == job[a].pc = pc
Becomes(a, j) == job' = [job EXCEPT ![a] = j]
Rest == <<scenario, scoped, screen, summon_ing, last, crashes>>
Quiet == <<Rest, event, told, promised>>
Files == <<disk, pieces, flaws>>
NoFault == UNCHANGED faults
Fault == faults < scenario.faults /\ faults' = faults + 1

\* The exception leaves the activity's method.
Fail(a) ==
    /\ Becomes(a, Idle)
    /\ IF a = "grid" THEN event' = "error" /\ UNCHANGED told
       ELSE told' = "error" /\ UNCHANGED event
    /\ UNCHANGED <<Rest, promised>>

\* copyDir() one name after the other: the stream is opened, ...
BeginCopy(a, n) ==
    /\ job[a].pc \in {"copyOut", "copyBack"} /\ job[a].busy = {}
    /\ n \in job[a].todo
    /\ Becomes(a, [job[a] EXCEPT !.busy = {n},
                      !.mixed = n = DB /\ disk[Target(a)].files[n] # "absent"])
    /\ disk' = [disk EXCEPT ![Target(a)].files[n] = "torn"]
    /\ pieces' = [pieces EXCEPT ![Target(a)] =
                     IF n # DB THEN @
                     ELSE IF disk[Target(a)].files[n] = "absent" THEN pieces[Source(a)]
                     ELSE Mixed(pieces[Source(a)], @)]
    /\ NoFault /\ UNCHANGED <<Quiet, flaws>>

\* ... and the copy is complete.  Files of a db that was there before stay:
\* what is then in the directory need not be a db any more, and if it is one
\* the next open also replays the log that an earlier edit left there.
EndCopy(a, n) ==
    /\ n \in job[a].busy
    /\ \E state \in {disk[Source(a)].files[n]}
                    \cup (IF job[a].mixed THEN {"torn"} ELSE {}),
          rest \in IF job[a].mixed THEN pieces[Target(a)].stale ELSE {Nothing} :
          disk' = [disk EXCEPT
                     ![Target(a)].files[n] = state,
                     ![Target(a)].data = IF n # DB THEN @
                                         ELSE Over(disk[Source(a)].data, rest)]
    /\ Becomes(a, [job[a] EXCEPT !.busy = {}, !.todo = @ \ {n}])
    /\ NoFault /\ UNCHANGED <<Quiet, pieces, flaws>>

\* An IOException is caught file by file, and the loop goes on.
CopyFails(a, n) ==
    /\ job[a].pc \in {"copyOut", "copyBack"}
    /\ n \in job[a].todo /\ job[a].busy \in {{}, {n}}
    /\ Becomes(a, [job[a] EXCEPT !.busy = {}, !.todo = @ \ {n}])
    /\ Fault /\ UNCHANGED <<Quiet, Files>>

\* forEachDelete(); the db goes file by file.
Delete(a, n) ==
    /\ job[a].pc \in {"delOrig", "delCache"} /\ n \in job[a].todo
    /\ LET state == IF n = DB /\ disk[Target(a)].files[n] = "whole"
                    THEN "torn" ELSE "absent" IN
       /\ disk' = [disk EXCEPT ![Target(a)].files[n] = state]
       /\ Becomes(a, [job[a] EXCEPT
                         !.todo = IF state = "absent" THEN @ \ {n} ELSE @])
    /\ NoFault /\ UNCHANGED <<Quiet, pieces, flaws>>

\* The result of delete() is not looked at.
DeleteFails(a, n) ==
    /\ job[a].pc \in {"delOrig", "delCache"} /\ n \in job[a].todo
    /\ Becomes(a, [job[a] EXCEPT !.todo = @ \ {n}])
    /\ Fault /\ UNCHANGED <<Quiet, Files>>

StageEnds(a) ==
    /\ job[a].pc \in {"copyOut", "close", "delOrig", "copyBack", "delCache"}
    /\ job[a].todo = {}
    /\ LET pc == After(job[a].pc) IN
       Becomes(a, [job[a] EXCEPT !.pc = pc, !.todo = WorkOf(pc, job[a].cache)])
    /\ NoFault /\ UNCHANGED <<Quiet, Files>>

\* Util.openDB(): a db that is not there is created; one that is torn opens
\* with what is left of it, or does not open.
Open(a) ==
    LET p == Where(a)
        state == disk[p].files[DB]
    IN
    /\ Runs(a, "open")
    /\ Becomes(a, [job[a] EXCEPT !.pc = "get"])
    /\ \E data \in CASE state = "whole"  -> {disk[p].data}
                     [] state = "absent" -> {Nothing}
                     [] state = "torn"   -> Recovered(pieces[p]) :
          /\ disk' = [disk EXCEPT ![p].files[DB] = "whole", ![p].data = data]
          /\ pieces' = [pieces EXCEPT ![p] = Opened(data)]
    /\ flaws' = flaws \cup ({state} \cap {"torn"})
    /\ NoFault /\ UNCHANGED Quiet

OpenFails(a) ==
    /\ Runs(a, "open")
    /\ \/ disk[Where(a)].files[DB] = "torn" /\ NoFault
       \/ Fault
    /\ Fail(a) /\ UNCHANGED Files

\* What copyDir() does not catch, a directory that cannot be made, and a
\* folder that toDocumentFile() does not find any more
CopyThrows(a) ==
    /\ job[a].pc \in {"copyOut", "copyBack"}
    /\ Fault /\ Fail(a) /\ UNCHANGED Files

\* summonMapItem(): an exception in it ends this tile only.
Get(a) ==
    /\ Runs(a, "get")
    /\ Becomes(a, IF Head(job[a].slots) \in DOMAIN Edited(a).player
                  THEN [job[a] EXCEPT !.pc = "pick"] ELSE TileDone(job[a]))
    /\ NoFault /\ UNCHANGED <<Quiet, Files>>

Pick(a) ==
    /\ Runs(a, "pick")
    /\ \E u \in FreeUuids(Edited(a)) :
          Becomes(a, [job[a] EXCEPT !.pc = "putPlayer", !.uuid = u])
    /\ NoFault /\ UNCHANGED <<Quiet, Files>>

PutPlayer(a) ==
    /\ Runs(a, "putPlayer")
    /\ disk' = [disk EXCEPT ![Where(a)].data.player[Head(job[a].slots)] =
                                job[a].uuid]
    /\ pieces' = [pieces EXCEPT ![Where(a)] =
                     Logged(@, [@.log EXCEPT !.player = disk'[Where(a)].data.player])]
    /\ Becomes(a, [job[a] EXCEPT !.pc = "putMap"])
    /\ NoFault /\ UNCHANGED <<Quiet, flaws>>

PutMap(a) ==
    /\ Runs(a, "putMap")
    /\ disk' = [disk EXCEPT ![Where(a)].data.maps[job[a].uuid] = serial]
    /\ pieces' = [pieces EXCEPT ![Where(a)] =
                     Logged(@, [@.log EXCEPT !.maps[job[a].uuid] = serial])]
    /\ Becomes(a, TileDone(job[a]))
    /\ NoFault /\ UNCHANGED <<Quiet, flaws>>

PutFails(a) ==
    /\ job[a].pc \in {"putPlayer", "putMap"}
    /\ Becomes(a, TileDone(job[a]))
    /\ Fault /\ UNCHANGED <<Quiet, Files>>

Finish(a) ==
    /\ Runs(a, "done")
    /\ Becomes(a, Idle)
    /\ IF a = "grid" THEN event' = "complete" /\ UNCHANGED <<told, promised>>
       ELSE Succeed /\ UNCHANGED event
    /\ NoFault /\ UNCHANGED <<Rest, Files>>

\* The system or the user ends the process.
Crash ==
    /\ crashes < scenario.crashes
    /\ crashes' = crashes + 1
    /\ job' = [a \in Activities |-> Idle]
    /\ screen' = "list" /\ summon_ing' = FALSE
    /\ event' = "none" /\ told' = "none"
    /\ UNCHANGED <<scenario, scoped, disk, pieces, last, promised, faults, flaws>>

-----------------------------------------------------------------------------
\* The map that a world has already
Existing == CHOOSE u \in Uuids : TRUE

Init ==
    /\ scoped \in BOOLEAN /\ scenario \in Scenarios
    /\ \E I \in Inventories :
          disk = [p \in Places |->
                    IF p = World
                    THEN [files |-> [n \in Names |-> "whole"],
                          data |-> [player |-> [s \in I |-> NoMap],
                                    maps |-> [u \in Uuids |->
                                                IF u = Existing THEN Game ELSE 0]]]
                    ELSE [files |-> [n \in Names |-> "absent"],
                          data |-> Nothing]]
    /\ pieces = [p \in Places |-> Opened(disk[p].data)]
    /\ screen = "list" /\ summon_ing = FALSE
    /\ job = [a \in Activities |-> Idle] /\ event = "none" /\ told = "none"
    /\ serial = 0 /\ before = disk[World] /\ asked = {}
    /\ promised = {u \in Uuids : disk[World].data.maps[u] # 0}
    /\ crashes = 0 /\ faults = 0 /\ flaws = {}

\* Single maps go where the user says, tiles into the slots from 0.
Requests(a) == IF a = "import" THEN {<<s>> : s \in Slots}
               ELSE {[i \in 1..t |-> i - 1] : t \in 1..scenario.tiles}

Work(a) ==
    \/ StageEnds(a) \/ Open(a) \/ Get(a) \/ Pick(a)
    \/ PutPlayer(a) \/ PutMap(a) \/ Finish(a)
    \/ \E n \in Names : BeginCopy(a, n) \/ EndCopy(a, n) \/ Delete(a, n)

Trouble(a) ==
    \/ OpenFails(a) \/ CopyThrows(a) \/ PutFails(a)
    \/ \E n \in Names : CopyFails(a, n) \/ DeleteFails(a, n)

Next ==
    \/ Leave \/ Deliver \/ Crash
    \/ \E a \in Activities :
          \/ Choose(a) \/ Work(a) \/ Trouble(a)
          \/ \E slots \in Requests(a) : Start(a, slots)

Spec == Init /\ [][Next]_vars

\* Both threads run; what the user does, and what fails, need not happen.
FairSpec == Spec /\ WF_vars(Deliver)
                 /\ \A a \in Activities : WF_vars(Work(a))

-----------------------------------------------------------------------------
(* Properties                                                              *)

Whole(d, n) == d.files[n] = "whole"

\* Whenever the process ends, in either activity, each file of the world is
\* whole in one of the directories, and each map that the world had at first,
\* or when the user was last told that an edit succeeded, is in a whole db:
\* startEditWorld and summonPicToMinecraft delete nothing of which there is no
\* other copy.  It takes that no operation failed (copyDir swallows the
\* exception), and it ends when ImportPicActivity begins an edit in the copy
\* that an interrupted one left: startEditWorld copies the world, of which
\* there may be nothing left, over the only copy.
NothingLost ==
    faults = 0 /\ "stale" \notin flaws =>
    /\ \A n \in Plain : \E p \in Places : Whole(disk[p], n)
    /\ \A u \in promised : \E p \in Places :
          Whole(disk[p], DB) /\ disk[p].data.maps[u] # 0

\* What is true when the toast says that the maps were made, if the world was
\* undamaged before, no operation failed and the copy was a new one.  Of the
\* slots asked for, each that the player's record has holds an item whose map
\* this edit wrote.  Those that the record lacks were not made, though the
\* toast says so: summonMapItem catches the exception.  The files are whole,
\* and no other slot or map has changed.
SuccessMeansMade ==
    /\ told = "ok" /\ faults = 0 /\ "stale" \notin flaws
    /\ \A n \in Names : Whole(before, n)
    =>  LET now == disk[World]
            item == now.data.player
            had == before.data.player
            made == asked \cap DOMAIN had
        IN  /\ \A n \in Names : Whole(now, n)
            /\ DOMAIN item = DOMAIN had
            /\ \A s \in made : item[s] \in Uuids /\ now.data.maps[item[s]] = serial
            /\ \A s, t \in made : item[s] = item[t] => s = t
            /\ \A s \in DOMAIN had \ asked : item[s] = had[s]
            /\ \A u \in Uuids : before.data.maps[u] # 0 =>
                  now.data.maps[u] = before.data.maps[u]

\* In the world that the game sees, no item refers to a map that is not
\* there: the player's record is put before the map's, and what an end of the
\* process between the two leaves behind is in the copy, where there is one.
\* It takes that no put failed, that no db was opened that is torn (its log
\* may end between the two puts) and that no copy was used again
\* (ImportPicActivity: the next open replays the log of the interrupted edit).
NoItemWithoutMap ==
    LET now == disk[World] IN
    scoped /\ faults = 0 /\ flaws = {} /\ Whole(now, DB) =>
        \A s \in DOMAIN now.data.player :
            now.data.player[s] # NoMap => now.data.maps[now.data.player[s]] # 0

\* A map that a db has is never written over: map_uuid is compared with every
\* key of the db before the two puts of an item.
MapsAreKept ==
    [][\A p \in Places, u \in Uuids :
          /\ disk[p].files[DB] = "whole" /\ disk'[p].files[DB] = "whole"
          /\ disk[p].data.maps[u] # 0
          => disk'[p].data.maps[u] = disk[p].data.maps[u]]_vars

\* An edit that was started comes to an end, on the worker or the UI thread,
\* and GridPicActivity may be left after it unless it reported an error.
EditEnds == /\ summon_ing ~> ~summon_ing \/ told = "error"
            /\ \A a \in Activities : job[a] # Idle ~> job[a] = Idle
=============================================================================
