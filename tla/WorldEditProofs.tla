-------------------------- MODULE WorldEditProofs --------------------------
(* Theorems about the edit of a world, for any files, uuids and slots, any *)
(* pictures and any number of edits and ends of the process.               *)
EXTENDS WorldEdit, SequenceTheorems, TLAPS

States == {"absent", "torn", "whole"}
Items  == Uuids \cup {NoMap}
Player == UNION {[I -> Items] : I \in SUBSET Slots}
Data   == [player : Player, maps : [Uuids -> Nat]]
Dir    == [files : [Names -> States], data : Data]
Pieces == [bases : SUBSET Data, log : Data, cuts : SUBSET Data, stale : SUBSET Data]
Tiles  == {"get", "pick", "putPlayer", "putMap"}
Copies == {"copyOut", "copyBack"}
Stages == {"idle", "open", "close", "delOrig", "delCache", "done"} \cup Tiles \cup Copies
Job    == [pc : Stages, cache : Places, todo : SUBSET Names, busy : SUBSET Names,
           mixed : BOOLEAN, slots : Seq(asked), uuid : Items]

Copy(a) == disk[job[a].cache]                                 \* what an edit works on
Left(a) == {job[a].slots[i] : i \in DOMAIN job[a].slots}      \* the slots to come

----------------------------------------------------------------------------
(* One edit at a time                                                      *)

TypeInv ==
    /\ scenario \in Scenarios /\ scoped \in BOOLEAN
    /\ disk \in [Places -> Dir] /\ before \in Dir
    /\ pieces \in [Places -> Pieces] /\ flaws \subseteq {"stale", "torn"}
    /\ screen \in {"list"} \cup Activities /\ summon_ing \in BOOLEAN
    /\ job \in [Activities -> Job]
    /\ event \in {"none", "error", "complete"} /\ told \in {"none", "error", "ok"}
    /\ serial \in 0..MaxJobs /\ promised \subseteq Uuids
    /\ crashes \in 0..scenario.crashes /\ faults \in Nat
    /\ screen # "list" => screen \in scenario.activities

\* The activity in front runs the edit; GridPicActivity stays there until it has
\* handled its worker's message.
UIInv ==
    /\ job["import"] # Idle => screen = "import" /\ job["grid"] = Idle /\ event = "none"
    /\ job["grid"] # Idle => screen = "grid" /\ summon_ing /\ event = "none"
    /\ event # "none" => screen = "grid" /\ summon_ing /\ \A a \in Activities : job[a] = Idle
    /\ told = "ok" => event = "none" /\ \A a \in Activities : job[a] = Idle

\* What an edit has left to do at each stage
JobOK(a) ==
    LET j == job[a] IN
    /\ j.pc = "idle" => j = Idle
    /\ j.pc # "idle" => serial # 0 /\ j.cache \in 1..serial + 1
    /\ ~scoped => j.pc \notin Copies \cup {"delOrig", "delCache"}
    /\ j.busy \subseteq j.todo /\ \A m, n \in j.busy : m = n
    /\ j.pc \notin Copies => j.busy = {}
    /\ j.pc \in {"open", "close", "done"} \cup Tiles => j.todo = {}
    /\ j.pc \in {"copyOut", "open"} \cup Tiles <=> j.slots # <<>>
    /\ \A i, k \in DOMAIN j.slots : j.slots[i] = j.slots[k] => i = k
    /\ j.pc \in {"copyOut", "open"} => Left(a) = asked
    /\ j.pc \in Tiles \ {"get"} => Head(j.slots) \in DOMAIN Edited(a).player
    /\ j.pc \in {"putPlayer", "putMap"} => j.uuid \in Uuids /\ Edited(a).maps[j.uuid] = 0
    /\ j.pc = "putMap" => Edited(a).player[Head(j.slots)] = j.uuid
    /\ DB \in j.busy => disk[Target(a)].files[DB] = "torn"

\* The directories that were not used yet, and a world that is edited in place
PlaceInv ==
    /\ \A p \in serial + 2..MaxJobs + 1, n \in Names : disk[p].files[n] = "absent"
    /\ ~scoped =>
         /\ \A n \in Names : disk[World].files[n] = "whole"
         /\ \A p \in Places \ {World}, n \in Names : disk[p].files[n] = "absent"
         /\ \A u \in promised : disk[World].data.maps[u] # 0

EditInv == TypeInv /\ UIInv /\ (\A a \in Activities : JobOK(a)) /\ PlaceInv

\* A record, sequence or function after a step
LEMMA TailOK ==
    ASSUME NEW S, NEW s \in Seq(S), s # <<>>
    PROVE  /\ Tail(s) \in Seq(S) /\ Head(s) \in S /\ Len(s) \in Nat \ {0}
           /\ Len(Tail(s)) = Len(s) - 1
           /\ \A i \in 1..Len(s) - 1 : Tail(s)[i] = s[i + 1]
           /\ Head(s) = s[1]
           /\ Len(s) = 1 <=> Tail(s) = <<>>
<1>1. Len(s) \in Nat /\ Len(s) # 0
  BY EmptySeq
<1>2. Tail(s) \in Seq(S) /\ Len(Tail(s)) = Len(s) - 1
  BY <1>1
<1>3. Len(Tail(s)) = 0 <=> Tail(s) = <<>>
  BY <1>2, EmptySeq
<1> QED BY <1>1, <1>2, <1>3

LEMMA IdleJob == Idle \in [pc : Stages, cache : Places, todo : SUBSET Names, busy : SUBSET Names,
                           mixed : BOOLEAN, slots : {<<>>}, uuid : Items]
                 /\ \A S : <<>> \in Seq(S)
BY WorldEditAssumption DEF Idle, Stages, Places, World, Items

LEMMA NothingIsData == Nothing \in Data
<1>1. [s \in {} |-> NoMap] \in [{} -> Items] /\ {} \in SUBSET Slots
  OBVIOUS
<1>2. [s \in {} |-> NoMap] \in Player
  BY <1>1 DEF Player
<1>3. [u \in Uuids |-> 0] \in [Uuids -> Nat]
  OBVIOUS
<1> QED BY <1>2, <1>3 DEF Nothing, Data

\* What puts make of data
LEMMA OverData ==
    ASSUME NEW d \in Data, NEW e \in Data
    PROVE  Over(d, e) \in Data
BY DEF Over, Data

LEMMA OverNothing ==
    ASSUME NEW d \in Data
    PROVE  Over(d, Nothing) = d
<1>1. /\ Nothing.player = Nothing.player /\ \A u \in Uuids : Nothing.maps[u] = 0
  BY DEF Nothing
<1>2. d.maps \in [Uuids -> Nat] /\ d = [player |-> d.player, maps |-> d.maps]
  BY DEF Data
<1>3. [u \in Uuids |-> IF Nothing.maps[u] = 0 THEN d.maps[u] ELSE Nothing.maps[u]] = d.maps
  BY <1>1, <1>2
<1> QED BY <1>1, <1>2, <1>3 DEF Over

\* What a db opens with is data, and so is each put of its log.
LEMMA PiecesOK ==
    ASSUME NEW db \in Pieces
    PROVE  Recovered(db) \subseteq Data
<1> SUFFICES ASSUME NEW b \in db.bases, NEW c \in db.cuts, NEW r \in db.stale
             PROVE  Over(Over(b, c), r) \in Data
  BY DEF Recovered
<1>1. b \in Data /\ c \in Data /\ r \in Data
  BY DEF Pieces
<1>2. Over(b, c) \in Data
  BY <1>1, OverData
<1> QED BY <1>1, <1>2, OverData

LEMMA OpenedOK ==
    ASSUME NEW d \in Data
    PROVE  Opened(d) \in Pieces
BY NothingIsData DEF Opened, Pieces

LEMMA LoggedOK ==
    ASSUME NEW db \in Pieces, NEW log \in Data
    PROVE  Logged(db, log) \in Pieces
BY DEF Logged, Pieces

LEMMA RequestsOK ==
    ASSUME TypeInv, NEW a \in Activities, NEW slots \in Requests(a)
    PROVE  /\ slots \in Seq({slots[i] : i \in DOMAIN slots})
           /\ slots # <<>>
           /\ \A i, k \in DOMAIN slots : slots[i] = slots[k] => i = k
<1>1. CASE a = "import"
  BY <1>1 DEF Requests
<1>2. CASE a # "import"
  <2>1. scenario.tiles \in Nat
    BY WorldEditAssumption DEF TypeInv
  <2>2. PICK t \in 1..scenario.tiles : slots = [i \in 1..t |-> i - 1]
    BY <1>2 DEF Requests
  <2>3. t \in Nat \ {0} /\ DOMAIN slots = 1..t
    BY <2>1, <2>2
  <2>4. slots \in [1..t -> {slots[i] : i \in DOMAIN slots}]
    BY <2>2, <2>3
  <2>5. slots \in Seq({slots[i] : i \in DOMAIN slots})
    BY <2>3, <2>4, SeqDef
  <2>6. Len(slots) = t
    BY <2>3, <2>5, LenProperties
  <2> QED BY <2>2, <2>3, <2>5, <2>6, EmptySeq
<1> QED BY <1>1, <1>2

\* What the steps of an edit leave alone
LEMMA WorkFrame ==
    ASSUME TypeInv, NEW a \in Activities, JobOK(a), Work(a) \/ Trouble(a)
    PROVE  /\ job[a].pc # "idle"
           /\ UNCHANGED <<scenario, scoped, screen, summon_ing, serial, before, asked, crashes>>
           /\ job' = [job EXCEPT ![a] = job'[a]]
           /\ \A b \in Activities : b # a => job'[b] = job[b]
           /\ faults' \in Nat /\ faults' >= faults
<1> USE DEF Rest, Quiet, Becomes, NoFault, Fault, Runs, Fail, Succeed, last, TypeInv
<1>1. CASE StageEnds(a)
  BY <1>1 DEF StageEnds
<1>9. CASE Open(a)
  BY <1>9 DEF Open
<1>10. CASE Pick(a)
  BY <1>10 DEF Pick
<1>8. CASE Get(a)
  BY <1>8 DEF Get, TileDone
<1>2. CASE PutPlayer(a) \/ PutMap(a) \/ Finish(a) \/ PutFails(a)
  BY <1>2 DEF PutPlayer, PutMap, Finish, PutFails
<1>3. CASE OpenFails(a) \/ CopyThrows(a)
  BY <1>3 DEF OpenFails, CopyThrows
<1>4. CASE \E n \in Names : BeginCopy(a, n)
  BY <1>4 DEF BeginCopy
<1>5. CASE \E n \in Names : EndCopy(a, n)
  BY <1>5 DEF EndCopy, JobOK, Copies
<1>6. CASE \E n \in Names : CopyFails(a, n)
  BY <1>6 DEF CopyFails
<1>7. CASE \E n \in Names : Delete(a, n) \/ DeleteFails(a, n)
  BY <1>7 DEF Delete, DeleteFails
<1> QED BY <1>1, <1>2, <1>3, <1>4, <1>5, <1>6, <1>7, <1>8, <1>9, <1>10 DEF Work, Trouble

\* How a file, and the data of a db, change in a directory
LEMMA DirFile ==
    ASSUME NEW d \in [Places -> Dir], NEW p \in Places, NEW n \in Names, NEW st \in States
    PROVE  LET e == [d EXCEPT ![p].files[n] = st]
           IN  /\ e \in [Places -> Dir]
               /\ \A q \in Places : q # p => e[q] = d[q]
               /\ e[p].data = d[p].data /\ e[p].files[n] = st
               /\ \A m \in Names : m # n => e[p].files[m] = d[p].files[m]
BY DEF Dir

LEMMA PutItem ==
    ASSUME NEW d \in [Places -> Dir], NEW p \in Places, NEW s \in DOMAIN d[p].data.player,
           NEW u \in Items
    PROVE  LET e == [d EXCEPT ![p].data.player[s] = u]
           IN  /\ e \in [Places -> Dir]
               /\ \A q \in Places : q # p => e[q] = d[q]
               /\ e[p].files = d[p].files /\ e[p].data.maps = d[p].data.maps
               /\ DOMAIN e[p].data.player = DOMAIN d[p].data.player
               /\ e[p].data.player[s] = u
               /\ \A t \in DOMAIN d[p].data.player : t # s =>
                    e[p].data.player[t] = d[p].data.player[t]
<1> DEFINE D == d[p].data
           P == [D.player EXCEPT ![s] = u]
           e == [d EXCEPT ![p].data.player[s] = u]
<1>1. D \in Data /\ d[p].files \in [Names -> States]
  BY DEF Dir
<1>2. PICK I \in SUBSET Slots : D.player \in [I -> Items]
  BY <1>1 DEF Data, Player
<1>3. P \in [I -> Items] /\ P[s] = u /\ \A t \in I : t # s => P[t] = D.player[t]
  BY <1>2
<1>4. P \in Player
  BY <1>3 DEF Player
<1>5. [player |-> P, maps |-> D.maps] \in Data
  BY <1>1, <1>4 DEF Data
<1>6. e[p] = [files |-> d[p].files, data |-> [player |-> P, maps |-> D.maps]]
  BY <1>1 DEF Dir, Data
<1>7. e[p] \in Dir
  BY <1>1, <1>5, <1>6 DEF Dir
<1>8. e \in [Places -> Dir] /\ \A q \in Places : q # p => e[q] = d[q]
  BY <1>7
<1> QED BY <1>2, <1>3, <1>6, <1>8

LEMMA PlacesOK ==
    ASSUME TypeInv, NEW a \in Activities
    PROVE  /\ Source(a) \in Places /\ Target(a) \in Places /\ Where(a) \in Places
           /\ World \in Places /\ job[a] \in Job /\ Edited(a) \in Data
           /\ \A p \in Places : disk[p] \in Dir /\ \A n \in Names : disk[p].files[n] \in States
           /\ DB \in Names
<1>1. job[a] \in Job
  BY DEF TypeInv
<1>2. World \in Places
  BY WorldEditAssumption DEF World, Places
<1>3. Source(a) \in Places /\ Target(a) \in Places /\ Where(a) \in Places
  BY <1>1, <1>2 DEF Source, Target, Where, Job
<1>4. \A p \in Places : disk[p] \in Dir /\ \A n \in Names : disk[p].files[n] \in States
  BY DEF TypeInv, Dir
<1> QED BY <1>1, <1>2, <1>3, <1>4 DEF Edited, Dir, Names

SameStage(a) == /\ job'[a].pc = job[a].pc /\ job'[a].cache = job[a].cache
                /\ job'[a].slots = job[a].slots /\ job'[a].uuid = job[a].uuid

\* The steps of a copy and of a deletion
LEMMA BeginCopyEffect ==
    ASSUME TypeInv, NEW a \in Activities, NEW n \in Names, BeginCopy(a, n)
    PROVE  /\ job[a].pc \in Copies /\ job[a].busy = {} /\ n \in job[a].todo
           /\ SameStage(a) /\ job'[a].todo = job[a].todo /\ job'[a].busy = {n}
           /\ job'[a].mixed => n = DB /\ disk[Target(a)].files[n] # "absent"
           /\ job'[a] \in Job /\ Target(a) \in Places
           /\ disk' \in [Places -> Dir]
           /\ \A q \in Places : q # Target(a) => disk'[q] = disk[q]
           /\ disk'[Target(a)].data = disk[Target(a)].data
           /\ disk'[Target(a)].files[n] = "torn"
           /\ \A m \in Names : m # n => disk'[Target(a)].files[m] = disk[Target(a)].files[m]
           /\ UNCHANGED <<event, told, promised, faults>>
<1>1. disk' = [disk EXCEPT ![Target(a)].files[n] = "torn"] /\ "torn" \in States
  BY DEF BeginCopy, States
<1>2. disk \in [Places -> Dir] /\ Target(a) \in Places /\ job[a] \in Job
  BY PlacesOK DEF TypeInv
<1>3. job'[a] = [job[a] EXCEPT !.busy = {n},
                    !.mixed = n = DB /\ disk[Target(a)].files[n] # "absent"]
  BY DEF BeginCopy, Becomes, TypeInv
<1>4. /\ job'[a] \in Job /\ SameStage(a) /\ job'[a].todo = job[a].todo /\ job'[a].busy = {n}
      /\ job'[a].mixed => n = DB /\ disk[Target(a)].files[n] # "absent"
  <2> DEFINE b == n = DB /\ disk[Target(a)].files[n] # "absent"
  <2>1. b \in BOOLEAN
    OBVIOUS
  <2> HIDE DEF b
  <2>2. job'[a] = [job[a] EXCEPT !.busy = {n}, !.mixed = b]
    BY <1>3 DEF b
  <2>3. PICK m \in BOOLEAN : m = b
    BY <2>1
  <2>4. job'[a] = [job[a] EXCEPT !.busy = {n}, !.mixed = m]
    BY <2>2, <2>3, Zenon
  <2>5. job'[a] = [pc |-> job[a].pc, cache |-> job[a].cache, todo |-> job[a].todo,
                   busy |-> {n}, mixed |-> m, slots |-> job[a].slots, uuid |-> job[a].uuid]
    BY <1>2, <2>4 DEF Job
  <2>6. job'[a] \in Job
    BY <1>2, <2>5 DEF Job
  <2>7. m => n = DB /\ disk[Target(a)].files[n] # "absent"
    BY <2>3 DEF b
  <2> QED BY <2>5, <2>6, <2>7 DEF SameStage
<1>5. /\ disk' \in [Places -> Dir]
      /\ \A q \in Places : q # Target(a) => disk'[q] = disk[q]
      /\ disk'[Target(a)].data = disk[Target(a)].data
      /\ disk'[Target(a)].files[n] = "torn"
      /\ \A m \in Names : m # n => disk'[Target(a)].files[m] = disk[Target(a)].files[m]
  BY <1>1, <1>2, DirFile
<1>6. /\ job[a].pc \in Copies /\ job[a].busy = {} /\ n \in job[a].todo
      /\ UNCHANGED <<event, told, promised, faults>>
  BY DEF BeginCopy, Quiet, Files, NoFault, Copies
<1> QED BY <1>2, <1>3, <1>4, <1>5, <1>6

LEMMA EndCopyEffect ==
    ASSUME TypeInv, NEW a \in Activities, NEW n \in Names, EndCopy(a, n)
    PROVE  /\ n \in job[a].busy
           /\ SameStage(a) /\ job'[a].busy = {} /\ job'[a].todo = job[a].todo \ {n}
           /\ job'[a] \in Job /\ Target(a) \in Places
           /\ disk' \in [Places -> Dir]
           /\ \A q \in Places : q # Target(a) => disk'[q] = disk[q]
           /\ n # DB => disk'[Target(a)].data = disk[Target(a)].data
           /\ n = DB /\ ~job[a].mixed => disk'[Target(a)].data = disk[Source(a)].data
           /\ \/ disk'[Target(a)].files[n] = disk[Source(a)].files[n]
              \/ job[a].mixed /\ disk'[Target(a)].files[n] = "torn"
           /\ \A m \in Names : m # n => disk'[Target(a)].files[m] = disk[Target(a)].files[m]
           /\ UNCHANGED <<event, told, promised, faults>>
<1>2. /\ disk \in [Places -> Dir] /\ Target(a) \in Places /\ Source(a) \in Places
      /\ job[a] \in Job /\ disk[Source(a)] \in Dir /\ disk[Target(a)] \in Dir
  BY PlacesOK DEF TypeInv
<1>1. PICK st \in {disk[Source(a)].files[n]} \cup (IF job[a].mixed THEN {"torn"} ELSE {}),
           rest \in IF job[a].mixed THEN pieces[Target(a)].stale ELSE {Nothing} :
         disk' = [disk EXCEPT ![Target(a)].files[n] = st,
                              ![Target(a)].data = IF n # DB THEN @
                                                  ELSE Over(disk[Source(a)].data, rest)]
  BY DEF EndCopy
<1>3. st \in States
  BY <1>1, <1>2 DEF States, Dir
<1>9. /\ rest \in Data /\ disk[Source(a)].data \in Data /\ disk[Target(a)].data \in Data
      /\ ~job[a].mixed => rest = Nothing
  BY <1>1, <1>2, NothingIsData DEF Dir, TypeInv, Pieces
<1>10. /\ Over(disk[Source(a)].data, rest) \in Data
       /\ ~job[a].mixed => Over(disk[Source(a)].data, rest) = disk[Source(a)].data
  BY <1>9, OverData, OverNothing
<1> DEFINE D == IF n # DB THEN disk[Target(a)].data ELSE Over(disk[Source(a)].data, rest)
<1>4. /\ D \in Data /\ disk' = [disk EXCEPT ![Target(a)].files[n] = st, ![Target(a)].data = D]
      /\ n # DB => D = disk[Target(a)].data
      /\ n = DB /\ ~job[a].mixed => D = disk[Source(a)].data
  <2>1. D \in Data
    BY <1>9, <1>10
  <2>2. /\ n # DB => D = disk[Target(a)].data
        /\ n = DB /\ ~job[a].mixed => D = disk[Source(a)].data
    BY <1>10
  <2>3. disk' = [disk EXCEPT ![Target(a)].files[n] = st, ![Target(a)].data = D]
    BY <1>1, <1>2 DEF Dir
  <2> QED BY <2>1, <2>2, <2>3
<1>5. job'[a] = [job[a] EXCEPT !.busy = {}, !.todo = @ \ {n}]
  BY DEF EndCopy, Becomes, TypeInv
<1>6. job'[a] \in Job /\ SameStage(a) /\ job'[a].busy = {} /\ job'[a].todo = job[a].todo \ {n}
  BY <1>2, <1>5 DEF Job, SameStage
<1>7. n \in job[a].busy /\ UNCHANGED <<event, told, promised, faults>>
  BY DEF EndCopy, Quiet, Files, NoFault
<1> HIDE DEF D
<1>8. /\ disk' \in [Places -> Dir]
      /\ \A q \in Places : q # Target(a) => disk'[q] = disk[q]
      /\ disk'[Target(a)].data = D /\ disk'[Target(a)].files[n] = st
      /\ \A m \in Names : m # n => disk'[Target(a)].files[m] = disk[Target(a)].files[m]
  <2>1. D \in Data /\ disk' = [disk EXCEPT ![Target(a)].files[n] = st, ![Target(a)].data = D]
    BY <1>4
  <2>2. PICK E \in Data : E = D
    BY <2>1
  <2>3. PICK t \in Places : t = Target(a)
    BY <1>2
  <2>4. disk' = [disk EXCEPT ![t].files[n] = st, ![t].data = E]
    BY <2>1, <2>2, <2>3, Zenon
  <2>5. /\ disk' = [q \in Places |-> IF q = t THEN disk'[t] ELSE disk[q]]
        /\ disk'[t] = [files |-> [disk[t].files EXCEPT ![n] = st], data |-> E]
    <3>1. disk \in [Places -> Dir] /\ t \in Places
      BY <1>2
    <3> QED BY <2>4, <3>1 DEF Dir
  <2>6. disk'[t] \in Dir
    BY <1>2, <1>3, <2>5 DEF Dir
  <2>7. disk' \in [Places -> Dir] /\ \A q \in Places : q # t => disk'[q] = disk[q]
    BY <1>2, <2>5, <2>6
  <2>8. /\ disk'[t].data = E /\ disk'[t].files[n] = st
        /\ \A m \in Names : m # n => disk'[t].files[m] = disk[t].files[m]
    BY <1>2, <2>5 DEF Dir
  <2> QED BY <2>2, <2>3, <2>7, <2>8
<1> QED BY <1>1, <1>2, <1>4, <1>6, <1>7, <1>8

LEMMA DeleteEffect ==
    ASSUME TypeInv, NEW a \in Activities, NEW n \in Names, Delete(a, n)
    PROVE  /\ job[a].pc \in {"delOrig", "delCache"} /\ n \in job[a].todo
           /\ \/ /\ n = DB /\ disk[Target(a)].files[n] = "whole"
                 /\ disk'[Target(a)].files[n] = "torn" /\ job'[a].todo = job[a].todo
              \/ /\ disk'[Target(a)].files[n] = "absent" /\ job'[a].todo = job[a].todo \ {n}
           /\ SameStage(a) /\ job'[a].busy = job[a].busy
           /\ job'[a] \in Job /\ Target(a) \in Places
           /\ disk' \in [Places -> Dir]
           /\ \A q \in Places : q # Target(a) => disk'[q] = disk[q]
           /\ disk'[Target(a)].data = disk[Target(a)].data
           /\ \A m \in Names : m # n => disk'[Target(a)].files[m] = disk[Target(a)].files[m]
           /\ UNCHANGED <<event, told, promised, faults>>
<1> DEFINE st == IF n = DB /\ disk[Target(a)].files[n] = "whole" THEN "torn" ELSE "absent"
<1>1. /\ disk' = [disk EXCEPT ![Target(a)].files[n] = st] /\ st \in States
      /\ Becomes(a, [job[a] EXCEPT !.todo = IF st = "absent" THEN @ \ {n} ELSE @])
  BY DEF Delete, States
<1>2. disk \in [Places -> Dir] /\ Target(a) \in Places /\ job[a] \in Job
  BY PlacesOK DEF TypeInv
<1>3. job'[a] = IF st = "absent" THEN [job[a] EXCEPT !.todo = @ \ {n}] ELSE job[a]
  BY <1>1, <1>2 DEF Becomes, TypeInv, Job
<1>4. /\ job'[a] \in Job /\ SameStage(a) /\ job'[a].busy = job[a].busy
      /\ job'[a].todo = IF st = "absent" THEN job[a].todo \ {n} ELSE job[a].todo
  BY <1>2, <1>3 DEF Job, SameStage
<1>5. /\ job[a].pc \in {"delOrig", "delCache"} /\ n \in job[a].todo
      /\ UNCHANGED <<event, told, promised, faults>>
  BY DEF Delete, Quiet, Files, NoFault
<1>6. st = "absent" \/ (st = "torn" /\ n = DB /\ disk[Target(a)].files[n] = "whole")
  OBVIOUS
<1> HIDE DEF st
<1>7. /\ disk' \in [Places -> Dir]
      /\ \A q \in Places : q # Target(a) => disk'[q] = disk[q]
      /\ disk'[Target(a)].data = disk[Target(a)].data /\ disk'[Target(a)].files[n] = st
      /\ \A m \in Names : m # n => disk'[Target(a)].files[m] = disk[Target(a)].files[m]
  BY <1>1, <1>2, DirFile
<1> QED BY <1>2, <1>3, <1>4, <1>5, <1>6, <1>7

\* The steps of a tile
LEMMA TileDoneEffect ==
    ASSUME NEW j \in Job, j.slots # <<>>
    PROVE  LET k == TileDone(j) IN
           /\ k \in Job /\ k.slots = Tail(j.slots)
           /\ k.pc = IF k.slots = <<>> THEN "close" ELSE "get"
           /\ k.cache = j.cache /\ k.todo = j.todo /\ k.busy = j.busy /\ k.uuid = j.uuid
<1>1. j.slots \in Seq(asked)
  BY DEF Job
<1>2. Tail(j.slots) \in Seq(asked) /\ (Len(j.slots) = 1 <=> Tail(j.slots) = <<>>)
  BY <1>1, TailOK
<1>3. TileDone(j) = [j EXCEPT !.slots = Tail(j.slots),
                              !.pc = IF Len(j.slots) = 1 THEN "close" ELSE "get"]
  BY DEF TileDone
<1>4. PICK s \in Seq(asked) : s = Tail(j.slots)
  BY <1>2
<1>5. PICK pc \in {"close", "get"} : pc = IF Len(j.slots) = 1 THEN "close" ELSE "get"
  OBVIOUS
<1>6. TileDone(j) = [j EXCEPT !.slots = s, !.pc = pc]
  BY <1>3, <1>4, <1>5, Zenon
<1>7. pc \in Stages
  BY DEF Stages, Tiles
<1>8. TileDone(j) = [pc |-> pc, cache |-> j.cache, todo |-> j.todo, busy |-> j.busy,
                     mixed |-> j.mixed, slots |-> s, uuid |-> j.uuid]
  BY <1>6 DEF Job
<1>9. TileDone(j) \in Job
  BY <1>7, <1>8 DEF Job
<1> QED BY <1>2, <1>4, <1>5, <1>8, <1>9

LEMMA StageEndsEffect ==
    ASSUME TypeInv, NEW a \in Activities, StageEnds(a)
    PROVE  /\ job[a].pc \in {"copyOut", "close", "delOrig", "copyBack", "delCache"}
           /\ job[a].todo = {}
           /\ job'[a].pc = After(job[a].pc) /\ job'[a].pc # "idle"
           /\ job'[a].todo = WorkOf(After(job[a].pc), job[a].cache)
           /\ job'[a].cache = job[a].cache /\ job'[a].busy = job[a].busy
           /\ job'[a].slots = job[a].slots /\ job'[a].uuid = job[a].uuid
           /\ job'[a] \in Job
           /\ UNCHANGED <<disk, event, told, promised, faults>>
<1> DEFINE pc == After(job[a].pc)
           todo == WorkOf(pc, job[a].cache)
<1>1. /\ job[a].pc \in {"copyOut", "close", "delOrig", "copyBack", "delCache"}
      /\ job[a].todo = {}
      /\ UNCHANGED <<disk, event, told, promised, faults>>
      /\ job'[a] = [job[a] EXCEPT !.pc = pc, !.todo = todo]
  BY DEF StageEnds, Becomes, Quiet, Files, NoFault, TypeInv
<1>2. pc \in Stages /\ pc # "idle"
  BY <1>1 DEF After, Stages, Copies
<1>3. todo \subseteq Names
  BY DEF WorkOf, Listing
<1>4. PICK s \in Stages, t \in SUBSET Names : s = pc /\ t = todo
  BY <1>2, <1>3
<1>5. job'[a] = [job[a] EXCEPT !.pc = s, !.todo = t] /\ job[a] \in Job
  BY <1>1, <1>4, PlacesOK, Zenon
<1>6. job'[a] = [pc |-> s, cache |-> job[a].cache, todo |-> t, busy |-> job[a].busy,
                 mixed |-> job[a].mixed, slots |-> job[a].slots, uuid |-> job[a].uuid]
  BY <1>5 DEF Job
<1>7. job'[a] \in Job
  BY <1>5, <1>6 DEF Job
<1> QED BY <1>1, <1>2, <1>4, <1>6, <1>7

LEMMA OpenEffect ==
    ASSUME TypeInv, NEW a \in Activities, Open(a)
    PROVE  LET p == Where(a) IN
           /\ job[a].pc = "open" /\ job'[a] = [job[a] EXCEPT !.pc = "get"]
           /\ job'[a] \in Job /\ p \in Places
           /\ disk' \in [Places -> Dir]
           /\ \A q \in Places : q # p => disk'[q] = disk[q]
           /\ disk'[p].files[DB] = "whole"
           /\ disk[p].files[DB] = "whole" => disk'[p].data = disk[p].data
           /\ disk[p].files[DB] = "absent" => disk'[p].data = Nothing
           /\ \A m \in Names : m # DB => disk'[p].files[m] = disk[p].files[m]
           /\ pieces' \in [Places -> Pieces]
           /\ flaws' = flaws \cup ({disk[p].files[DB]} \cap {"torn"})
           /\ UNCHANGED <<event, told, promised, faults>>
<1>1. /\ disk \in [Places -> Dir] /\ Where(a) \in Places /\ disk[Where(a)] \in Dir
      /\ job[a] \in Job /\ DB \in Names /\ "whole" \in States
      /\ disk[Where(a)].files[DB] \in States
  BY PlacesOK DEF TypeInv, States
<1>2. PICK p \in Places : p = Where(a)
  BY <1>1
<1> DEFINE D == CASE disk[p].files[DB] = "whole"  -> {disk[p].data}
                  [] disk[p].files[DB] = "absent" -> {Nothing}
                  [] disk[p].files[DB] = "torn"   -> Recovered(pieces[p])
<1>3. PICK E \in D : /\ disk' = [disk EXCEPT ![p].files[DB] = "whole", ![p].data = E]
                     /\ pieces' = [pieces EXCEPT ![p] = Opened(E)]
  BY <1>2 DEF Open
<1>4. /\ E \in Data
      /\ disk[p].files[DB] = "whole" => E = disk[p].data
      /\ disk[p].files[DB] = "absent" => E = Nothing
  <2>1. disk[p].data \in Data /\ Nothing \in Data
    BY <1>1, <1>2, NothingIsData DEF Dir
  <2>2. Recovered(pieces[p]) \subseteq Data
    BY PiecesOK DEF TypeInv
  <2>3. CASE disk[p].files[DB] = "whole"
    BY <1>3, <2>1, <2>3
  <2>4. CASE disk[p].files[DB] = "absent"
    BY <1>3, <2>1, <2>4
  <2>5. CASE disk[p].files[DB] = "torn"
    BY <1>3, <2>2, <2>5
  <2> QED BY <1>1, <1>2, <2>3, <2>4, <2>5 DEF States
<1> HIDE DEF D
<1>5. /\ disk' = [q \in Places |-> IF q = p THEN disk'[p] ELSE disk[q]]
      /\ disk'[p] = [files |-> [disk[p].files EXCEPT ![DB] = "whole"], data |-> E]
  BY <1>1, <1>2, <1>3 DEF Dir
<1>6. disk'[p] \in Dir
  BY <1>1, <1>2, <1>4, <1>5 DEF Dir
<1>7. disk' \in [Places -> Dir] /\ \A q \in Places : q # p => disk'[q] = disk[q]
  BY <1>1, <1>5, <1>6
<1>8. /\ disk'[p].data = E /\ disk'[p].files[DB] = "whole"
      /\ \A m \in Names : m # DB => disk'[p].files[m] = disk[p].files[m]
  BY <1>1, <1>2, <1>5 DEF Dir
<1>9. /\ job[a].pc = "open" /\ job'[a] = [job[a] EXCEPT !.pc = "get"]
      /\ flaws' = flaws \cup ({disk[p].files[DB]} \cap {"torn"})
      /\ UNCHANGED <<event, told, promised, faults>>
  BY <1>2 DEF Open, Runs, Becomes, Quiet, NoFault, TypeInv
<1>10. job'[a] \in Job
  BY <1>1, <1>9 DEF Job, Stages, Tiles
<1>11. pieces' \in [Places -> Pieces]
  BY <1>3, <1>4, OpenedOK DEF TypeInv
<1> QED BY <1>1, <1>2, <1>4, <1>7, <1>8, <1>9, <1>10, <1>11

LEMMA GetEffect ==
    ASSUME TypeInv, NEW a \in Activities, JobOK(a), Get(a)
    PROVE  /\ job[a].pc = "get" /\ job[a].slots # <<>>
           /\ \/ /\ Head(job[a].slots) \in DOMAIN Edited(a).player
                 /\ job'[a] = [job[a] EXCEPT !.pc = "pick"]
              \/ /\ Head(job[a].slots) \notin DOMAIN Edited(a).player
                 /\ job'[a] = TileDone(job[a])
           /\ job'[a] \in Job
           /\ UNCHANGED <<disk, event, told, promised, faults>>
<1>1. /\ job[a].pc = "get" /\ UNCHANGED <<disk, event, told, promised, faults>>
      /\ job'[a] = IF Head(job[a].slots) \in DOMAIN Edited(a).player
                   THEN [job[a] EXCEPT !.pc = "pick"] ELSE TileDone(job[a])
  BY DEF Get, Runs, Becomes, Quiet, Files, NoFault, TypeInv
<1>2. job[a].slots # <<>> /\ job[a] \in Job
  BY <1>1, PlacesOK DEF JobOK, Tiles
<1>3. TileDone(job[a]) \in Job
  BY <1>2, TileDoneEffect
<1>4. [job[a] EXCEPT !.pc = "pick"] \in Job
  BY <1>2 DEF Job, Stages, Tiles
<1> QED BY <1>1, <1>2, <1>3, <1>4

LEMMA PickEffect ==
    ASSUME TypeInv, NEW a \in Activities, Pick(a)
    PROVE  \E u \in FreeUuids(Edited(a)) :
           /\ job[a].pc = "pick"
           /\ job'[a] = [job[a] EXCEPT !.pc = "putPlayer", !.uuid = u]
           /\ job'[a] \in Job
           /\ UNCHANGED <<disk, event, told, promised, faults>>
<1>1. PICK u \in FreeUuids(Edited(a)) :
         job'[a] = [job[a] EXCEPT !.pc = "putPlayer", !.uuid = u]
  BY DEF Pick, Becomes, TypeInv
<1>2. u \in Items /\ job[a] \in Job
  BY PlacesOK DEF FreeUuids, Items
<1>3. job'[a] = [pc |-> "putPlayer", cache |-> job[a].cache, todo |-> job[a].todo,
                 busy |-> job[a].busy, mixed |-> job[a].mixed, slots |-> job[a].slots, uuid |-> u]
  BY <1>1, <1>2 DEF Job
<1>4. job'[a] \in Job
  BY <1>2, <1>3 DEF Job, Stages, Tiles
<1> QED BY <1>1, <1>4 DEF Pick, Runs, Quiet, Files, NoFault

LEMMA PutPlayerEffect ==
    ASSUME TypeInv, NEW a \in Activities, JobOK(a), PutPlayer(a)
    PROVE  LET s == Head(job[a].slots)
               old == Edited(a)
               new == disk'[Where(a)].data
           IN  /\ job[a].pc = "putPlayer" /\ job'[a] = [job[a] EXCEPT !.pc = "putMap"]
               /\ job'[a] \in Job /\ Where(a) \in Places
               /\ s \in DOMAIN old.player
               /\ disk' \in [Places -> Dir]
               /\ \A q \in Places : q # Where(a) => disk'[q] = disk[q]
               /\ disk'[Where(a)].files = disk[Where(a)].files /\ new.maps = old.maps
               /\ DOMAIN new.player = DOMAIN old.player
               /\ new.player[s] = job[a].uuid
               /\ \A t \in DOMAIN old.player : t # s => new.player[t] = old.player[t]
               /\ UNCHANGED <<event, told, promised, faults>>
<1>1. /\ job[a].pc = "putPlayer" /\ job'[a] = [job[a] EXCEPT !.pc = "putMap"]
      /\ UNCHANGED <<event, told, promised, faults>>
      /\ disk' = [disk EXCEPT ![Where(a)].data.player[Head(job[a].slots)] = job[a].uuid]
  BY DEF PutPlayer, Runs, Becomes, Quiet, Files, NoFault, TypeInv
<1>2. /\ Where(a) \in Places /\ disk \in [Places -> Dir] /\ job[a] \in Job
      /\ job[a].uuid \in Items /\ Head(job[a].slots) \in DOMAIN disk[Where(a)].data.player
  BY <1>1, PlacesOK DEF TypeInv, JobOK, Tiles, Edited, Job
<1>3. job'[a] \in Job
  BY <1>1, <1>2 DEF Job, Stages, Tiles
<1>4. /\ disk' \in [Places -> Dir]
      /\ \A q \in Places : q # Where(a) => disk'[q] = disk[q]
      /\ disk'[Where(a)].files = disk[Where(a)].files
      /\ disk'[Where(a)].data.maps = disk[Where(a)].data.maps
      /\ DOMAIN disk'[Where(a)].data.player = DOMAIN disk[Where(a)].data.player
      /\ disk'[Where(a)].data.player[Head(job[a].slots)] = job[a].uuid
      /\ \A t \in DOMAIN disk[Where(a)].data.player : t # Head(job[a].slots) =>
           disk'[Where(a)].data.player[t] = disk[Where(a)].data.player[t]
  BY <1>1, <1>2, PutItem
<1> QED BY <1>1, <1>2, <1>3, <1>4 DEF Edited

LEMMA PutMapEffect ==
    ASSUME TypeInv, NEW a \in Activities, JobOK(a), PutMap(a)
    PROVE  LET u == job[a].uuid
               old == Edited(a)
               new == disk'[Where(a)].data
           IN  /\ job[a].pc = "putMap" /\ job'[a] = TileDone(job[a]) /\ job[a].slots # <<>>
               /\ job'[a] \in Job /\ Where(a) \in Places /\ u \in Uuids
               /\ disk' \in [Places -> Dir]
               /\ \A q \in Places : q # Where(a) => disk'[q] = disk[q]
               /\ disk'[Where(a)].files = disk[Where(a)].files /\ new.player = old.player
               /\ new.maps[u] = serial /\ serial # 0
               /\ \A v \in Uuids : v # u => new.maps[v] = old.maps[v]
               /\ UNCHANGED <<event, told, promised, faults>>
<1>1. /\ job[a].pc = "putMap" /\ job'[a] = TileDone(job[a])
      /\ UNCHANGED <<event, told, promised, faults>>
      /\ disk' = [disk EXCEPT ![Where(a)].data.maps[job[a].uuid] = serial]
  BY DEF PutMap, Runs, Becomes, Quiet, Files, NoFault, TypeInv
<1>2. /\ Where(a) \in Places /\ disk \in [Places -> Dir] /\ job[a] \in Job
      /\ job[a].uuid \in Uuids /\ serial \in Nat /\ job[a].slots # <<>>
  BY <1>1, PlacesOK, WorldEditAssumption DEF TypeInv, JobOK, Tiles
<1>3. job'[a] \in Job
  BY <1>1, <1>2, TileDoneEffect
<1>4. serial # 0
  BY <1>1, <1>2, WorldEditAssumption DEF JobOK
<1>5. /\ disk' \in [Places -> Dir]
      /\ \A q \in Places : q # Where(a) => disk'[q] = disk[q]
      /\ disk'[Where(a)].files = disk[Where(a)].files
      /\ disk'[Where(a)].data.player = disk[Where(a)].data.player
      /\ disk'[Where(a)].data.maps[job[a].uuid] = serial
      /\ \A v \in Uuids : v # job[a].uuid =>
           disk'[Where(a)].data.maps[v] = disk[Where(a)].data.maps[v]
  <2>1. PICK k \in Nat, p \in Places, u \in Uuids :
           k = serial /\ p = Where(a) /\ u = job[a].uuid
    BY <1>2
  <2>2. disk' = [disk EXCEPT ![p].data.maps[u] = k]
    BY <1>1, <2>1, Zenon
  <2>3. /\ disk' \in [Places -> Dir]
        /\ \A q \in Places : q # p => disk'[q] = disk[q]
        /\ disk'[p].files = disk[p].files
        /\ disk'[p].data.player = disk[p].data.player
        /\ disk'[p].data.maps[u] = k
        /\ \A v \in Uuids : v # u => disk'[p].data.maps[v] = disk[p].data.maps[v]
    <3>1. /\ disk' = [q \in Places |-> IF q = p THEN disk'[p] ELSE disk[q]]
          /\ disk'[p] = [files |-> disk[p].files,
                         data |-> [player |-> disk[p].data.player,
                                   maps |-> [disk[p].data.maps EXCEPT ![u] = k]]]
      BY <1>2, <2>2 DEF Dir, Data
    <3>2. disk'[p] \in Dir
      BY <1>2, <3>1 DEF Dir, Data
    <3>3. disk' \in [Places -> Dir] /\ \A q \in Places : q # p => disk'[q] = disk[q]
      BY <1>2, <3>1, <3>2
    <3> QED BY <1>2, <3>1, <3>3 DEF Dir, Data
  <2> QED BY <2>1, <2>3
<1> QED BY <1>1, <1>2, <1>3, <1>4, <1>5 DEF Edited

\* An edit ends, or something fails.
LEMMA FinishEffect ==
    ASSUME TypeInv, NEW a \in Activities, Finish(a)
    PROVE  /\ job[a].pc = "done" /\ job'[a] = Idle /\ job'[a] \in Job
           /\ \/ /\ a = "grid" /\ event' = "complete" /\ UNCHANGED <<told, promised>>
              \/ /\ a = "import" /\ event' = event /\ told' = "ok"
                 /\ promised' = promised \cup {u \in Uuids : disk[World].data.maps[u] # 0}
           /\ UNCHANGED <<disk, faults>>
BY IdleJob DEF Finish, Runs, Becomes, Succeed, Rest, Files, NoFault, TypeInv, Job, Activities

LEMMA TroubleEffect ==
    ASSUME TypeInv, NEW a \in Activities, JobOK(a), Trouble(a)
    PROVE  /\ UNCHANGED <<disk, promised>> /\ job'[a] \in Job
           /\ faults' > faults \/ (faults' = faults /\ OpenFails(a))
           /\ \/ /\ job'[a] = Idle
                 /\ \/ a = "grid" /\ event' = "error" /\ told' = told
                    \/ a = "import" /\ event' = event /\ told' = "error"
              \/ /\ job[a].pc \in {"putPlayer", "putMap"} /\ job'[a] = TileDone(job[a])
                 /\ job[a].slots # <<>> /\ UNCHANGED <<event, told>>
              \/ /\ job[a].pc \in {"copyOut", "copyBack"}
                 /\ \E n \in job[a].todo : job'[a].todo = job[a].todo \ {n}
                 /\ SameStage(a) /\ job'[a].busy = {}
                 /\ UNCHANGED <<event, told>>
              \/ /\ job[a].pc \in {"delOrig", "delCache"}
                 /\ \E n \in job[a].todo : job'[a].todo = job[a].todo \ {n}
                 /\ SameStage(a) /\ job'[a].busy = job[a].busy
                 /\ UNCHANGED <<event, told>>
<1>1. job[a] \in Job /\ Idle \in Job /\ faults \in Nat
  BY PlacesOK, IdleJob DEF Job, TypeInv
<1> USE DEF Becomes, NoFault, Fault, Quiet, Files
<1>2. CASE OpenFails(a) \/ CopyThrows(a)
  <2>1. job'[a] = Idle /\ UNCHANGED <<disk, promised>>
    BY <1>2 DEF OpenFails, CopyThrows, Fail, TypeInv
  <2>2. \/ a = "grid" /\ event' = "error" /\ told' = told
        \/ a = "import" /\ event' = event /\ told' = "error"
    BY <1>2 DEF OpenFails, CopyThrows, Fail, Activities
  <2>3. faults' > faults \/ (faults' = faults /\ OpenFails(a))
    BY <1>1, <1>2 DEF OpenFails, CopyThrows
  <2> QED BY <1>1, <2>1, <2>2, <2>3
<1>3. CASE PutFails(a)
  <2>1. /\ job[a].pc \in {"putPlayer", "putMap"} /\ job'[a] = TileDone(job[a])
        /\ UNCHANGED <<disk, event, told, promised>> /\ faults' > faults
    BY <1>1, <1>3 DEF PutFails, TypeInv
  <2>2. job[a].slots # <<>>
    BY <2>1 DEF JobOK, Tiles
  <2>3. TileDone(job[a]) \in Job
    BY <1>1, <2>2, TileDoneEffect
  <2> QED BY <2>1, <2>2, <2>3
<1>4. CASE \E n \in Names : CopyFails(a, n)
  <2>1. PICK n \in job[a].todo : /\ job[a].pc \in {"copyOut", "copyBack"}
                                 /\ job'[a] = [job[a] EXCEPT !.busy = {}, !.todo = @ \ {n}]
    BY <1>4 DEF CopyFails, TypeInv
  <2>2. job'[a] \in Job /\ SameStage(a) /\ job'[a].busy = {} /\ job'[a].todo = job[a].todo \ {n}
    BY <1>1, <2>1 DEF Job, SameStage
  <2>3. UNCHANGED <<disk, event, told, promised>> /\ faults' > faults
    BY <1>1, <1>4 DEF CopyFails
  <2> QED BY <2>1, <2>2, <2>3
<1>5. CASE \E n \in Names : DeleteFails(a, n)
  <2>1. PICK n \in job[a].todo : /\ job[a].pc \in {"delOrig", "delCache"}
                                 /\ job'[a] = [job[a] EXCEPT !.todo = @ \ {n}]
    BY <1>5 DEF DeleteFails, TypeInv
  <2>2. /\ job'[a] \in Job /\ SameStage(a) /\ job'[a].busy = job[a].busy
        /\ job'[a].todo = job[a].todo \ {n}
    BY <1>1, <2>1 DEF Job, SameStage
  <2>3. UNCHANGED <<disk, event, told, promised>> /\ faults' > faults
    BY <1>1, <1>5 DEF DeleteFails
  <2> QED BY <2>1, <2>2, <2>3
<1> QED BY <1>2, <1>3, <1>4, <1>5 DEF Trouble

----------------------------------------------------------------------------
(* The steps keep what concerns one edit.                                  *)

\* What the steps of an edit do to the directories
LEMMA WorkDisk ==
    ASSUME TypeInv, NEW a \in Activities, JobOK(a), Work(a) \/ Trouble(a)
    PROVE  /\ disk' \in [Places -> Dir] /\ job'[a] \in Job
           /\ \/ disk' = disk
              \/ /\ job[a].pc \in {"open", "putPlayer", "putMap"}
                 /\ \A q \in Places : q # Where(a) => disk'[q] = disk[q]
                 /\ \A n \in Names : disk'[Where(a)].files[n] = disk[Where(a)].files[n]
                                     \/ (n = DB /\ disk'[Where(a)].files[n] = "whole")
              \/ /\ job[a].pc \in {"copyOut", "copyBack", "delOrig", "delCache"}
                 /\ \A q \in Places : q # Target(a) => disk'[q] = disk[q]
           /\ promised' = promised \/ (Finish(a) /\ a = "import")
           /\ promised' \subseteq Uuids
<1>0. disk \in [Places -> Dir] /\ promised \subseteq Uuids
  BY DEF TypeInv
<1>1. CASE StageEnds(a)
  BY <1>0, <1>1, StageEndsEffect
<1>2. CASE Open(a)
  BY <1>0, <1>2, OpenEffect
<1>3. CASE Get(a)
  BY <1>0, <1>3, GetEffect
<1>4. CASE Pick(a)
  BY <1>0, <1>4, PickEffect
<1>5. CASE PutPlayer(a)
  BY <1>0, <1>5, PutPlayerEffect
<1>6. CASE PutMap(a)
  BY <1>0, <1>6, PutMapEffect
<1>7. CASE Finish(a)
  BY <1>0, <1>7, FinishEffect
<1>8. CASE \E n \in Names : BeginCopy(a, n)
  BY <1>0, <1>8, BeginCopyEffect DEF Copies
<1>9. CASE \E n \in Names : EndCopy(a, n)
  BY <1>0, <1>9, EndCopyEffect DEF JobOK, Copies
<1>10. CASE \E n \in Names : Delete(a, n)
  BY <1>0, <1>10, DeleteEffect
<1>11. CASE Trouble(a)
  BY <1>0, <1>11, TroubleEffect
<1> QED BY <1>1, <1>2, <1>3, <1>4, <1>5, <1>6, <1>7, <1>8, <1>9, <1>10, <1>11 DEF Work

LEMMA WorkCalls ==
    ASSUME TypeInv, NEW a \in Activities, JobOK(a), Work(a) \/ Trouble(a)
    PROVE  \/ job'[a].pc # "idle" /\ UNCHANGED <<event, told>>
           \/ job'[a] = Idle /\ a = "grid" /\ event' \in {"error", "complete"} /\ told' = told
           \/ job'[a] = Idle /\ a = "import" /\ event' = event /\ told' \in {"error", "ok"}
<1>0. job[a] \in Job /\ job[a].pc # "idle"
  BY PlacesOK, WorkFrame
<1>1. CASE StageEnds(a)
  BY <1>1, StageEndsEffect
<1>2. CASE Open(a)
  BY <1>0, <1>2, OpenEffect DEF Job
<1>3. CASE Get(a)
  BY <1>0, <1>3, GetEffect, TileDoneEffect DEF Job
<1>4. CASE Pick(a)
  BY <1>0, <1>4, PickEffect DEF Job
<1>5. CASE PutPlayer(a)
  BY <1>0, <1>5, PutPlayerEffect DEF Job
<1>6. CASE PutMap(a)
  BY <1>0, <1>6, PutMapEffect, TileDoneEffect
<1>7. CASE Finish(a)
  BY <1>7, FinishEffect
<1>8. CASE \E n \in Names : BeginCopy(a, n)
  BY <1>0, <1>8, BeginCopyEffect DEF SameStage
<1>9. CASE \E n \in Names : EndCopy(a, n)
  BY <1>0, <1>9, EndCopyEffect DEF SameStage
<1>10. CASE \E n \in Names : Delete(a, n)
  BY <1>0, <1>10, DeleteEffect DEF SameStage
<1>11. CASE Trouble(a)
  <2>1. job[a].slots # <<>> => TileDone(job[a]).pc # "idle"
    BY <1>0, TileDoneEffect
  <2> QED BY <1>0, <1>11, <2>1, TroubleEffect DEF SameStage
<1> QED BY <1>1, <1>2, <1>3, <1>4, <1>5, <1>6, <1>7, <1>8, <1>9, <1>10, <1>11 DEF Work

\* The files of the dbs stay pieces of dbs, and no flaw is forgotten.
LEMMA WorkPieces ==
    ASSUME TypeInv, NEW a \in Activities, JobOK(a), Work(a) \/ Trouble(a)
    PROVE  /\ pieces' \in [Places -> Pieces]
           /\ flaws' = flaws \/ (Open(a) /\ flaws' = flaws \cup {"torn"}
                                /\ disk[Where(a)].files[DB] = "torn")
<1>0. /\ pieces \in [Places -> Pieces] /\ Where(a) \in Places /\ Source(a) \in Places
      /\ Target(a) \in Places
  BY PlacesOK DEF TypeInv
<1>1. CASE StageEnds(a) \/ Get(a) \/ Pick(a) \/ Finish(a)
  BY <1>0, <1>1 DEF StageEnds, Get, Pick, Finish, Files
<1>2. CASE Open(a)
  <2>1. /\ pieces' \in [Places -> Pieces]
        /\ flaws' = flaws \cup ({disk[Where(a)].files[DB]} \cap {"torn"})
    BY <1>2, OpenEffect
  <2>2. CASE disk[Where(a)].files[DB] = "torn"
    BY <1>2, <2>1, <2>2
  <2>3. CASE disk[Where(a)].files[DB] # "torn"
    <3>1. flaws' = flaws
      BY <2>1, <2>3
    <3> QED BY <2>1, <3>1
  <2> QED BY <2>2, <2>3
<1>3. CASE PutPlayer(a)
  <2>1. /\ disk' \in [Places -> Dir] /\ flaws' = flaws
        /\ pieces' = [pieces EXCEPT ![Where(a)] =
                         Logged(@, [@.log EXCEPT !.player = disk'[Where(a)].data.player])]
    BY <1>3, PutPlayerEffect DEF PutPlayer
  <2>2. PICK p \in Places, db \in Pieces, pl \in Player :
           p = Where(a) /\ db = pieces[p] /\ pl = disk'[Where(a)].data.player
    BY <1>0, <2>1 DEF Dir, Data
  <2>3. [db.log EXCEPT !.player = pl] \in Data
    BY DEF Pieces, Data
  <2>4. Logged(db, [db.log EXCEPT !.player = pl]) \in Pieces
    BY <2>3, LoggedOK
  <2>5. pieces' = [pieces EXCEPT ![p] = Logged(db, [db.log EXCEPT !.player = pl])]
    BY <1>0, <2>1, <2>2
  <2> QED BY <1>0, <2>1, <2>4, <2>5
<1>4. CASE PutMap(a)
  <2>1. /\ flaws' = flaws /\ job[a].uuid \in Uuids /\ serial \in Nat
        /\ pieces' = [pieces EXCEPT ![Where(a)] =
                         Logged(@, [@.log EXCEPT !.maps[job[a].uuid] = serial])]
    <3>1. serial \in Nat
      BY WorldEditAssumption DEF TypeInv
    <3>2. job[a].uuid \in Uuids
      BY <1>4, PutMapEffect
    <3> QED BY <1>4, <3>1, <3>2 DEF PutMap
  <2>2. PICK p \in Places, db \in Pieces, u \in Uuids, k \in Nat :
           p = Where(a) /\ db = pieces[p] /\ u = job[a].uuid /\ k = serial
    BY <1>0, <2>1
  <2>3. [db.log EXCEPT !.maps[u] = k] \in Data
    BY DEF Pieces, Data
  <2>4. Logged(db, [db.log EXCEPT !.maps[u] = k]) \in Pieces
    BY <2>3, LoggedOK
  <2>5. pieces' = [pieces EXCEPT ![p] = Logged(db, [db.log EXCEPT !.maps[u] = k])]
    BY <1>0, <2>1, <2>2
  <2> QED BY <1>0, <2>1, <2>4, <2>5
<1>5. ASSUME NEW n \in Names, BeginCopy(a, n)
      PROVE  pieces' \in [Places -> Pieces] /\ flaws' = flaws
  <2>1. PICK p \in Places, q \in Places : p = Source(a) /\ q = Target(a)
    BY <1>0
  <2>2. Mixed(pieces[p], pieces[q]) \in Pieces
    BY <1>0 DEF Mixed, Pieces
  <2>3. PICK new \in Pieces : pieces' = [pieces EXCEPT ![q] = new]
    BY <1>0, <1>5, <2>1, <2>2 DEF BeginCopy
  <2> QED BY <1>0, <1>5, <2>3 DEF BeginCopy
<1>6. CASE \E n \in Names : EndCopy(a, n) \/ Delete(a, n)
  BY <1>0, <1>6 DEF EndCopy, Delete
<1>7. CASE Trouble(a)
  BY <1>0, <1>7 DEF Trouble, OpenFails, CopyThrows, PutFails, CopyFails, DeleteFails, Files
<1> QED BY <1>1, <1>2, <1>3, <1>4, <1>5, <1>6, <1>7 DEF Work

LEMMA FlawsStep ==
    ASSUME TypeInv, \A a \in Activities : JobOK(a), [Next]_vars
    PROVE  flaws \subseteq flaws' /\ flaws' \subseteq {"stale", "torn"}
<1>0. flaws \subseteq {"stale", "torn"}
  BY DEF TypeInv
<1>1. CASE \E a \in Activities : Work(a) \/ Trouble(a)
  BY <1>0, <1>1, WorkPieces
<1>2. CASE \E a \in Activities : \E slots \in Requests(a) : Start(a, slots)
  BY <1>0, <1>2 DEF Start
<1> QED BY <1>0, <1>1, <1>2 DEF Next, Leave, Deliver, Crash, Choose, vars

LEMMA TypeStep ==
    ASSUME TypeInv, UIInv, \A a \in Activities : JobOK(a), [Next]_vars
    PROVE  TypeInv'
<1>0. /\ scenario \in [activities : SUBSET {"import", "grid"},
                       tiles : Nat, crashes : Nat, faults : Nat]
      /\ MaxJobs \in Nat /\ crashes \in Nat /\ scenario.crashes \in Nat
  BY WorldEditAssumption DEF TypeInv
<1>f. flaws' \subseteq {"stale", "torn"}
  BY FlawsStep
<1>1. CASE UNCHANGED vars
  BY <1>1 DEF vars, ui, last, TypeInv, Job
<1>2. CASE Leave
  BY <1>2 DEF Leave, last, TypeInv, Job
<1>3. CASE Deliver
  BY <1>3 DEF Deliver, Succeed, last, TypeInv, Job
<1>4. CASE Crash
  <2>1. job' \in [Activities -> Job'] /\ crashes' \in 0..scenario.crashes
    <3>1. Idle \in Job' /\ job' = [b \in Activities |-> Idle] /\ crashes' = crashes + 1
      BY <1>4, IdleJob DEF Crash, last, Job
    <3>2. crashes < scenario.crashes
      BY <1>4 DEF Crash
    <3> QED BY <1>0, <3>1, <3>2
  <2> QED BY <1>4, <2>1 DEF Crash, last, TypeInv
<1>5. ASSUME NEW a \in Activities, Choose(a)
      PROVE  TypeInv'
  BY <1>5 DEF Choose, last, TypeInv, Job
<1>6. ASSUME NEW a \in Activities, NEW slots \in Requests(a), Start(a, slots)
      PROVE  TypeInv'
  <2>1. job[a] = Idle /\ job' = [job EXCEPT ![a] = job'[a]] /\ \A b \in Activities : job[b] = Idle
    BY <1>6 DEF Start, UIFree, UIInv, Activities, TypeInv, MayLeave
  <2>2. asked' = {slots[i] : i \in DOMAIN slots} /\ slots \in Seq(asked')
    BY <1>6, RequestsOK DEF Start
  <2>3. serial' \in 0..MaxJobs /\ CacheOf(a) \in Places
    BY <1>0, <1>6 DEF Start, TypeInv, CacheOf, Places
  <2> DEFINE pc == IF scoped THEN "copyOut" ELSE "open"
             todo == WorkOf(pc, World)
  <2>4. pc \in Stages /\ todo \subseteq Names
    BY DEF Stages, Copies, WorkOf, Listing
  <2>5. job'[a] = [Idle EXCEPT !.pc = pc, !.cache = CacheOf(a), !.slots = slots, !.todo = todo]
    BY <1>6 DEF Start, TypeInv
  <2> HIDE DEF pc, todo
  <2>6. job'[a] = [pc |-> pc, cache |-> CacheOf(a), todo |-> todo, busy |-> {},
                   mixed |-> FALSE, slots |-> slots, uuid |-> NoMap]
    BY <2>5 DEF Idle
  <2>7. job'[a] \in Job'
    BY <2>2, <2>3, <2>4, <2>6 DEF Job, Items
  <2>8. Idle \in Job'
    BY IdleJob DEF Job
  <2>9. job' \in [Activities -> Job']
    BY <2>1, <2>7, <2>8 DEF TypeInv
  <2>10. disk[World] \in Dir
    BY PlacesOK
  <2> QED BY <1>6, <1>f, <2>3, <2>9, <2>10 DEF Start, TypeInv
<1>7. ASSUME NEW a \in Activities, Work(a) \/ Trouble(a)
      PROVE  TypeInv'
  <2>1. job'[a] \in Job /\ disk' \in [Places -> Dir] /\ promised' \subseteq Uuids
    BY <1>7, WorkDisk
  <2>2. event' \in {"none", "error", "complete"} /\ told' \in {"none", "error", "ok"}
    BY <1>7, WorkCalls DEF TypeInv
  <2>3. job' = [job EXCEPT ![a] = job'[a]] /\ faults' \in Nat
        /\ UNCHANGED <<scenario, scoped, screen, summon_ing, serial, before, asked, crashes>>
    BY <1>7, WorkFrame
  <2>4. job' \in [Activities -> Job'] /\ Job' = Job
    BY <2>1, <2>3 DEF TypeInv, Job
  <2>5. pieces' \in [Places -> Pieces]
    BY <1>7, WorkPieces
  <2> QED BY <1>f, <2>1, <2>2, <2>3, <2>4, <2>5 DEF TypeInv
<1> QED BY <1>1, <1>2, <1>3, <1>4, <1>5, <1>6, <1>7 DEF Next

LEMMA UIStep ==
    ASSUME TypeInv, UIInv, \A a \in Activities : JobOK(a), [Next]_vars
    PROVE  UIInv'
<1>0. Activities = {"import", "grid"} /\ Idle.pc = "idle" /\ job \in [Activities -> Job]
  BY DEF Activities, Idle, TypeInv
<1>1. CASE UNCHANGED vars
  BY <1>1 DEF vars, ui, last, UIInv
<1>2. CASE Leave
  BY <1>0, <1>2 DEF Leave, last, UIInv, UIFree, MayLeave
<1>3. CASE Deliver
  BY <1>0, <1>3 DEF Deliver, Succeed, last, UIInv
<1>4. CASE Crash
  BY <1>0, <1>4 DEF Crash, last, UIInv
<1>5. ASSUME NEW a \in Activities, Choose(a)
      PROVE  UIInv'
  BY <1>0, <1>5 DEF Choose, last, UIInv
<1>6. ASSUME NEW a \in Activities, NEW slots \in Requests(a), Start(a, slots)
      PROVE  UIInv'
  <2>1. screen = a /\ screen' = screen /\ ~summon_ing /\ summon_ing' = (a = "grid") /\ told' = "none"
        /\ event' = event
    BY <1>6 DEF Start
  <2>2. \A b \in Activities : b # a => job'[b] = job[b]
    BY <1>0, <1>6 DEF Start
  <2>3. event = "none" /\ job["import"] = Idle /\ job["grid"] = Idle
    BY <1>0, <1>6, <2>1 DEF UIInv, Start, UIFree
  <2> QED BY <1>0, <2>1, <2>2, <2>3 DEF UIInv
<1>7. ASSUME NEW a \in Activities, Work(a) \/ Trouble(a)
      PROVE  UIInv'
  <2>1. /\ job[a].pc # "idle" /\ UNCHANGED <<screen, summon_ing>>
        /\ \A b \in Activities : b # a => job'[b] = job[b]
    BY <1>7, WorkFrame
  <2>2. job[a] # Idle /\ (\A b \in Activities : b # a => job[b] = Idle) /\ screen = a /\ event = "none"
        /\ (a = "grid" => summon_ing) /\ told # "ok"
    BY <1>0, <2>1 DEF UIInv
  <2>3. \/ job'[a].pc # "idle" /\ UNCHANGED <<event, told>>
        \/ job'[a] = Idle /\ a = "grid" /\ event' \in {"error", "complete"} /\ told' = told
        \/ job'[a] = Idle /\ a = "import" /\ event' = event /\ told' \in {"error", "ok"}
    BY <1>7, WorkCalls
  <2> QED BY <1>0, <2>1, <2>2, <2>3 DEF UIInv
<1> QED BY <1>1, <1>2, <1>3, <1>4, <1>5, <1>6, <1>7 DEF Next

\* While one activity runs an edit the other does nothing.
LEMMA OneEdit ==
    ASSUME TypeInv, UIInv, NEW a \in Activities, job[a].pc # "idle"
    PROVE  /\ job[a] # Idle /\ \A b \in Activities : b # a => job[b] = Idle
           /\ screen = a /\ event = "none" /\ told # "ok"
BY DEF UIInv, Idle, Activities

LEMMA IdleOK ==
    ASSUME NEW b \in Activities, job[b] = Idle
    PROVE  JobOK(b)
BY WorldEditAssumption DEF JobOK, Idle, Copies, Tiles, Left

\* The slots to come, after a tile
LEMMA LeftAfterTile ==
    ASSUME NEW s \in Seq(asked), s # <<>>, \A i, k \in DOMAIN s : s[i] = s[k] => i = k
    PROVE  /\ \A i, k \in DOMAIN Tail(s) : Tail(s)[i] = Tail(s)[k] => i = k
           /\ {Tail(s)[i] : i \in DOMAIN Tail(s)} = {s[i] : i \in DOMAIN s} \ {Head(s)}
           /\ Head(s) \in {s[i] : i \in DOMAIN s} /\ Head(s) \in asked
<1>1. /\ Len(s) \in Nat \ {0} /\ Len(Tail(s)) = Len(s) - 1 /\ Head(s) = s[1] /\ Head(s) \in asked
      /\ \A i \in 1..Len(s) - 1 : Tail(s)[i] = s[i + 1]
  BY TailOK
<1>2. DOMAIN s = 1..Len(s) /\ DOMAIN Tail(s) = 1..Len(s) - 1
  BY <1>1, TailOK, LenProperties
<1>3. ASSUME NEW i \in DOMAIN Tail(s), NEW k \in DOMAIN Tail(s), Tail(s)[i] = Tail(s)[k]
      PROVE  i = k
  BY <1>1, <1>2, <1>3
<1>4. ASSUME NEW i \in DOMAIN Tail(s)
      PROVE  \E k \in DOMAIN s : s[k] = Tail(s)[i] /\ k # 1
  BY <1>1, <1>2
<1>5. ASSUME NEW k \in DOMAIN s, k # 1
      PROVE  \E i \in DOMAIN Tail(s) : Tail(s)[i] = s[k]
  <2>1. k - 1 \in DOMAIN Tail(s) /\ Tail(s)[k - 1] = s[k]
    BY <1>1, <1>2, <1>5
  <2> QED BY <2>1
<1>6. 1 \in DOMAIN s
  BY <1>1, <1>2
<1> QED BY <1>1, <1>3, <1>4, <1>5, <1>6

\* JobOK depends on nothing else.
LEMMA JobSame ==
    ASSUME NEW a \in Activities, JobOK(a), job'[a] = job[a], disk' = disk,
           UNCHANGED <<scoped, serial, asked>>
    PROVE  JobOK(a)'
<1>1. Left(a)' = Left(a) /\ Edited(a)' = Edited(a) /\ Target(a)' = Target(a)
  BY DEF Left, Edited, Where, Target
<1> QED BY <1>1 DEF JobOK

LEMMA StartKeepsJob ==
    ASSUME TypeInv, UIInv, NEW a \in Activities, NEW slots \in Requests(a), Start(a, slots)
    PROVE  /\ JobOK(a)' /\ job'[a].cache = CacheOf(a) /\ job'[a].busy = {} /\ job'[a].slots = slots
           /\ job'[a].pc = (IF scoped THEN "copyOut" ELSE "open")
           /\ job'[a].todo = (IF scoped THEN Listing(World) ELSE {})
           /\ serial' = serial + 1 /\ CacheOf(a) \in 1..serial' + 1
           /\ (\A b \in Activities : job[b] = Idle)
           /\ (\A b \in Activities : b # a => job'[b] = Idle)
<1>1. /\ \A b \in Activities : job[b] = Idle
      /\ \A b \in Activities : b # a => job'[b] = Idle
  BY DEF Start, UIFree, UIInv, Activities, TypeInv
<1>2. slots # <<>> /\ \A i, k \in DOMAIN slots : slots[i] = slots[k] => i = k
  BY RequestsOK
<1>3. serial' = serial + 1 /\ serial \in Nat /\ CacheOf(a) \in 1..serial' + 1 /\ scoped' = scoped
      /\ asked' = {slots[i] : i \in DOMAIN slots}
  BY WorldEditAssumption DEF Start, TypeInv, CacheOf
<1>4. /\ job'[a].cache = CacheOf(a) /\ job'[a].busy = {} /\ job'[a].slots = slots
      /\ job'[a].pc = (IF scoped THEN "copyOut" ELSE "open")
      /\ job'[a].todo = (IF scoped THEN Listing(World) ELSE {})
  <2> DEFINE pc == IF scoped THEN "copyOut" ELSE "open"
             todo == WorkOf(pc, World)
  <2>1. job'[a] = [Idle EXCEPT !.pc = pc, !.cache = CacheOf(a), !.slots = slots, !.todo = todo]
    BY DEF Start, TypeInv
  <2>2. todo = (IF scoped THEN Listing(World) ELSE {})
    BY DEF WorkOf
  <2> HIDE DEF pc, todo
  <2>3. job'[a] = [pc |-> pc, cache |-> CacheOf(a), todo |-> todo, busy |-> {},
                   mixed |-> FALSE, slots |-> slots, uuid |-> NoMap]
    BY <2>1 DEF Idle
  <2> QED BY <2>2, <2>3 DEF pc
<1>5. Left(a)' = asked'
  BY <1>3, <1>4 DEF Left
<1>6. JobOK(a)'
  BY <1>2, <1>3, <1>4, <1>5 DEF JobOK, Copies, Tiles
<1> QED BY <1>1, <1>3, <1>4, <1>6

LEMMA TileKeepsJob ==
    ASSUME TypeInv, NEW a \in Activities, JobOK(a), job[a].pc \in Tiles, job[a].slots # <<>>,
           job'[a] = TileDone(job[a]), UNCHANGED <<scoped, serial, asked>>
    PROVE  JobOK(a)'
<1>1. job[a] \in Job /\ job[a].slots \in Seq(asked)
  BY PlacesOK DEF Job
<1>2. /\ job'[a].slots = Tail(job[a].slots)
      /\ job'[a].pc = (IF job'[a].slots = <<>> THEN "close" ELSE "get")
      /\ job'[a].cache = job[a].cache /\ job'[a].todo = job[a].todo /\ job'[a].busy = job[a].busy
  BY <1>1, TileDoneEffect
<1>3. \A i, k \in DOMAIN job'[a].slots : job'[a].slots[i] = job'[a].slots[k] => i = k
  <2>1. PICK s \in Seq(asked) : s = job[a].slots
    BY <1>1
  <2>2. s # <<>> /\ \A i, k \in DOMAIN s : s[i] = s[k] => i = k
    BY <2>1 DEF JobOK
  <2>3. \A i, k \in DOMAIN Tail(s) : Tail(s)[i] = Tail(s)[k] => i = k
    BY <2>2, LeftAfterTile
  <2> QED BY <1>2, <2>1, <2>3
<1>4. job[a].todo = {} /\ job[a].busy = {} /\ serial # 0 /\ job[a].cache \in 1..serial + 1
  BY DEF JobOK, Tiles, Copies
<1> QED BY <1>2, <1>3, <1>4 DEF JobOK, Copies, Tiles

LEMMA WorkKeepsJob ==
    ASSUME TypeInv, NEW a \in Activities, JobOK(a), Work(a)
    PROVE  JobOK(a)'
<1>0. /\ job[a] \in Job /\ job[a].pc # "idle" /\ job[a].slots \in Seq(asked) /\ DB \in Names
      /\ UNCHANGED <<scoped, serial, asked>>
  BY PlacesOK, WorkFrame DEF Job
<1>1. CASE StageEnds(a)
  <2>1. job'[a].pc = After(job[a].pc) /\ job[a].busy = {} /\ job'[a].slots = job[a].slots
    BY <1>1, StageEndsEffect DEF JobOK
  <2>2. job'[a].pc \in {"done", "open"} => job'[a].todo = {}
    BY <1>1, StageEndsEffect DEF WorkOf
  <2>3. job[a].pc = "copyOut" => job'[a].pc = "open"
    BY <2>1 DEF After
  <2>4. job[a].pc # "copyOut" => job'[a].pc \in {"delOrig", "copyBack", "delCache", "done"}
    BY <1>1, <2>1, StageEndsEffect DEF After
  <2>5. Left(a)' = Left(a)
    BY <2>1 DEF Left
  <2>6. scoped \/ job[a].pc = "close"
    BY <1>0, <1>1, StageEndsEffect DEF JobOK, Copies
  <2>7. job[a].pc = "close" /\ ~scoped => job'[a].pc = "done"
    BY <2>1 DEF After
  <2> QED BY <1>0, <1>1, <2>1, <2>2, <2>3, <2>4, <2>5, <2>6, <2>7, StageEndsEffect
          DEF JobOK, Copies, Tiles
<1>2. CASE Open(a)
  <2>1. job'[a] = [job[a] EXCEPT !.pc = "get"] /\ job[a].pc = "open"
    BY <1>2, OpenEffect
  <2>2. /\ job'[a].pc = "get" /\ job'[a].cache = job[a].cache /\ job'[a].todo = job[a].todo
        /\ job'[a].busy = job[a].busy /\ job'[a].slots = job[a].slots
    BY <1>0, <2>1 DEF Job
  <2> QED BY <1>0, <2>1, <2>2 DEF JobOK, Copies, Tiles
<1>3. CASE Get(a)
  <2>1. CASE job'[a] = [job[a] EXCEPT !.pc = "pick"] /\ Head(job[a].slots) \in DOMAIN Edited(a).player
    <3>1. /\ job'[a].pc = "pick" /\ job'[a].cache = job[a].cache /\ job'[a].todo = job[a].todo
          /\ job'[a].busy = job[a].busy /\ job'[a].slots = job[a].slots
      BY <1>0, <2>1 DEF Job
    <3>2. disk' = disk /\ job[a].pc = "get"
      BY <1>3, GetEffect
    <3>3. Edited(a)' = Edited(a)
      BY <1>0, <3>1, <3>2 DEF Edited, Where
    <3> QED BY <1>0, <2>1, <3>1, <3>2, <3>3 DEF JobOK, Copies, Tiles
  <2>2. CASE job'[a] = TileDone(job[a])
    BY <1>0, <1>3, <2>2, TileKeepsJob, GetEffect DEF Tiles
  <2> QED BY <1>3, <2>1, <2>2, GetEffect
<1>4. CASE Pick(a)
  <2>1. PICK u \in FreeUuids(Edited(a)) :
           /\ job[a].pc = "pick" /\ job'[a] = [job[a] EXCEPT !.pc = "putPlayer", !.uuid = u]
           /\ disk' = disk
    BY <1>4, PickEffect
  <2>2. /\ job'[a].pc = "putPlayer" /\ job'[a].cache = job[a].cache /\ job'[a].todo = job[a].todo
        /\ job'[a].busy = job[a].busy /\ job'[a].slots = job[a].slots /\ job'[a].uuid = u
    BY <1>0, <2>1 DEF Job
  <2>3. Edited(a)' = Edited(a)
    BY <1>0, <2>1, <2>2 DEF Edited, Where
  <2>4. u \in Uuids /\ Edited(a).maps[u] = 0
    BY DEF FreeUuids
  <2> QED BY <1>0, <2>1, <2>2, <2>3, <2>4 DEF JobOK, Copies, Tiles
<1>5. CASE PutPlayer(a)
  <2>1. job'[a] = [job[a] EXCEPT !.pc = "putMap"] /\ job[a].pc = "putPlayer"
    BY <1>5, PutPlayerEffect
  <2>2. /\ job'[a].pc = "putMap" /\ job'[a].cache = job[a].cache /\ job'[a].todo = job[a].todo
        /\ job'[a].busy = job[a].busy /\ job'[a].slots = job[a].slots /\ job'[a].uuid = job[a].uuid
    BY <1>0, <2>1 DEF Job
  <2>3. Edited(a)' = disk'[Where(a)].data
    BY <1>0, <2>2 DEF Edited, Where
  <2>4. /\ Edited(a)'.maps = Edited(a).maps
        /\ DOMAIN Edited(a)'.player = DOMAIN Edited(a).player
        /\ Head(job[a].slots) \in DOMAIN Edited(a).player
        /\ Edited(a)'.player[Head(job[a].slots)] = job[a].uuid
    BY <1>5, <2>3, PutPlayerEffect
  <2> QED BY <1>0, <2>1, <2>2, <2>4 DEF JobOK, Copies, Tiles
<1>6. CASE PutMap(a)
  BY <1>0, <1>6, TileKeepsJob, PutMapEffect DEF Tiles
<1>7. CASE Finish(a)
  <2>1. job'[a] = Idle
    BY <1>7, FinishEffect
  <2> QED BY <2>1, IdleOK DEF JobOK, Idle, Copies, Tiles, Left
<1>8. ASSUME NEW n \in Names, BeginCopy(a, n)
      PROVE  JobOK(a)'
  <2>1. /\ SameStage(a) /\ job'[a].todo = job[a].todo /\ job'[a].busy = {n} /\ n \in job[a].todo
        /\ job[a].pc \in Copies /\ disk'[Target(a)].files[n] = "torn"
    BY <1>8, BeginCopyEffect
  <2>2. Target(a)' = Target(a)
    BY <1>0, <2>1 DEF Target, SameStage
  <2>3. Left(a)' = Left(a)
    BY <2>1 DEF Left, SameStage
  <2> QED BY <1>0, <2>1, <2>2, <2>3 DEF JobOK, Copies, Tiles, SameStage
<1>9. ASSUME NEW n \in Names, EndCopy(a, n)
      PROVE  JobOK(a)'
  <2>1. /\ SameStage(a) /\ job'[a].todo = job[a].todo \ {n} /\ job'[a].busy = {}
        /\ job[a].pc \in Copies
    BY <1>9, EndCopyEffect DEF JobOK
  <2>3. Left(a)' = Left(a)
    BY <2>1 DEF Left, SameStage
  <2> QED BY <1>0, <2>1, <2>3 DEF JobOK, Copies, Tiles, SameStage
<1>10. ASSUME NEW n \in Names, Delete(a, n)
       PROVE  JobOK(a)'
  <2>1. /\ SameStage(a) /\ job'[a].busy = {}
        /\ job[a].pc \in {"delOrig", "delCache"}
    BY <1>10, DeleteEffect DEF JobOK, Copies
  <2> QED BY <1>0, <2>1 DEF JobOK, Copies, Tiles, SameStage
<1> QED BY <1>1, <1>2, <1>3, <1>4, <1>5, <1>6, <1>7, <1>8, <1>9, <1>10 DEF Work

LEMMA TroubleKeepsJob ==
    ASSUME TypeInv, NEW a \in Activities, JobOK(a), Trouble(a)
    PROVE  JobOK(a)'
<1>0. /\ job[a] \in Job /\ job[a].pc # "idle" /\ disk' = disk
      /\ UNCHANGED <<scoped, serial, asked>>
  BY PlacesOK, WorkFrame, TroubleEffect
<1>1. CASE job'[a] = Idle
  BY <1>1, IdleOK DEF JobOK, Idle, Copies, Tiles, Left
<1>2. CASE /\ job[a].pc \in {"putPlayer", "putMap"} /\ job'[a] = TileDone(job[a])
           /\ job[a].slots # <<>>
  BY <1>0, <1>2, TileKeepsJob DEF Tiles
<1>3. CASE /\ job[a].pc \in {"copyOut", "copyBack", "delOrig", "delCache"}
           /\ SameStage(a) /\ job'[a].busy = {}
           /\ \E n \in job[a].todo : job'[a].todo = job[a].todo \ {n}
  <2>1. Left(a)' = Left(a)
    BY <1>3 DEF Left, SameStage
  <2> QED BY <1>0, <1>3, <2>1 DEF JobOK, Copies, Tiles, SameStage
<1>4. job[a].pc \in {"delOrig", "delCache"} => job[a].busy = {}
  BY DEF JobOK, Copies
<1> QED BY <1>1, <1>2, <1>3, <1>4, TroubleEffect

LEMMA JobStep ==
    ASSUME TypeInv, UIInv, \A a \in Activities : JobOK(a), [Next]_vars, NEW b \in Activities
    PROVE  JobOK(b)'
<1>0. UNCHANGED job => job'[b] = job[b]
  OBVIOUS
<1>1. CASE UNCHANGED vars
  BY <1>1, JobSame DEF vars, last
<1>2. CASE Leave \/ Deliver
  BY <1>2, JobSame DEF Leave, Deliver, last
<1>3. CASE Crash
  <2>1. job'[b] = Idle
    BY <1>3 DEF Crash
  <2> QED BY <2>1, IdleOK DEF JobOK, Idle, Copies, Tiles, Left
<1>4. ASSUME NEW a \in Activities, Choose(a)
      PROVE  JobOK(b)'
  BY <1>4, JobSame DEF Choose, last
<1>5. ASSUME NEW a \in Activities, NEW slots \in Requests(a), Start(a, slots)
      PROVE  JobOK(b)'
  <2>1. CASE b = a
    BY <1>5, <2>1, StartKeepsJob
  <2>2. CASE b # a
    <3>1. job'[b] = Idle
      BY <1>5, <2>2, StartKeepsJob
    <3> QED BY <3>1, IdleOK DEF JobOK, Idle, Copies, Tiles, Left
  <2> QED BY <2>1, <2>2
<1>6. ASSUME NEW a \in Activities, Work(a) \/ Trouble(a)
      PROVE  JobOK(b)'
  <2>1. CASE b = a
    BY <1>6, <2>1, WorkKeepsJob, TroubleKeepsJob
  <2>2. CASE b # a
    <3>1. job'[b] = job[b] /\ job[b] = Idle
      BY <1>6, <2>2, WorkFrame, OneEdit
    <3>2. job'[b] = Idle
      BY <3>1
    <3> QED BY <3>2, IdleOK DEF JobOK, Idle, Copies, Tiles, Left
  <2> QED BY <2>1, <2>2
<1> QED BY <1>1, <1>2, <1>3, <1>4, <1>5, <1>6 DEF Next

\* A step of an edit leaves the maps of every db as they are.
LEMMA WorkKeepsMaps ==
    ASSUME TypeInv, NEW a \in Activities, JobOK(a), Work(a) \/ Trouble(a),
           NEW p \in Places, NEW u \in Uuids,
           disk[p].files[DB] = "whole", disk'[p].files[DB] = "whole", disk[p].data.maps[u] # 0
    PROVE  disk'[p].data.maps[u] = disk[p].data.maps[u]
<1>0. Where(a) \in Places /\ Target(a) \in Places /\ DB \in Names
  BY PlacesOK
<1>1. CASE StageEnds(a) \/ Get(a) \/ Pick(a) \/ Finish(a) \/ Trouble(a)
  <2>1. disk' = disk
    BY <1>1, StageEndsEffect, GetEffect, PickEffect, FinishEffect, TroubleEffect
  <2> QED BY <2>1
<1>2. CASE Open(a)
  BY <1>0, <1>2, OpenEffect
<1>3. CASE PutPlayer(a)
  BY <1>0, <1>3, PutPlayerEffect DEF Edited
<1>4. CASE PutMap(a)
  <2>1. job[a].pc = "putMap" /\ Edited(a).maps[job[a].uuid] = 0
    BY <1>4, PutMapEffect DEF JobOK
  <2> QED BY <1>0, <1>4, <2>1, PutMapEffect DEF Edited
<1>5. ASSUME NEW n \in Names, BeginCopy(a, n)
      PROVE  disk'[p].data.maps[u] = disk[p].data.maps[u]
  BY <1>0, <1>5, BeginCopyEffect
<1>6. ASSUME NEW n \in Names, EndCopy(a, n)
      PROVE  disk'[p].data.maps[u] = disk[p].data.maps[u]
  <2>1. n = DB => disk[Target(a)].files[DB] = "torn"
    BY <1>6, EndCopyEffect DEF JobOK
  <2> QED BY <1>0, <1>6, <2>1, EndCopyEffect
<1>7. ASSUME NEW n \in Names, Delete(a, n)
      PROVE  disk'[p].data.maps[u] = disk[p].data.maps[u]
  BY <1>0, <1>7, DeleteEffect
<1> QED BY <1>1, <1>2, <1>3, <1>4, <1>5, <1>6, <1>7 DEF Work

LEMMA WorkKeepsPlaces ==
    ASSUME EditInv, NEW a \in Activities, Work(a) \/ Trouble(a)
    PROVE  PlaceInv'
<1>0. TypeInv /\ JobOK(a) /\ PlaceInv /\ DB \in Names
  BY PlacesOK DEF EditInv
<1>1. /\ job[a].pc # "idle" /\ job[a].cache \in 1..serial + 1 /\ serial \in Nat /\ MaxJobs \in Nat
      /\ UNCHANGED <<serial, scoped>>
  BY <1>0, WorkFrame, WorldEditAssumption DEF JobOK, TypeInv
<1>2. Where(a) \in 0..serial + 1 /\ Target(a) \in 0..serial + 1 /\ (~scoped => Where(a) = World)
  BY <1>1 DEF Where, Target, World
<1>3. \A q \in Places : q # Where(a) /\ q # Target(a) => disk'[q] = disk[q]
  BY <1>0, WorkDisk
<1>4. \A q \in serial + 2..MaxJobs + 1 : q \in Places /\ q # Where(a) /\ q # Target(a)
  BY <1>1, <1>2 DEF Places
<1>5. \A q \in serial' + 2..MaxJobs + 1, n \in Names : disk'[q].files[n] = "absent"
  BY <1>0, <1>1, <1>3, <1>4 DEF PlaceInv
<1>6. ASSUME ~scoped
      PROVE  /\ \A n \in Names : disk'[World].files[n] = "whole"
             /\ \A q \in Places \ {World}, n \in Names : disk'[q].files[n] = "absent"
             /\ \A u \in promised' : disk'[World].data.maps[u] # 0
  <2>1. job[a].pc \notin {"copyOut", "copyBack", "delOrig", "delCache"} /\ Where(a) = World
    BY <1>0, <1>2, <1>6 DEF JobOK, Copies
  <2>2. /\ \A q \in Places : q # World => disk'[q] = disk[q]
        /\ \A n \in Names : disk'[World].files[n] = disk[World].files[n]
                            \/ disk'[World].files[n] = "whole"
    BY <1>0, <2>1, WorkDisk
  <2>3. \A n \in Names : disk[World].files[n] = "whole" /\ disk'[World].files[n] = "whole"
    BY <1>0, <1>6, <2>2 DEF PlaceInv
  <2>4. \A q \in Places \ {World}, n \in Names : disk'[q].files[n] = "absent"
    BY <1>0, <1>6, <2>2 DEF PlaceInv
  <2>5. \A u \in promised : u \in Uuids /\ disk'[World].data.maps[u] # 0
    <3>1. \A u \in promised : u \in Uuids /\ disk[World].data.maps[u] # 0
      BY <1>0, <1>6 DEF PlaceInv, TypeInv
    <3> QED BY <1>0, <2>3, <3>1, WorkKeepsMaps, PlacesOK
  <2>6. \A u \in promised' : disk'[World].data.maps[u] # 0
    <3>1. CASE promised' = promised
      BY <2>5, <3>1
    <3>2. CASE Finish(a)
      BY <1>0, <2>5, <3>2, FinishEffect
    <3> QED BY <1>0, <3>1, <3>2, WorkDisk
  <2> QED BY <2>3, <2>4, <2>6
<1> QED BY <1>1, <1>5, <1>6 DEF PlaceInv

LEMMA PlaceStep ==
    ASSUME EditInv, [Next]_vars
    PROVE  PlaceInv'
<1>0. PlaceInv /\ TypeInv /\ serial \in Nat /\ MaxJobs \in Nat
  BY WorldEditAssumption DEF EditInv, TypeInv
<1>1. CASE UNCHANGED vars
  BY <1>0, <1>1 DEF vars, last, PlaceInv
<1>2. CASE Leave \/ Crash \/ \E a \in Activities : Choose(a)
  BY <1>0, <1>2 DEF Leave, Crash, Choose, last, PlaceInv
<1>3. CASE Deliver
  <2>1. /\ UNCHANGED <<serial, scoped, disk>>
        /\ promised' \subseteq promised \cup {u \in Uuids : disk[World].data.maps[u] # 0}
    BY <1>3 DEF Deliver, Succeed, last
  <2> QED BY <1>0, <2>1 DEF PlaceInv
<1>4. ASSUME NEW a \in Activities, NEW slots \in Requests(a), Start(a, slots)
      PROVE  PlaceInv'
  <2>1. serial' = serial + 1 /\ UNCHANGED <<scoped, disk, promised>>
    BY <1>4 DEF Start
  <2>2. \A q \in serial' + 2..MaxJobs + 1 : q \in serial + 2..MaxJobs + 1
    BY <1>0, <2>1
  <2> QED BY <1>0, <2>1, <2>2 DEF PlaceInv
<1>5. ASSUME NEW a \in Activities, Work(a) \/ Trouble(a)
      PROVE  PlaceInv'
  BY <1>5, WorkKeepsPlaces
<1> QED BY <1>1, <1>2, <1>3, <1>4, <1>5 DEF Next

\* An edit that runs is the only one; it works on a directory that it made or, where
\* the world is not under Android/data, on the world itself, which is then whole; and
\* what each stage has left to do is what ImportPicActivity and GridPicActivity have
\* left to do there.
THEOREM EditInvariant == Spec => []EditInv
<1>1. ASSUME Init PROVE EditInv
  <2>1. MaxJobs \in Nat /\ DB \notin Plain /\ NoMap \notin Uuids
        /\ scenario \in [activities : SUBSET {"import", "grid"}, tiles : Nat, crashes : Nat, faults : Nat]
    BY <1>1, WorldEditAssumption DEF Init
  <2>2. PICK I \in Inventories :
           disk = [p \in Places |->
                    IF p = World
                    THEN [files |-> [n \in Names |-> "whole"],
                          data |-> [player |-> [s \in I |-> NoMap],
                                    maps |-> [u \in Uuids |->
                                                IF u = Existing THEN Game ELSE 0]]]
                    ELSE [files |-> [n \in Names |-> "absent"],
                          data |-> Nothing]]
    BY <1>1 DEF Init
  <2>3. Nothing \in Data
    BY NothingIsData
  <2>4. [player |-> [s \in I |-> NoMap],
         maps |-> [u \in Uuids |-> IF u = Existing THEN Game ELSE 0]] \in Data
    <3>1. [s \in I |-> NoMap] \in Player
      BY WorldEditAssumption DEF Player, Items
    <3>2. [u \in Uuids |-> IF u = Existing THEN Game ELSE 0] \in [Uuids -> Nat]
      BY <2>1 DEF Game
    <3> QED BY <3>1, <3>2 DEF Data
  <2>5. /\ [n \in Names |-> "whole"] \in [Names -> States]
        /\ [n \in Names |-> "absent"] \in [Names -> States]
    BY DEF States
  <2>6. disk \in [Places -> Dir]
    BY <2>2, <2>3, <2>4, <2>5 DEF Dir
  <2>7. World \in Places /\ disk[World] \in Dir
    BY <2>1, <2>6 DEF World, Places
  <2>8. \A a \in Activities : job[a] = Idle /\ Idle \in Job
    BY <1>1, IdleJob DEF Init, Job
  <2>9. job \in [Activities -> Job]
    BY <1>1, <2>8 DEF Init
  <2>10. TypeInv
    <3>1. crashes = 0 /\ scenario.crashes \in Nat /\ serial = 0 /\ faults = 0 /\ flaws = {}
      BY <1>1, <2>1 DEF Init
    <3>2. crashes \in 0..scenario.crashes /\ serial \in 0..MaxJobs /\ faults \in Nat
      BY <2>1, <3>1
    <3>3. pieces \in [Places -> Pieces]
      <4>1. \A p \in Places : disk[p].data \in Data
        BY <2>6 DEF Dir
      <4> QED BY <1>1, <4>1, OpenedOK DEF Init
    <3> QED BY <1>1, <2>6, <2>7, <2>9, <3>1, <3>2, <3>3 DEF Init, TypeInv
  <2>11. UIInv
    BY <1>1, <2>8 DEF Init, UIInv, Activities
  <2>12. \A a \in Activities : JobOK(a)
    BY <2>8, IdleOK
  <2>13. PlaceInv
    <3>1. \A p \in Places \ {World}, n \in Names : disk[p].files[n] = "absent"
      BY <2>2
    <3>2. serial = 0 /\ \A p \in serial + 2..MaxJobs + 1 : p \in Places \ {World}
      BY <1>1, <2>1 DEF Init, Places, World
    <3>3. \A n \in Names : disk[World].files[n] = "whole"
      BY <2>2, <2>7
    <3>4. \A u \in promised : disk[World].data.maps[u] # 0
      BY <1>1 DEF Init
    <3> QED BY <3>1, <3>2, <3>3, <3>4 DEF PlaceInv
  <2> QED BY <2>10, <2>11, <2>12, <2>13 DEF EditInv
<1>2. ASSUME EditInv, [Next]_vars PROVE EditInv'
  BY <1>2, TypeStep, UIStep, JobStep, PlaceStep DEF EditInv
<1> QED BY <1>1, <1>2, PTL DEF Spec

\* A map that a db has is never written over, by any step of an edit, an end of the
\* process or what the user does: a copy of a db replaces only what is torn, and the
\* key of a new map is one that the db does not have, from isFindEqualKey() to the
\* put of the map.
THEOREM MapsStay == Spec => MapsAreKept
<1>1. ASSUME EditInv, [Next]_vars
      PROVE  [\A p \in Places, u \in Uuids :
                /\ disk[p].files[DB] = "whole" /\ disk'[p].files[DB] = "whole"
                /\ disk[p].data.maps[u] # 0
                => disk'[p].data.maps[u] = disk[p].data.maps[u]]_vars
  <2>1. CASE \E a \in Activities : Work(a) \/ Trouble(a)
    BY <1>1, <2>1, WorkKeepsMaps DEF EditInv
  <2>2. CASE UNCHANGED disk
    BY <2>2
  <2> QED BY <1>1, <2>1, <2>2 DEF Next, Leave, Deliver, Crash, Choose, Start, vars
<1> QED BY <1>1, EditInvariant, PTL DEF Spec, MapsAreKept

----------------------------------------------------------------------------
(* Items and their maps                                                    *)

\* Each item has its map, except in the slots that are being written.
Consistent(data, open) ==
    \A s \in DOMAIN data.player \ open :
        data.player[s] # NoMap => data.maps[data.player[s]] # 0
HalfDone(a) == IF job[a].pc = "putMap" THEN {Head(job[a].slots)} ELSE {}

\* The db of the copy, as long as the edit needs it, and that of the world
ItemsOK(a) ==
    LET j == job[a] IN
    /\ j.pc = "copyOut" /\ "stale" \notin flaws
         => /\ j.busy # {} => ~j.mixed
            /\ \A n \in j.todo \ j.busy : Copy(a).files[n] = "absent"
    /\ j.pc \in {"copyOut", "open"} /\ "stale" \notin flaws
         => (DB \notin j.todo /\ Copy(a).files[DB] = "whole"
              => disk[World].files[DB] = "whole" /\ Copy(a).data = disk[World].data)
    /\ j.pc \in Tiles \cup {"close", "delOrig", "copyBack"}
         => Copy(a).files[DB] = "whole" /\ (flaws = {} => Consistent(Copy(a).data, HalfDone(a)))
    /\ j.pc = "delOrig" => \A n \in Names \ j.todo : disk[World].files[n] = "absent"
    /\ j.pc = "copyBack" =>
         /\ j.busy # {} => ~j.mixed
         /\ \A n \in j.todo \ j.busy : disk[World].files[n] = "absent"
         /\ DB \notin j.todo => /\ disk[World].files[DB] = "whole"
                                /\ disk[World].data = Copy(a).data
    /\ j.pc \in {"delCache", "done"} => disk[World].files[DB] = "whole"

WorldRests == \A a \in Activities : job[a].pc \notin {"delOrig", "copyBack"}

\* As long as nothing failed, and no torn db and no old copy was used, the db of the
\* world has its maps when it is whole.
ItemsInv ==
    scoped /\ faults = 0 =>
      /\ flaws = {} /\ disk[World].files[DB] = "whole" => Consistent(disk[World].data, {})
      /\ screen # "list" /\ WorldRests => disk[World].files[DB] # "absent"
      /\ \A a \in Activities : ItemsOK(a)

\* Where an edit works
LEMMA CopyPlace ==
    ASSUME EditInv, scoped, NEW a \in Activities, job[a].pc # "idle"
    PROVE  /\ job[a].cache \in Places /\ job[a].cache # World /\ Where(a) = job[a].cache
           /\ World \in Places /\ DB \in Names /\ job[a] \in Job
           /\ Edited(a) = Copy(a).data /\ Copy(a) \in Dir
           /\ (Source(a) = IF job[a].pc = "copyOut" THEN World ELSE job[a].cache)
           /\ (Target(a) = IF job[a].pc \in {"copyOut", "delCache"} THEN job[a].cache ELSE World)
<1>1. job[a].cache \in 1..serial + 1 /\ serial \in 0..MaxJobs /\ MaxJobs \in Nat
  BY WorldEditAssumption DEF EditInv, TypeInv, JobOK
<1>2. job[a].cache \in Places /\ job[a].cache # World
  BY <1>1 DEF Places, World
<1> QED BY <1>2, PlacesOK DEF EditInv, Where, Edited, Copy, Source, Target

LEMMA WorkKeepsItems ==
    ASSUME EditInv, ItemsInv, scoped, faults = 0, NEW a \in Activities, Work(a)
    PROVE  /\ flaws' = {} /\ disk'[World].files[DB] = "whole" => Consistent(disk'[World].data, {})
           /\ job'[a].pc \notin {"delOrig", "copyBack"} => disk'[World].files[DB] # "absent"
           /\ ItemsOK(a)'
<1> DEFINE c == job[a].cache
           C(data, open) == flaws = {} => Consistent(data, open)
<1>0. /\ job[a].pc # "idle" /\ JobOK(a) /\ TypeInv /\ UIInv
      /\ disk \in [Places -> Dir]
  BY WorkFrame DEF EditInv, TypeInv
<1>1. /\ c \in Places /\ c # World /\ Where(a) = c /\ World \in Places /\ DB \in Names
      /\ job[a] \in Job /\ Edited(a) = disk[c].data
      /\ Source(a) = (IF job[a].pc = "copyOut" THEN World ELSE c)
      /\ Target(a) = (IF job[a].pc \in {"copyOut", "delCache"} THEN c ELSE World)
  BY <1>0, CopyPlace DEF Copy
<1>2. /\ disk[World].files[DB] = "whole" => C(disk[World].data, {})
      /\ job[a].pc \notin {"delOrig", "copyBack"} => disk[World].files[DB] # "absent"
      /\ ItemsOK(a)
      /\ flaws' = {} => flaws = {}
      /\ "stale" \in flaws => "stale" \in flaws'
      /\ "stale" \notin flaws => "stale" \notin flaws'
  <2>1. screen = a /\ \A b \in Activities : b # a => job[b] = Idle
    BY <1>0, OneEdit
  <2>2. job[a].pc \notin {"delOrig", "copyBack"} => WorldRests
    BY <2>1 DEF WorldRests, Idle
  <2>3. screen # "list"
    BY <2>1 DEF Activities
  <2>4. flaws' = flaws \/ flaws' = flaws \cup {"torn"}
    BY <1>0, WorkPieces
  <2> QED BY <2>2, <2>3, <2>4 DEF ItemsInv
<1>3. HalfDone(a) = IF job[a].pc = "putMap" THEN {Head(job[a].slots)} ELSE {}
  BY DEF HalfDone
<1>4. HalfDone(a)' = IF job'[a].pc = "putMap" THEN {Head(job'[a].slots)} ELSE {}
  BY DEF HalfDone
<1> HIDE DEF c
<1>5. Copy(a) = disk[c] /\ (job'[a].cache = c => Copy(a)' = disk'[c])
  BY DEF Copy, c
<1>11. CASE StageEnds(a)
  <2>1. /\ job[a].pc \in {"copyOut", "close", "delOrig", "copyBack", "delCache"}
        /\ job[a].todo = {} /\ job'[a].pc = After(job[a].pc) /\ job'[a].cache = c
        /\ job'[a].todo = WorkOf(After(job[a].pc), c) /\ disk' = disk
        /\ job'[a].busy = job[a].busy
    BY <1>0, <1>11, StageEndsEffect DEF c
  <2>2. job[a].busy = {}
    BY <1>0, <2>1 DEF JobOK
  <2>3. CASE job[a].pc = "copyOut"
    <3>1. job'[a].pc = "open"
      BY <2>1, <2>3 DEF After
    <3> QED BY <1>1, <1>2, <1>5, <2>1, <2>3, <3>1 DEF ItemsOK, Tiles
  <2>4. CASE job[a].pc = "close"
    <3>1. job'[a].pc = "delOrig" /\ job'[a].todo = Listing(World)
      BY <2>1, <2>4 DEF After, WorkOf
    <3>2. \A n \in Names \ job'[a].todo : disk[World].files[n] = "absent"
      BY <3>1 DEF Listing
    <3>3. HalfDone(a) = {} /\ HalfDone(a)' = {}
      BY <1>3, <1>4, <2>4, <3>1
    <3> QED BY <1>1, <1>2, <1>5, <2>1, <2>4, <3>1, <3>2, <3>3 DEF ItemsOK, Tiles
  <2>5. CASE job[a].pc = "delOrig"
    <3>1. job'[a].pc = "copyBack" /\ job'[a].todo = Listing(c)
      BY <2>1, <2>5 DEF After, WorkOf
    <3>2. \A n \in Names : disk[World].files[n] = "absent"
      BY <1>2, <2>1, <2>5 DEF ItemsOK
    <3>3. HalfDone(a) = {} /\ HalfDone(a)' = {}
      BY <1>3, <1>4, <2>5, <3>1
    <3>4. disk[c].files[DB] = "whole" /\ DB \in job'[a].todo
      BY <1>1, <1>2, <1>5, <2>5, <3>1 DEF ItemsOK, Listing
    <3>5. C(disk[c].data, HalfDone(a)')
      BY <1>2, <1>5, <2>5, <3>3 DEF ItemsOK
    <3>6. disk'[World].files[DB] = "absent"
      BY <1>1, <2>1, <3>2
    <3>7. \A n \in job'[a].todo : disk'[World].files[n] = "absent"
      BY <2>1, <3>1, <3>2 DEF Listing
    <3>8. /\ Copy(a)' = disk'[c] /\ disk'[c].files[DB] = "whole"
          /\ C(disk'[c].data, HalfDone(a)')
      BY <1>5, <2>1, <3>4, <3>5
    <3>9. ItemsOK(a)'
      BY <1>2, <2>1, <2>2, <3>1, <3>4, <3>7, <3>8 DEF ItemsOK, Tiles
    <3> QED BY <3>1, <3>6, <3>9
  <2>6. CASE job[a].pc = "copyBack"
    <3>1. job'[a].pc = "delCache"
      BY <2>1, <2>6 DEF After
    <3>2. disk[World].files[DB] = "whole"
      BY <1>2, <2>1, <2>6 DEF ItemsOK
    <3> QED BY <1>1, <1>2, <2>1, <2>6, <3>1, <3>2 DEF ItemsOK, Tiles
  <2>7. CASE job[a].pc = "delCache"
    <3>1. job'[a].pc = "done"
      BY <2>1, <2>7 DEF After
    <3> QED BY <1>1, <1>2, <2>1, <2>7, <3>1 DEF ItemsOK, Tiles
  <2> QED BY <2>1, <2>3, <2>4, <2>5, <2>6, <2>7
<1>12. CASE Open(a)
  <2>1. job[a].pc = "open" /\ job'[a] = [job[a] EXCEPT !.pc = "get"]
    BY <1>0, <1>12, OpenEffect
  <2>2. job'[a].pc = "get" /\ job'[a].cache = c /\ job'[a].busy = job[a].busy
    BY <1>1, <2>1 DEF Job, c
  <2>3. /\ disk'[World] = disk[World] /\ disk'[c].files[DB] = "whole"
        /\ disk[c].files[DB] = "whole" => disk'[c].data = disk[c].data
        /\ disk[c].files[DB] = "absent" => disk'[c].data = Nothing
        /\ flaws' = {} => flaws = {} /\ disk[c].files[DB] # "torn"
    BY <1>0, <1>1, <1>12, OpenEffect
  <2>4. DB \notin job[a].todo
    BY <1>0, <2>1 DEF JobOK
  <2>5. Consistent(Nothing, {})
    BY DEF Consistent, Nothing
  <2>6. ASSUME flaws' = {} PROVE Consistent(disk'[c].data, {})
    <3>1. disk[c].files[DB] \in {"absent", "whole"}
      BY <1>0, <1>1, <2>3, <2>6 DEF Dir, States
    <3> QED BY <1>2, <1>5, <2>1, <2>3, <2>4, <2>5, <2>6, <3>1 DEF ItemsOK
  <2>7. HalfDone(a)' = {}
    BY <1>4, <2>2
  <2> QED BY <1>2, <1>5, <2>1, <2>2, <2>3, <2>6, <2>7 DEF ItemsOK, Tiles
<1>13. CASE Get(a) \/ Pick(a)
  <2>1. /\ job[a].pc \in {"get", "pick"} /\ disk' = disk
        /\ job'[a].pc \in {"pick", "putPlayer", "get", "close"} /\ job'[a].cache = c
    <3>1. job[a].slots # <<>> => /\ TileDone(job[a]).pc \in {"get", "close"}
                                 /\ TileDone(job[a]).cache = c
      BY <1>1, TileDoneEffect DEF c
    <3>2. CASE Get(a)
      BY <1>0, <1>1, <3>1, <3>2, GetEffect DEF Job, c
    <3>3. CASE Pick(a)
      <4>1. PICK u \in FreeUuids(Edited(a)) :
               /\ job[a].pc = "pick" /\ disk' = disk
               /\ job'[a] = [job[a] EXCEPT !.pc = "putPlayer", !.uuid = u]
        BY <1>0, <3>3, PickEffect
      <4> QED BY <1>1, <4>1 DEF Job, c
    <3> QED BY <1>13, <3>2, <3>3
  <2>2. HalfDone(a) = {} /\ HalfDone(a)' = {}
    BY <1>3, <1>4, <2>1
  <2> QED BY <1>2, <1>5, <2>1, <2>2 DEF ItemsOK, Tiles
<1>14. CASE PutPlayer(a)
  <2>1. job[a].pc = "putPlayer" /\ job'[a] = [job[a] EXCEPT !.pc = "putMap"]
    BY <1>0, <1>14, PutPlayerEffect
  <2>2. job'[a].pc = "putMap" /\ job'[a].cache = c /\ job'[a].slots = job[a].slots
    BY <1>1, <2>1 DEF Job, c
  <2>3. HalfDone(a) = {} /\ HalfDone(a)' = {Head(job[a].slots)}
    BY <1>3, <1>4, <2>1, <2>2
  <2>4. /\ disk'[World] = disk[World] /\ disk'[c].files = disk[c].files
        /\ disk'[c].data.maps = disk[c].data.maps
        /\ DOMAIN disk'[c].data.player = DOMAIN disk[c].data.player
        /\ \A t \in DOMAIN disk[c].data.player : t # Head(job[a].slots) =>
             disk'[c].data.player[t] = disk[c].data.player[t]
    <3>1. disk[Where(a)].data = Edited(a)
      BY DEF Edited
    <3>2. /\ \A q \in Places : q # Where(a) => disk'[q] = disk[q]
          /\ disk'[Where(a)].files = disk[Where(a)].files
          /\ disk'[Where(a)].data.maps = Edited(a).maps
          /\ DOMAIN disk'[Where(a)].data.player = DOMAIN Edited(a).player
          /\ \A t \in DOMAIN Edited(a).player : t # Head(job[a].slots) =>
               disk'[Where(a)].data.player[t] = Edited(a).player[t]
      BY <1>0, <1>14, PutPlayerEffect
    <3> QED BY <1>1, <3>1, <3>2
  <2>5. C(disk[c].data, {}) /\ disk[c].files[DB] = "whole"
    BY <1>2, <1>5, <2>1, <2>3 DEF ItemsOK, Tiles
  <2>6. C(disk'[c].data, {Head(job[a].slots)})
    BY <2>4, <2>5 DEF Consistent
  <2> QED BY <1>2, <1>5, <2>1, <2>2, <2>3, <2>4, <2>5, <2>6 DEF ItemsOK, Tiles
<1>15. CASE PutMap(a)
  <2>1. /\ job[a].pc = "putMap" /\ job'[a] = TileDone(job[a]) /\ job[a].slots # <<>>
        /\ job[a].uuid \in Uuids
    BY <1>0, <1>15, PutMapEffect
  <2>2. job'[a].pc \in {"get", "close"} /\ job'[a].cache = c
    BY <1>1, <2>1, TileDoneEffect DEF c
  <2>3. HalfDone(a) = {Head(job[a].slots)} /\ HalfDone(a)' = {}
    BY <1>3, <1>4, <2>1, <2>2
  <2>4. /\ disk'[World] = disk[World] /\ disk'[c].files = disk[c].files
        /\ disk'[c].data.player = disk[c].data.player
        /\ disk'[c].data.maps[job[a].uuid] # 0
        /\ \A v \in Uuids : v # job[a].uuid => disk'[c].data.maps[v] = disk[c].data.maps[v]
    BY <1>0, <1>1, <1>15, PutMapEffect
  <2>5. C(disk[c].data, {Head(job[a].slots)}) /\ disk[c].files[DB] = "whole"
    BY <1>2, <1>5, <2>1, <2>3 DEF ItemsOK, Tiles
  <2>6. disk[c].data.player[Head(job[a].slots)] = job[a].uuid
    BY <1>0, <1>1, <2>1 DEF JobOK
  <2>7. \A s \in DOMAIN disk[c].data.player :
          disk[c].data.player[s] # NoMap => disk[c].data.player[s] \in Uuids
    <3>1. disk[c].data.player \in Player
      BY <1>0, <1>1 DEF Dir, Data
    <3>2. PICK I \in SUBSET Slots : disk[c].data.player \in [I -> Items]
      BY <3>1 DEF Player
    <3> QED BY <3>2 DEF Items
  <2>8. C(disk'[c].data, {})
    BY <2>4, <2>5, <2>6, <2>7 DEF Consistent
  <2> QED BY <1>2, <1>5, <2>1, <2>2, <2>3, <2>4, <2>5, <2>8 DEF ItemsOK, Tiles
<1>16. CASE Finish(a)
  <2>1. job[a].pc = "done" /\ job'[a] = Idle /\ disk' = disk
    BY <1>0, <1>16, FinishEffect
  <2>2. job'[a].pc = "idle"
    BY <2>1 DEF Idle
  <2> QED BY <1>2, <2>1, <2>2 DEF ItemsOK, Tiles
<1>17. ASSUME NEW n \in Names, BeginCopy(a, n)
       PROVE  /\ flaws' = {} /\ disk'[World].files[DB] = "whole" => Consistent(disk'[World].data, {})
              /\ job'[a].pc \notin {"delOrig", "copyBack"} => disk'[World].files[DB] # "absent"
              /\ ItemsOK(a)'
  <2>1. /\ job[a].pc \in Copies /\ job[a].busy = {} /\ n \in job[a].todo
        /\ job'[a].pc = job[a].pc /\ job'[a].cache = c
        /\ job'[a].todo = job[a].todo /\ job'[a].busy = {n}
    BY <1>17, <1>0, BeginCopyEffect DEF SameStage, c
  <2>2. HalfDone(a) = {} /\ HalfDone(a)' = {}
    BY <1>3, <1>4, <2>1 DEF Copies
  <2>3. CASE job[a].pc = "copyOut"
    <3>1. /\ disk'[World] = disk[World]
          /\ \A m \in Names : m # n => disk'[c].files[m] = disk[c].files[m]
          /\ disk'[c].data = disk[c].data
          /\ job'[a].mixed => disk[c].files[n] # "absent"
      BY <1>0, <1>1, <1>17, <2>3, BeginCopyEffect
    <3>2. "stale" \notin flaws' => ~job'[a].mixed
      BY <1>2, <1>5, <2>1, <2>3, <3>1 DEF ItemsOK
    <3>3. "stale" \notin flaws' => \A m \in job[a].todo \ {n} : disk'[c].files[m] = "absent"
      BY <1>1, <1>2, <1>5, <2>1, <2>3, <3>1 DEF ItemsOK, Job
    <3>4. "stale" \notin flaws' =>
             (DB \notin job[a].todo /\ disk'[c].files[DB] = "whole"
                => disk[World].files[DB] = "whole" /\ disk'[c].data = disk[World].data)
      BY <1>1, <1>2, <1>5, <2>1, <2>3, <3>1 DEF ItemsOK
    <3>5. ItemsOK(a)'
      BY <1>5, <2>1, <2>3, <3>1, <3>2, <3>3, <3>4 DEF ItemsOK, Tiles
    <3> QED BY <1>2, <2>1, <2>3, <3>1, <3>5
  <2>4. CASE job[a].pc = "copyBack"
    <3>1. /\ disk'[c] = disk[c] /\ disk'[World].files[n] = "torn"
          /\ disk'[World].data = disk[World].data
          /\ \A m \in Names : m # n => disk'[World].files[m] = disk[World].files[m]
          /\ job'[a].mixed => disk[World].files[n] # "absent"
      BY <1>0, <1>1, <1>17, <2>4, BeginCopyEffect
    <3>2. ~job'[a].mixed
      BY <1>2, <2>1, <2>4, <3>1 DEF ItemsOK
    <3>3. C(disk'[c].data, HalfDone(a)') /\ disk'[c].files[DB] = "whole"
      BY <1>2, <1>5, <2>2, <2>4, <3>1 DEF ItemsOK
    <3>4. \A m \in job'[a].todo \ job'[a].busy : disk'[World].files[m] = "absent"
      BY <1>1, <1>2, <2>1, <2>4, <3>1 DEF ItemsOK, Job
    <3>5. DB \notin job[a].todo => /\ disk'[World].files[DB] = "whole"
                                  /\ disk'[World].data = disk'[c].data
      BY <1>1, <1>2, <1>5, <2>1, <2>4, <3>1 DEF ItemsOK
    <3>6. disk'[World].files[DB] = "whole" => C(disk'[World].data, {})
      BY <1>1, <1>2, <3>1
    <3>7. ItemsOK(a)'
      BY <1>2, <1>5, <2>1, <2>4, <3>2, <3>3, <3>4, <3>5 DEF ItemsOK, Tiles
    <3> QED BY <1>2, <2>1, <2>4, <3>6, <3>7
  <2> QED BY <2>1, <2>3, <2>4 DEF Copies
<1>18. ASSUME NEW n \in Names, EndCopy(a, n)
       PROVE  /\ flaws' = {} /\ disk'[World].files[DB] = "whole" => Consistent(disk'[World].data, {})
              /\ job'[a].pc \notin {"delOrig", "copyBack"} => disk'[World].files[DB] # "absent"
              /\ ItemsOK(a)'
  <2>1. /\ n \in job[a].busy /\ job'[a].pc = job[a].pc /\ job'[a].cache = c
        /\ job'[a].todo = job[a].todo \ {n} /\ job'[a].busy = {}
    BY <1>18, <1>0, EndCopyEffect DEF SameStage, c
  <2>2. job[a].pc \in Copies
    BY <1>0, <2>1 DEF JobOK
  <2>3. HalfDone(a) = {} /\ HalfDone(a)' = {}
    BY <1>3, <1>4, <2>1, <2>2 DEF Copies
  <2>4. CASE job[a].pc = "copyOut"
    <3>1. /\ disk'[World] = disk[World]
          /\ disk'[c].files[n] = disk[World].files[n] \/ disk'[c].files[n] = "torn"
          /\ n # DB => disk'[c].data = disk[c].data
          /\ n = DB /\ ~job[a].mixed => disk'[c].data = disk[World].data
          /\ \A m \in Names : m # n => disk'[c].files[m] = disk[c].files[m]
      BY <1>0, <1>1, <1>18, <2>4, EndCopyEffect
    <3>2. job[a].busy = {n} /\ job[a].todo \subseteq Names
      BY <1>0, <1>1, <2>1 DEF JobOK, Job
    <3>3. "stale" \notin flaws' => \A m \in job'[a].todo : disk'[c].files[m] = "absent"
      BY <1>2, <1>5, <2>1, <2>4, <3>1, <3>2 DEF ItemsOK
    <3>4. "stale" \notin flaws' => ~job[a].mixed
      BY <1>2, <2>1, <2>4 DEF ItemsOK
    <3>5. "stale" \notin flaws' =>
             (DB \notin job'[a].todo /\ disk'[c].files[DB] = "whole"
                => disk[World].files[DB] = "whole" /\ disk'[c].data = disk[World].data)
      BY <1>1, <1>2, <1>5, <2>1, <2>4, <3>1, <3>4 DEF ItemsOK
    <3>6. ItemsOK(a)'
      BY <1>5, <2>1, <2>4, <3>1, <3>3, <3>5 DEF ItemsOK, Tiles
    <3> QED BY <1>2, <2>1, <2>4, <3>1, <3>6
  <2>5. CASE job[a].pc = "copyBack"
    <3>1. ~job[a].mixed
      BY <1>2, <2>1, <2>5 DEF ItemsOK
    <3>2. /\ disk'[c] = disk[c] /\ disk'[World].files[n] = disk[c].files[n]
          /\ disk'[World].data = (IF n = DB THEN disk[c].data ELSE disk[World].data)
          /\ \A m \in Names : m # n => disk'[World].files[m] = disk[World].files[m]
      BY <1>0, <1>1, <1>18, <2>5, <3>1, EndCopyEffect
    <3>3. \A m \in job'[a].todo : disk'[World].files[m] = "absent"
      <4>1. job[a].busy = {n} /\ job[a].todo \subseteq Names
        BY <1>0, <1>1, <2>1 DEF JobOK, Job
      <4> QED BY <1>2, <2>1, <2>5, <3>2, <4>1 DEF ItemsOK
    <3> QED BY <1>1, <1>2, <1>5, <2>1, <2>3, <2>5, <3>1, <3>2, <3>3 DEF ItemsOK, Tiles
  <2> QED BY <2>2, <2>4, <2>5 DEF Copies
<1>19. ASSUME NEW n \in Names, Delete(a, n)
       PROVE  /\ flaws' = {} /\ disk'[World].files[DB] = "whole" => Consistent(disk'[World].data, {})
              /\ job'[a].pc \notin {"delOrig", "copyBack"} => disk'[World].files[DB] # "absent"
              /\ ItemsOK(a)'
  <2>1. /\ job[a].pc \in {"delOrig", "delCache"} /\ n \in job[a].todo
        /\ job'[a].pc = job[a].pc /\ job'[a].cache = c /\ job'[a].busy = job[a].busy
    BY <1>0, <1>19, DeleteEffect DEF SameStage, c
  <2>2. HalfDone(a) = {} /\ HalfDone(a)' = {}
    BY <1>3, <1>4, <2>1
  <2>3. CASE job[a].pc = "delOrig"
    <3>1. /\ disk'[c] = disk[c] /\ disk'[World].data = disk[World].data
          /\ \A m \in Names : m # n => disk'[World].files[m] = disk[World].files[m]
          /\ disk'[World].files[n] # "whole"
          /\ \/ job'[a].todo = job[a].todo
             \/ disk'[World].files[n] = "absent" /\ job'[a].todo = job[a].todo \ {n}
      BY <1>1, <1>0, <1>19, <2>3, DeleteEffect
    <3> QED BY <1>1, <1>2, <1>5, <2>1, <2>2, <2>3, <3>1 DEF ItemsOK, Tiles
  <2>4. CASE job[a].pc = "delCache"
    <3>1. disk'[World] = disk[World]
      BY <1>1, <1>0, <1>19, <2>4, DeleteEffect
    <3> QED BY <1>1, <1>2, <2>1, <2>4, <3>1 DEF ItemsOK, Tiles
  <2> QED BY <2>1, <2>3, <2>4
<1> QED BY <1>11, <1>12, <1>13, <1>14, <1>15, <1>16, <1>17, <1>18, <1>19 DEF Work

LEMMA ItemsStep ==
    ASSUME EditInv, ItemsInv, [Next]_vars
    PROVE  ItemsInv'
<1> SUFFICES ASSUME scoped', faults' = 0
             PROVE  /\ flaws' = {} /\ disk'[World].files[DB] = "whole" => Consistent(disk'[World].data, {})
                    /\ screen' # "list" /\ WorldRests' => disk'[World].files[DB] # "absent"
                    /\ \A b \in Activities : ItemsOK(b)'
  BY DEF ItemsInv
<1>0. TypeInv /\ UIInv /\ faults \in Nat /\ (\A b \in Activities : JobOK(b)) /\ Idle.pc = "idle"
  BY DEF EditInv, TypeInv, Idle
<1>f. flaws \subseteq flaws' /\ (flaws' = {} => flaws = {})
  BY <1>0, FlawsStep
<1> DEFINE Fine == /\ flaws = {} /\ disk[World].files[DB] = "whole" => Consistent(disk[World].data, {})
                   /\ screen # "list" /\ WorldRests => disk[World].files[DB] # "absent"
                   /\ \A b \in Activities : ItemsOK(b)
<1>1. scoped /\ faults = 0 => Fine
  BY DEF ItemsInv
<1>2. ASSUME NEW b \in Activities, job'[b] = Idle
      PROVE  ItemsOK(b)' /\ job'[b].pc = "idle"
  BY <1>2 DEF ItemsOK, Idle, Tiles
<1>3. CASE UNCHANGED vars
  BY <1>1, <1>3 DEF vars, ui, ItemsOK, Copy, HalfDone, WorldRests
<1>4. CASE Leave \/ Deliver
  <2>1. UNCHANGED <<scoped, faults, disk, job, flaws>> /\ (screen' = screen \/ screen' = "list")
    BY <1>4 DEF Leave, Deliver
  <2> QED BY <1>1, <2>1 DEF ItemsOK, Copy, HalfDone, WorldRests
<1>5. CASE Crash
  <2>1. UNCHANGED <<scoped, faults, disk, flaws>> /\ screen' = "list" /\ \A b \in Activities : job'[b] = Idle
    BY <1>5 DEF Crash
  <2> QED BY <1>1, <1>2, <2>1
<1>6. ASSUME NEW a \in Activities, Choose(a)
      PROVE  Fine'
  <2>1. UNCHANGED <<scoped, faults, disk, job, flaws>> /\ disk[World].files[DB] # "absent"
    BY <1>6 DEF Choose, Listing
  <2> QED BY <1>1, <2>1 DEF ItemsOK, Copy, HalfDone, WorldRests
<1>7. ASSUME NEW a \in Activities, NEW slots \in Requests(a), Start(a, slots)
      PROVE  Fine'
  <2>1. UNCHANGED <<scoped, faults, disk, screen>> /\ screen # "list"
    BY <1>7 DEF Start, Activities
  <2>2. /\ \A b \in Activities : job[b].pc = "idle" /\ (b # a => job'[b] = Idle)
        /\ job'[a].pc = "copyOut" /\ job'[a].todo = Listing(World)
    BY <1>0, <1>7, <2>1, StartKeepsJob
  <2>3. disk[World].files[DB] # "absent"
    BY <1>1, <2>1, <2>2 DEF WorldRests
  <2>4. DB \in job'[a].todo
    BY <2>2, <2>3 DEF Listing, Names
  <2>5. "stale" \notin flaws' => \A n \in Names : disk'[job'[a].cache].files[n] = "absent"
    <3>1. job'[a].cache = CacheOf(a) /\ scoped
      BY <1>0, <1>7, <2>1, StartKeepsJob
    <3> QED BY <1>7, <2>1, <3>1 DEF Start, Listing
  <2>6. job'[a].todo \subseteq Names
    BY <2>2 DEF Listing
  <2>7. job'[a].busy = {}
    BY <1>0, <1>7, StartKeepsJob
  <2>8. ItemsOK(a)'
    BY <2>2, <2>4, <2>5, <2>6, <2>7 DEF ItemsOK, Tiles, Copy
  <2> QED BY <1>1, <1>2, <1>f, <2>1, <2>2, <2>3, <2>8
<1>8. ASSUME NEW a \in Activities, Work(a) \/ Trouble(a)
      PROVE  Fine'
  <2>1. /\ job[a].pc # "idle" /\ scoped /\ faults = 0
        /\ \A b \in Activities : b # a => job'[b] = Idle
    <3>1. /\ job[a].pc # "idle" /\ scoped' = scoped /\ faults' >= faults
          /\ \A b \in Activities : b # a => job'[b] = job[b]
      BY <1>0, <1>8, WorkFrame
    <3>2. \A b \in Activities : b # a => job[b] = Idle
      BY <1>0, <3>1, OneEdit
    <3>3. faults = 0
      BY <1>0, <3>1
    <3> QED BY <3>1, <3>2, <3>3
  <2>2. CASE Work(a)
    BY <1>2, <2>1, <2>2, WorkKeepsItems DEF WorldRests
  <2>3. CASE Trouble(a)
    <3>1. disk' = disk /\ OpenFails(a)
      BY <1>0, <2>1, <2>3, TroubleEffect
    <3>2. job'[a] = Idle /\ job[a].pc = "open" /\ screen' = screen
      BY <1>0, <2>1, <2>3, <3>1, WorkFrame DEF OpenFails, Fail, Runs, Becomes, TypeInv
    <3>4. flaws' = flaws
      BY <3>1 DEF OpenFails, Files
    <3>3. WorldRests
      BY <1>0, <2>1, <3>2, OneEdit DEF WorldRests
    <3> QED BY <1>1, <1>2, <2>1, <3>1, <3>2, <3>3, <3>4
  <2> QED BY <1>8, <2>2, <2>3
<1> QED BY <1>3, <1>4, <1>5, <1>6, <1>7, <1>8 DEF Next

LEMMA ItemsInit ==
    ASSUME Init
    PROVE  ItemsInv
<1>1. World \in Places /\ DB \in Names
  BY WorldEditAssumption DEF World, Places, Names
<1>2. disk[World].files[DB] = "whole" /\ \A s \in DOMAIN disk[World].data.player :
         disk[World].data.player[s] = NoMap
  BY <1>1 DEF Init
<1>3. \A a \in Activities : job[a].pc = "idle"
  BY DEF Init, Idle
<1>4. Consistent(disk[World].data, {})
  BY <1>2 DEF Consistent
<1> QED BY <1>2, <1>3, <1>4 DEF ItemsInv, ItemsOK, Tiles

\* In the world that the game sees no item refers to a map that is not there, wherever
\* the process ends, unless an operation failed, a torn db was opened or a copy that was
\* left behind was used again: summonMapItem() puts the player's record before the map,
\* but in the copy, and the copy is moved back only after the last tile, as a whole.
THEOREM ItemsHaveMaps == Spec => []NoItemWithoutMap
<1>1. ItemsInv => NoItemWithoutMap
  BY DEF ItemsInv, Consistent, NoItemWithoutMap, Whole
<1> QED BY <1>1, ItemsInit, ItemsStep, EditInvariant, PTL DEF Spec

----------------------------------------------------------------------------
(* Where the files of the world are                                        *)

\* As long as no operation failed and no edit began in a copy left behind
Trusted == faults = 0 /\ "stale" \notin flaws

\* The copies that edits left behind, and what they hold
Old        == {p \in 1..serial + 1 : \A a \in Activities : p # job[a].cache}
Has(p, u)  == disk[p].files[DB] = "whole" /\ disk[p].data.maps[u] # 0
Held(n)    == \E p \in Old : disk[p].files[n] = "whole"
HeldMap(u) == \E p \in Old : Has(p, u)

\* A db that with those left behind has all promised maps
Sound(p) == \A u \in promised : Has(p, u) \/ HeldMap(u)

Copied(a, n) == /\ Copy(a).files[n] = disk[World].files[n]
                /\ n = DB /\ Copy(a).files[n] = "whole" => Copy(a).data = disk[World].data

\* Where each file is whole, stage by stage
CopiesOK(a) ==
    LET j == job[a] IN
    /\ j.pc = "copyOut" => /\ j.busy # {} => ~j.mixed
                           /\ \A n \in j.todo \ j.busy : Copy(a).files[n] = "absent"
                           /\ \A n \in Names \ j.todo : Copied(a, n)
    /\ j.pc = "open" => \A n \in Names : Copied(a, n)
    /\ j.pc \in Tiles \cup {"close"} => \A n \in Plain : Copied(a, n)
    /\ j.pc \in Tiles \cup {"close", "delOrig", "copyBack"}
         => Sound(j.cache) /\ Copy(a).files[DB] = "whole"
    /\ j.pc \in {"delOrig", "copyBack"}
         => \A n \in Plain : Held(n) \/ Copy(a).files[n] = "whole"
    /\ j.pc = "copyBack" => \A n \in Names \ j.todo : Copied(a, n)

WorldOK ==
    /\ WorldRests => /\ \A n \in Plain : Held(n) \/ disk[World].files[n] = "whole"
                     /\ Sound(World)
    /\ event = "complete" => disk[World].files[DB] = "whole"

CopiesInv == Trusted /\ scoped => WorldOK /\ \A a \in Activities : CopiesOK(a)

\* What an edit has done to the data so far: the slots made, and those touched
Made(data, made, touched) ==
    /\ DOMAIN data.player = DOMAIN before.data.player
    /\ \A u \in Uuids : before.data.maps[u] # 0 => data.maps[u] = before.data.maps[u]
    /\ \A s \in made : data.player[s] \in Uuids /\ data.maps[data.player[s]] = serial
    /\ \A s, t \in made : data.player[s] = data.player[t] => s = t
    /\ \A s \in DOMAIN data.player \ touched : data.player[s] = before.data.player[s]

Undamaged  == \A n \in Names : before.files[n] = "whole"
Askable    == asked \cap DOMAIN before.data.player    \* what the toast is right about
AllMade(p) == (\A n \in Names : disk[p].files[n] = "whole") /\ Made(disk[p].data, Askable, Askable)

\* From the world as it was, over the copy, to the world that has the maps
MadeOK(a) ==
    LET j == job[a] IN
    /\ j.pc \in {"copyOut", "open"} \/ (scoped /\ j.pc \in Tiles \cup {"close"})
         => disk[World] = before
    /\ j.pc \in Tiles \cup {"close"}
         => Made(Edited(a), Askable \ Left(a), (Askable \ Left(a)) \cup HalfDone(a))
    /\ j.pc \in {"delOrig", "copyBack"} => AllMade(j.cache)
    /\ j.pc \in {"delCache", "done"} => AllMade(World)

SuccessInv ==
    Trusted /\ Undamaged =>
      /\ event = "complete" \/ told = "ok" => AllMade(World)
      /\ \A a \in Activities : MadeOK(a)

\* A step of an edit that is not its last
LEMMA WorkKeepsStage ==
    ASSUME TypeInv, NEW a \in Activities, JobOK(a), Work(a), ~Finish(a)
    PROVE  /\ job'[a].cache = job[a].cache /\ job'[a].pc # "idle"
           /\ UNCHANGED <<event, told, promised, faults>>
<1>0. job[a].pc # "idle" /\ job[a] \in Job
  BY WorkFrame, PlacesOK
<1>1. job[a].slots # <<>> => /\ TileDone(job[a]).cache = job[a].cache
                             /\ TileDone(job[a]).pc # "idle"
  BY <1>0, TileDoneEffect
<1>2. CASE StageEnds(a)
  BY <1>0, <1>2, StageEndsEffect
<1>3. CASE Open(a)
  BY <1>0, <1>3, OpenEffect DEF Job
<1>4. CASE Get(a)
  BY <1>0, <1>1, <1>4, GetEffect DEF Job
<1>5. CASE Pick(a)
  <2>1. PICK u \in FreeUuids(Edited(a)) :
           /\ job'[a] = [job[a] EXCEPT !.pc = "putPlayer", !.uuid = u]
           /\ UNCHANGED <<disk, event, told, promised, faults>>
    BY <1>0, <1>5, PickEffect
  <2> QED BY <1>0, <2>1 DEF Job
<1>6. CASE PutPlayer(a)
  BY <1>0, <1>6, PutPlayerEffect DEF Job
<1>7. CASE PutMap(a)
  BY <1>0, <1>1, <1>7, PutMapEffect
<1>8. CASE \E n \in Names : BeginCopy(a, n)
  BY <1>0, <1>8, BeginCopyEffect DEF SameStage
<1>9. CASE \E n \in Names : EndCopy(a, n)
  BY <1>0, <1>9, EndCopyEffect DEF SameStage
<1>10. CASE \E n \in Names : Delete(a, n)
  BY <1>0, <1>10, DeleteEffect DEF SameStage
<1> QED BY <1>2, <1>3, <1>4, <1>5, <1>6, <1>7, <1>8, <1>9, <1>10 DEF Work

\* The copies that are left alone stay what they are.
LEMMA WorkOld ==
    ASSUME EditInv, scoped, NEW a \in Activities, Work(a), ~Finish(a)
    PROVE  /\ job'[a].cache = job[a].cache /\ job'[a].pc # "idle" /\ Old' = Old
           /\ UNCHANGED <<event, told, promised, faults>>
           /\ \A p \in Places \ {World, job[a].cache} : disk'[p] = disk[p]
           /\ Old \subseteq Places \ {World, job[a].cache}
           /\ \A n \in Names : Held(n)' <=> Held(n)
           /\ \A u \in Uuids : HeldMap(u)' <=> HeldMap(u)
<1>0. /\ TypeInv /\ JobOK(a) /\ job[a].pc # "idle" /\ serial' = serial
      /\ job[a] \in Job /\ \A b \in Activities : b # a => job'[b] = job[b]
  BY WorkFrame, PlacesOK DEF EditInv
<1>1. Target(a) \in {World, job[a].cache} /\ Where(a) \in {World, job[a].cache}
  BY DEF Target, Where
<1>2. \A p \in Places \ {World, job[a].cache} : disk'[p] = disk[p]
  BY <1>0, <1>1, WorkDisk
<1>3. job'[a].cache = job[a].cache /\ job'[a].pc # "idle" /\ UNCHANGED <<event, told, promised, faults>>
  BY <1>0, WorkKeepsStage
<1>4. \A b \in Activities : job'[b].cache = job[b].cache
  BY <1>0, <1>3
<1>5. Old' = Old
  BY <1>0, <1>4 DEF Old
<1>6. Old \subseteq Places \ {World, job[a].cache}
  BY <1>0, WorldEditAssumption DEF Old, Places, World, TypeInv
<1>7. \A p \in Old : disk'[p] = disk[p]
  BY <1>2, <1>6
<1>8. \A n \in Names : Held(n)' <=> Held(n)
  BY <1>5, <1>7 DEF Held
<1>9. \A u \in Uuids : HeldMap(u)' <=> HeldMap(u)
  BY <1>5, <1>7 DEF HeldMap, Has
<1> QED BY <1>2, <1>3, <1>5, <1>6, <1>8, <1>9

LEMMA SoundKept ==
    ASSUME NEW p, NEW q, promised' = promised, Sound(p),
           \A u \in promised : (HeldMap(u) => HeldMap(u)') /\ (Has(p, u) => Has(q, u)')
    PROVE  Sound(q)'
BY DEF Sound

\* What is left behind when the directories do not change
LEMMA MoreOld ==
    ASSUME disk' = disk, Old \subseteq Old'
    PROVE  /\ \A n : Held(n) => Held(n)'
           /\ \A u : HeldMap(u) => HeldMap(u)'
           /\ \A p, u : Has(p, u)' <=> Has(p, u)
           /\ promised' = promised => \A p : Sound(p) => Sound(p)'
BY DEF Held, HeldMap, Has, Sound

\* What an edit promises at its end, the world has.
LEMMA PromiseKept ==
    ASSUME disk' = disk, Old \subseteq Old', Sound(World), disk[World].files[DB] = "whole",
           promised' = promised \/
               promised' = promised \cup {u \in Uuids : disk[World].data.maps[u] # 0}
    PROVE  Sound(World)'
<1> SUFFICES ASSUME NEW u \in promised' PROVE (Has(World, u) \/ HeldMap(u))'
  BY DEF Sound
<1>1. CASE u \in promised
  BY <1>1, MoreOld DEF Sound
<1>2. CASE u \notin promised
  <2>1. Has(World, u)
    BY <1>2 DEF Has
  <2> QED BY <2>1, MoreOld
<1> QED BY <1>1, <1>2

LEMMA FinishKeepsCopies ==
    ASSUME EditInv, ItemsInv, CopiesInv, Trusted, scoped, NEW a \in Activities, Finish(a)
    PROVE  CopiesInv'
<1>0. /\ TypeInv /\ UIInv /\ JobOK(a) /\ job[a].pc = "done" /\ job'[a] = Idle /\ disk' = disk
      /\ \/ promised' = promised
         \/ promised' = promised \cup {u \in Uuids : disk[World].data.maps[u] # 0}
      /\ \A b \in Activities : b # a => job'[b] = job[b] /\ job[b] = Idle
      /\ UNCHANGED serial
  BY FinishEffect, WorkFrame, OneEdit DEF EditInv, Work
<1>1. WorldOK /\ CopiesOK(a) /\ disk[World].files[DB] = "whole"
  BY <1>0 DEF CopiesInv, ItemsInv, ItemsOK, Trusted
<1>2. \A b \in Activities : job'[b] = Idle
  BY <1>0
<1>3. Old \subseteq Old'
  <2>1. serial \in Nat
    BY <1>0, WorldEditAssumption DEF TypeInv
  <2>2. \A p \in 1..serial + 1 : p # World
    BY <2>1 DEF World
  <2> QED BY <1>0, <1>2, <2>2 DEF Old, Idle
<1>4. WorldRests
  BY <1>0 DEF WorldRests, Idle
<1>5. Sound(World)'
  BY <1>0, <1>1, <1>3, <1>4, PromiseKept DEF WorldOK
<1>6. \A n \in Plain : Held(n) => Held(n)'
  BY <1>0, <1>3, MoreOld
<1>7. WorldOK'
  BY <1>0, <1>1, <1>4, <1>5, <1>6 DEF WorldOK
<1>8. \A b \in Activities : CopiesOK(b)'
  BY <1>2 DEF CopiesOK, Idle, Tiles
<1> QED BY <1>7, <1>8 DEF CopiesInv

LEMMA WorkKeepsCopies ==
    ASSUME EditInv, ItemsInv, CopiesInv, Trusted, scoped, NEW a \in Activities, Work(a), ~Finish(a)
    PROVE  WorldOK' /\ CopiesOK(a)'
<1> DEFINE D(p, q) == disk'[q].files[DB] = disk[p].files[DB] /\ disk'[q].data = disk[p].data
           Rests(b) == job[b].pc \notin {"delOrig", "copyBack"}
           Safe == /\ \A n \in Plain : Held(n) \/ disk[World].files[n] = "whole"
                   /\ Sound(World)
<1>c. PICK c \in Places : c = job[a].cache
  BY PlacesOK DEF EditInv, Job
<1>0. /\ TypeInv /\ UIInv /\ JobOK(a) /\ ItemsOK(a) /\ CopiesOK(a) /\ WorldOK /\ PlaceInv
      /\ job[a].pc # "idle" /\ event = "none"
      /\ disk \in [Places -> Dir] /\ faults = 0 /\ promised \subseteq Uuids
  BY WorkFrame, OneEdit DEF EditInv, TypeInv, ItemsInv, CopiesInv, Trusted
<1>1. /\ c \in Places /\ c # World /\ Where(a) = c /\ World \in Places /\ DB \in Names
      /\ job[a] \in Job /\ Edited(a) = disk[c].data /\ DB \notin Plain /\ Names = Plain \cup {DB}
      /\ Source(a) = (IF job[a].pc = "copyOut" THEN World ELSE c)
      /\ Target(a) = (IF job[a].pc \in {"copyOut", "delCache"} THEN c ELSE World)
  BY <1>c, <1>0, CopyPlace, WorldEditAssumption DEF Copy, Names
<1>2. /\ job'[a].cache = c /\ promised' = promised /\ event' = event
      /\ \A n \in Names : Held(n)' <=> Held(n)
      /\ \A u \in Uuids : HeldMap(u)' <=> HeldMap(u)
  BY <1>c, WorkOld
<1>3. /\ WorldRests <=> Rests(a)
      /\ WorldRests' <=> Rests(a)'
  <2>1. \A b \in Activities : b # a => job[b] = Idle /\ job'[b] = Idle
    BY <1>0, WorkFrame, OneEdit
  <2> QED BY <2>1 DEF WorldRests, Idle
<1>4. Rests(a) => Safe
  BY <1>0, <1>3 DEF WorldOK
<1>5. (Rests(a)' => Safe') => WorldOK'
  BY <1>0, <1>2, <1>3 DEF WorldOK
<1>6. ASSUME NEW p \in Places, NEW q \in Places, D(p, q), Sound(p)
      PROVE  Sound(q)'
  <2>1. \A u \in promised : (HeldMap(u) => HeldMap(u)') /\ (Has(p, u) => Has(q, u)')
    BY <1>0, <1>2, <1>6 DEF Has
  <2> QED BY <1>2, <1>6, <2>1, SoundKept
<1>7. Copy(a) = disk[c] /\ Copy(a)' = disk'[c]
  BY <1>c, <1>2 DEF Copy
<1>9. ASSUME disk'[World] = disk[World], Rests(a)
      PROVE  Safe'
  <2>1. Sound(World)'
    BY <1>1, <1>4, <1>6, <1>9
  <2> QED BY <1>0, <1>1, <1>2, <1>4, <1>9, <2>1
<1>10. ASSUME disk'[World] = disk[World], disk'[c] = disk[c]
       PROVE  /\ \A n \in Names : Copied(a, n)' <=> Copied(a, n)
              /\ (Sound(c) => Sound(c)') /\ (Sound(World) => Sound(World)')
  <2>1. \A n \in Names : Copied(a, n)' <=> Copied(a, n)
    BY <1>7, <1>10 DEF Copied
  <2> QED BY <1>1, <1>6, <1>10, <2>1
<1> HIDE DEF Safe
<1>11. CASE StageEnds(a)
  <2>1. /\ job[a].pc \in {"copyOut", "close", "delOrig", "copyBack", "delCache"}
        /\ job[a].todo = {} /\ job'[a].pc = After(job[a].pc)
        /\ job'[a].todo = WorkOf(After(job[a].pc), c) /\ disk' = disk
    BY <1>0, <1>11, <1>c, StageEndsEffect
  <2>2. Rests(a) => Safe'
    BY <2>1, <1>9
  <2>3. /\ \A n \in Names : Copied(a, n)' <=> Copied(a, n)
        /\ (Sound(c) => Sound(c)') /\ (Sound(World) => Sound(World)')
    BY <1>10, <2>1
  <2>4. CASE job[a].pc = "copyOut"
    <3>1. job'[a].pc = "open"
      BY <2>1, <2>4 DEF After
    <3>2. \A n \in Names : Copied(a, n)'
      BY <1>0, <2>1, <2>3, <2>4 DEF CopiesOK
    <3>3. CopiesOK(a)'
      BY <3>1, <3>2 DEF CopiesOK, Tiles
    <3> QED BY <1>5, <2>2, <2>4, <3>1, <3>3
  <2>5. CASE job[a].pc = "close"
    <3>1. job'[a].pc = "delOrig"
      BY <2>1, <2>5 DEF After
    <3>2. \A n \in Plain : Held(n) \/ disk[c].files[n] = "whole"
      BY <1>0, <1>4, <1>7, <2>5 DEF CopiesOK, Copied, Safe
    <3>3. \A n \in Plain : Held(n)' \/ Copy(a)'.files[n] = "whole"
      BY <1>1, <1>2, <1>7, <2>1, <3>2
    <3>4. Sound(c)' /\ Copy(a)'.files[DB] = "whole"
      BY <1>c, <1>0, <1>7, <2>1, <2>3, <2>5 DEF CopiesOK
    <3>5. CopiesOK(a)'
      BY <1>2, <3>1, <3>3, <3>4 DEF CopiesOK, Tiles
    <3> QED BY <1>5, <2>2, <3>1, <3>5
  <2>6. CASE job[a].pc = "delOrig"
    <3>1. job'[a].pc = "copyBack" /\ job'[a].todo = Listing(c)
      BY <2>1, <2>6 DEF After, WorkOf
    <3>2. \A n \in Names : disk[World].files[n] = "absent"
      BY <1>0, <2>1, <2>6 DEF ItemsOK
    <3>3. Sound(c)' /\ Copy(a)'.files[DB] = "whole"
      BY <1>c, <1>0, <1>7, <2>1, <2>3, <2>6 DEF CopiesOK
    <3>4. \A n \in Plain : Held(n)' \/ Copy(a)'.files[n] = "whole"
      BY <1>0, <1>1, <1>2, <1>7, <2>1, <2>6 DEF CopiesOK
    <3>5. \A n \in Names \ job'[a].todo : disk'[c].files[n] = "absent"
      BY <2>1, <3>1 DEF Listing
    <3>6. \A n \in Names \ job'[a].todo : Copied(a, n)'
      BY <1>7, <2>1, <3>2, <3>5 DEF Copied
    <3>7. CopiesOK(a)'
      BY <1>2, <3>1, <3>3, <3>4, <3>6 DEF CopiesOK, Tiles
    <3> QED BY <1>5, <2>2, <3>1, <3>7
  <2>7. CASE job[a].pc = "copyBack"
    <3>1. job'[a].pc = "delCache" /\ job'[a].todo = Listing(c)
      BY <2>1, <2>7 DEF After, WorkOf
    <3>2. \A n \in Names : disk[c].files[n] = disk[World].files[n]
      BY <1>0, <1>7, <2>1, <2>7 DEF CopiesOK, Copied
    <3>3. D(c, World)
      BY <1>0, <1>1, <1>7, <2>1, <2>7, <3>2 DEF CopiesOK, Copied
    <3>4. Sound(World)'
      BY <1>c, <1>0, <1>1, <1>6, <2>7, <3>3 DEF CopiesOK
    <3>5. \A n \in Plain : Held(n) \/ disk[World].files[n] = "whole"
      BY <1>0, <1>1, <1>7, <2>7, <3>2 DEF CopiesOK
    <3>6. Safe'
      BY <1>1, <1>2, <2>1, <3>4, <3>5 DEF Safe
    <3>7. CopiesOK(a)'
      BY <3>1 DEF CopiesOK, Tiles
    <3> QED BY <1>5, <3>6, <3>7
  <2>8. CASE job[a].pc = "delCache"
    <3>1. job'[a].pc = "done" /\ job'[a].todo = {}
      BY <2>1, <2>8 DEF After, WorkOf
    <3>2. CopiesOK(a)'
      BY <3>1 DEF CopiesOK, Tiles
    <3> QED BY <1>5, <2>2, <2>8, <3>2
  <2> QED BY <2>1, <2>4, <2>5, <2>6, <2>7, <2>8
<1>12. CASE Open(a)
  <2>1. job[a].pc = "open" /\ job'[a] = [job[a] EXCEPT !.pc = "get"]
    BY <1>0, <1>12, OpenEffect
  <2>2. job'[a].pc = "get"
    BY <1>1, <2>1 DEF Job
  <2>3. /\ disk'[World] = disk[World] /\ disk'[c].files[DB] = "whole"
        /\ disk[c].files[DB] = "whole" => disk'[c].data = disk[c].data
        /\ \A n \in Plain : disk'[c].files[n] = disk[c].files[n]
    BY <1>0, <1>1, <1>12, OpenEffect
  <2>4. \A n \in Names : Copied(a, n)
    BY <1>0, <2>1 DEF CopiesOK
  <2>5. \A n \in Plain : Copied(a, n)'
    BY <1>1, <1>7, <2>3, <2>4 DEF Copied
  <2>6. Sound(c)'
    <3>1. Sound(World)
      BY <1>4, <2>1 DEF Safe
    <3>2. ASSUME NEW u \in promised, Has(World, u)
          PROVE  Has(c, u)'
      <4>1. disk[c].files[DB] = "whole" /\ disk[c].data = disk[World].data
        BY <1>1, <1>7, <2>4, <3>2 DEF Has, Copied
      <4> QED BY <2>3, <3>2, <4>1 DEF Has
    <3> QED BY <1>0, <1>2, <3>1, <3>2 DEF Sound
  <2>7. CopiesOK(a)'
    BY <1>c, <1>2, <1>7, <2>2, <2>3, <2>5, <2>6 DEF CopiesOK, Tiles
  <2> QED BY <1>5, <1>9, <2>1, <2>3, <2>7
<1>13. CASE Get(a) \/ Pick(a)
  <2>1. /\ job[a].pc \in {"get", "pick"} /\ disk' = disk
        /\ job'[a].pc \in {"pick", "putPlayer", "get", "close"}
    <3>1. job[a].slots # <<>> => TileDone(job[a]).pc \in {"get", "close"}
      BY <1>1, TileDoneEffect
    <3>2. CASE Get(a)
      BY <1>0, <1>1, <3>1, <3>2, GetEffect DEF Job
    <3>3. CASE Pick(a)
      <4>1. PICK u \in FreeUuids(Edited(a)) :
               /\ job[a].pc = "pick" /\ disk' = disk
               /\ job'[a] = [job[a] EXCEPT !.pc = "putPlayer", !.uuid = u]
        BY <1>0, <3>3, PickEffect
      <4> QED BY <1>1, <4>1 DEF Job
    <3> QED BY <1>13, <3>2, <3>3
  <2>2. /\ \A n \in Names : Copied(a, n)' <=> Copied(a, n)
        /\ Sound(c) => Sound(c)'
    BY <1>10, <2>1
  <2>3. CopiesOK(a)'
    BY <1>c, <1>0, <1>1, <1>2, <1>7, <2>1, <2>2 DEF CopiesOK, Tiles
  <2> QED BY <1>5, <1>9, <2>1, <2>3
<1>14. CASE PutPlayer(a) \/ PutMap(a)
  <2>1. job[a].pc \in {"putPlayer", "putMap"} /\ job'[a].pc \in {"putMap", "get", "close"}
    <3>1. job[a].slots # <<>> => TileDone(job[a]).pc \in {"get", "close"}
      BY <1>1, TileDoneEffect
    <3>2. CASE PutPlayer(a)
      BY <1>0, <1>1, <3>2, PutPlayerEffect DEF Job
    <3>3. CASE PutMap(a)
      BY <1>0, <1>1, <3>1, <3>3, PutMapEffect
    <3> QED BY <1>14, <3>2, <3>3
  <2>2. /\ disk'[World] = disk[World] /\ disk'[c].files = disk[c].files
        /\ \A u \in Uuids : disk[c].data.maps[u] # 0 => disk'[c].data.maps[u] # 0
    <3>1. CASE PutPlayer(a)
      BY <1>0, <1>1, <3>1, PutPlayerEffect
    <3>2. CASE PutMap(a)
      BY <1>0, <1>1, <3>2, PutMapEffect
    <3> QED BY <1>14, <3>1, <3>2
  <2>5. Sound(c) /\ disk[c].files[DB] = "whole"
    BY <1>c, <1>0, <1>7, <2>1 DEF CopiesOK, Tiles
  <2>6. \A u \in promised : (HeldMap(u) => HeldMap(u)') /\ (Has(c, u) => Has(c, u)')
    BY <1>0, <1>2, <2>2 DEF Has
  <2>7. Sound(c)'
    BY <1>2, <2>5, <2>6, SoundKept
  <2>8. \A n \in Plain : Copied(a, n)'
    BY <1>0, <1>1, <1>7, <2>1, <2>2 DEF CopiesOK, Copied, Tiles
  <2>9. CopiesOK(a)'
    BY <1>2, <1>7, <2>1, <2>2, <2>5, <2>7, <2>8 DEF CopiesOK, Tiles
  <2> QED BY <1>5, <1>9, <2>1, <2>2, <2>9
<1>15. ASSUME NEW n \in Names, BeginCopy(a, n)
       PROVE  WorldOK' /\ CopiesOK(a)'
  <2>1. /\ job[a].pc \in Copies /\ job[a].busy = {} /\ n \in job[a].todo
        /\ job'[a].pc = job[a].pc
        /\ job'[a].todo = job[a].todo /\ job'[a].busy = {n}
        /\ job'[a].mixed => n = DB /\ disk[Target(a)].files[n] # "absent"
    BY <1>15, <1>0, BeginCopyEffect DEF SameStage
  <2>2. CASE job[a].pc = "copyOut"
    <3>1. /\ disk'[World] = disk[World] /\ disk'[c].data = disk[c].data
          /\ \A m \in Names : m # n => disk'[c].files[m] = disk[c].files[m]
      BY <1>0, <1>1, <1>15, <2>2, BeginCopyEffect
    <3>2. ~job'[a].mixed
      BY <1>0, <1>1, <1>7, <2>1, <2>2 DEF CopiesOK
    <3>3. \A m \in job[a].todo \ {n} : disk'[c].files[m] = "absent"
      BY <1>0, <1>1, <1>7, <2>1, <2>2, <3>1 DEF CopiesOK, Job
    <3>4. \A m \in Names \ job[a].todo : Copied(a, m)'
      BY <1>0, <1>7, <2>1, <2>2, <3>1 DEF CopiesOK, Copied
    <3>5. CopiesOK(a)'
      BY <1>7, <2>1, <2>2, <3>2, <3>3, <3>4 DEF CopiesOK, Tiles
    <3> QED BY <1>5, <1>9, <2>2, <3>1, <3>5
  <2>3. CASE job[a].pc = "copyBack"
    <3>1. /\ disk'[c] = disk[c] /\ disk'[World].data = disk[World].data
          /\ disk'[World].files[n] = "torn"
          /\ \A m \in Names : m # n => disk'[World].files[m] = disk[World].files[m]
      BY <1>0, <1>1, <1>15, <2>3, BeginCopyEffect
    <3>3. \A m \in Names \ job[a].todo : Copied(a, m)'
      BY <1>0, <1>7, <2>1, <2>3, <3>1 DEF CopiesOK, Copied
    <3>4. Sound(c)' /\ Copy(a)'.files[DB] = "whole"
      BY <1>c, <1>0, <1>1, <1>6, <1>7, <2>3, <3>1 DEF CopiesOK
    <3>5. \A m \in Plain : Held(m)' \/ Copy(a)'.files[m] = "whole"
      BY <1>0, <1>1, <1>2, <1>7, <2>3, <3>1 DEF CopiesOK
    <3>6. CopiesOK(a)'
      BY <1>2, <2>1, <2>3, <3>3, <3>4, <3>5 DEF CopiesOK, Tiles
    <3> QED BY <1>5, <2>1, <2>3, <3>6
  <2> QED BY <2>1, <2>2, <2>3 DEF Copies
<1>16. ASSUME NEW n \in Names, EndCopy(a, n)
       PROVE  WorldOK' /\ CopiesOK(a)'
  <2>1. /\ n \in job[a].busy /\ job'[a].pc = job[a].pc
        /\ job'[a].todo = job[a].todo \ {n} /\ job'[a].busy = {}
    BY <1>16, <1>0, EndCopyEffect DEF SameStage
  <2>2. job[a].pc \in Copies /\ job[a].busy = {n} /\ job[a].todo \subseteq Names
    BY <1>0, <1>1, <2>1 DEF JobOK, Job
  <2>3. CASE job[a].pc = "copyOut"
    <3>1. ~job[a].mixed
      BY <1>0, <2>1, <2>3 DEF CopiesOK
    <3>2. /\ disk'[World] = disk[World] /\ disk'[c].files[n] = disk[World].files[n]
          /\ n = DB => disk'[c].data = disk[World].data
          /\ n # DB => disk'[c].data = disk[c].data
          /\ \A m \in Names : m # n => disk'[c].files[m] = disk[c].files[m]
      BY <1>0, <1>1, <1>16, <2>3, <3>1, EndCopyEffect
    <3>3. \A m \in job'[a].todo : disk'[c].files[m] = "absent"
      BY <1>0, <1>7, <2>1, <2>2, <2>3, <3>2 DEF CopiesOK
    <3>4. ASSUME NEW m \in Names \ job'[a].todo PROVE Copied(a, m)'
      <4>1. CASE m = n
        BY <1>7, <3>2, <4>1 DEF Copied
      <4>2. CASE m # n
        <5>1. Copied(a, m)
          BY <1>0, <2>1, <2>3, <4>2 DEF CopiesOK
        <5> QED BY <1>7, <3>2, <4>2, <5>1 DEF Copied
      <4> QED BY <4>1, <4>2
    <3>5. CopiesOK(a)'
      BY <1>7, <2>1, <2>3, <3>3, <3>4 DEF CopiesOK, Tiles
    <3> QED BY <1>5, <1>9, <2>1, <2>3, <3>2, <3>5
  <2>4. CASE job[a].pc = "copyBack"
    <3>1. ~job[a].mixed
      BY <1>0, <2>1, <2>4 DEF ItemsOK
    <3>2. /\ disk'[c] = disk[c] /\ disk'[World].files[n] = disk[c].files[n]
          /\ n = DB => disk'[World].data = disk[c].data
          /\ n # DB => disk'[World].data = disk[World].data
          /\ \A m \in Names : m # n => disk'[World].files[m] = disk[World].files[m]
      BY <1>0, <1>1, <1>16, <2>4, <3>1, EndCopyEffect
    <3>3. ASSUME NEW m \in Names \ job'[a].todo PROVE Copied(a, m)'
      <4>1. CASE m = n
        BY <1>7, <3>2, <4>1 DEF Copied
      <4>2. CASE m # n
        <5>1. Copied(a, m)
          BY <1>0, <2>1, <2>4, <4>2 DEF CopiesOK
        <5> QED BY <1>7, <3>2, <4>2, <5>1 DEF Copied
      <4> QED BY <4>1, <4>2
    <3>4. Sound(c) /\ Sound(c)' /\ Copy(a)'.files[DB] = "whole"
      BY <1>c, <1>0, <1>1, <1>6, <1>7, <2>4, <3>2 DEF CopiesOK
    <3>6. \A m \in Plain : Held(m)' \/ Copy(a)'.files[m] = "whole"
      BY <1>0, <1>1, <1>2, <1>7, <2>4, <3>2 DEF CopiesOK
    <3>7. CopiesOK(a)'
      BY <1>2, <2>1, <2>4, <3>3, <3>4, <3>6 DEF CopiesOK, Tiles
    <3> QED BY <1>5, <2>1, <2>4, <3>7
  <2> QED BY <2>2, <2>3, <2>4 DEF Copies
<1>17. ASSUME NEW n \in Names, Delete(a, n)
       PROVE  WorldOK' /\ CopiesOK(a)'
  <2>1. /\ job[a].pc \in {"delOrig", "delCache"} /\ n \in job[a].todo
        /\ job'[a].pc = job[a].pc
    BY <1>17, <1>0, DeleteEffect DEF SameStage
  <2>2. CASE job[a].pc = "delOrig"
    <3>1. /\ disk'[c] = disk[c] /\ disk'[World].data = disk[World].data
          /\ \A m \in Names : m # n => disk'[World].files[m] = disk[World].files[m]
          /\ disk'[World].files[n] # "whole"
      BY <1>1, <1>0, <1>17, <2>2, DeleteEffect
    <3>3. Sound(c)' /\ Copy(a)'.files[DB] = "whole"
      BY <1>c, <1>0, <1>1, <1>6, <1>7, <2>2, <3>1 DEF CopiesOK
    <3>4. \A m \in Plain : Held(m)' \/ Copy(a)'.files[m] = "whole"
      BY <1>0, <1>1, <1>2, <1>7, <2>2, <3>1 DEF CopiesOK
    <3>5. CopiesOK(a)'
      BY <1>2, <2>1, <2>2, <3>3, <3>4 DEF CopiesOK, Tiles
    <3> QED BY <1>5, <2>1, <2>2, <3>5
  <2>3. CASE job[a].pc = "delCache"
    <3>1. disk'[World] = disk[World]
      BY <1>1, <1>0, <1>17, <2>3, DeleteEffect
    <3>2. CopiesOK(a)'
      BY <2>1, <2>3 DEF CopiesOK, Tiles
    <3> QED BY <1>5, <1>9, <2>1, <2>3, <3>1, <3>2
  <2> QED BY <2>1, <2>2, <2>3
<1> QED BY <1>11, <1>12, <1>13, <1>14, <1>15, <1>16, <1>17 DEF Work

LEMMA StartKeepsCopies ==
    ASSUME EditInv, CopiesInv, Trusted, Trusted', scoped, NEW a \in Activities,
           NEW slots \in Requests(a), Start(a, slots)
    PROVE  CopiesInv'
<1>0. /\ TypeInv /\ UIInv /\ PlaceInv /\ serial \in Nat /\ serial < MaxJobs /\ MaxJobs \in Nat
      /\ UNCHANGED <<scoped, disk, promised, event>>
      /\ flaws' = flaws \cup {f \in {"stale"} : scoped /\ Listing(CacheOf(a)) # {}}
  BY WorldEditAssumption DEF EditInv, TypeInv, Start
<1>1. /\ \A b \in Activities : job[b] = Idle
      /\ \A b \in Activities : b # a => job'[b] = Idle
      /\ job'[a].pc = "copyOut" /\ job'[a].cache = CacheOf(a) /\ job'[a].todo = Listing(World)
      /\ job'[a].busy = {} /\ serial' = serial + 1
  BY <1>0, StartKeepsJob
<1>2. PICK c \in 1..serial + 2 : c = CacheOf(a)
  BY <1>0 DEF CacheOf
<1>3. WorldOK
  BY DEF CopiesInv
<1>4. Old = 1..serial + 1 /\ Old' = (1..serial + 2) \ {c}
  <2>1. \A b \in Activities : job[b].cache = World /\ (b # a => job'[b].cache = World)
    BY <1>1 DEF Idle
  <2>2. job'[a].cache = c /\ \A p \in 1..serial + 2 : p # World
    BY <1>0, <1>1, <1>2 DEF World
  <2>3. Old = 1..serial + 1
    BY <1>0, <2>1, <2>2 DEF Old
  <2>4. serial' + 1 = serial + 2
    BY <1>0, <1>1
  <2> QED BY <1>0, <1>1, <2>1, <2>2, <2>3, <2>4 DEF Old
<1>7. \A n \in Names : disk[c].files[n] = "absent"
  <2>1. "stale" \notin flaws'
    BY DEF Trusted
  <2>2. Listing(CacheOf(a)) = {}
    BY <1>0, <2>1
  <2> QED BY <1>2, <2>2 DEF Listing
<1>9. DB \in Names /\ Names = Plain \cup {DB}
  BY DEF Names
<1>10. \A n \in Names : Held(n) => Held(n)'
  BY <1>0, <1>4, <1>7 DEF Held
<1>11. \A u : HeldMap(u) => HeldMap(u)'
  BY <1>0, <1>4, <1>7, <1>9 DEF HeldMap, Has
<1>12. Sound(World) => Sound(World)'
  BY <1>0, <1>11 DEF Sound, Has
<1>13. WorldRests
  BY <1>1 DEF WorldRests, Idle
<1>14. WorldOK'
  BY <1>0, <1>3, <1>9, <1>10, <1>12, <1>13 DEF WorldOK
<1>15. \A n \in job'[a].todo : Copy(a)'.files[n] = "absent"
  BY <1>0, <1>1, <1>2, <1>7 DEF Copy, Listing
<1>16. \A n \in Names \ job'[a].todo : Copied(a, n)'
  <2>1. Copy(a)' = disk[c]
    BY <1>0, <1>1, <1>2 DEF Copy
  <2>2. \A n \in Names \ job'[a].todo : disk[World].files[n] = "absent"
    BY <1>1 DEF Listing
  <2> QED BY <1>0, <1>7, <2>1, <2>2 DEF Copied
<1>17. CopiesOK(a)'
  BY <1>1, <1>15, <1>16 DEF CopiesOK, Tiles
<1>18. \A b \in Activities : CopiesOK(b)'
  BY <1>1, <1>17 DEF CopiesOK, Idle, Tiles
<1> QED BY <1>14, <1>18 DEF CopiesInv

\* The process ends: what the edit had copied stays.
LEMMA CrashKeepsCopies ==
    ASSUME EditInv, CopiesInv, Trusted, scoped, Crash \/ \E a \in Activities : OpenFails(a)
    PROVE  CopiesInv'
<1>0. /\ TypeInv /\ UIInv /\ (\A b \in Activities : JobOK(b)) /\ serial \in Nat
      /\ UNCHANGED <<scoped, disk, promised, serial>> /\ Names = Plain \cup {DB} /\ DB \notin Plain
      /\ \A b \in Activities : job'[b] = Idle
      /\ event' # "complete"
  <2>1. /\ TypeInv /\ UIInv /\ (\A b \in Activities : JobOK(b)) /\ Names = Plain \cup {DB}
        /\ DB \notin Plain /\ serial \in Nat
    BY WorldEditAssumption DEF EditInv, Names, TypeInv
  <2>2. CASE Crash
    BY <2>1, <2>2 DEF Crash, last
  <2>3. ASSUME NEW a \in Activities, OpenFails(a)
        PROVE  /\ UNCHANGED <<scoped, disk, promised, serial>>
               /\ \A b \in Activities : job'[b] = Idle
               /\ event' # "complete"
    <3>1. /\ UNCHANGED <<scoped, disk, promised, serial>> /\ job' = [job EXCEPT ![a] = Idle]
          /\ job[a].pc = "open" /\ event' \in {event, "error"}
      BY <2>3 DEF OpenFails, Fail, Rest, last, Becomes, Runs, Files
    <3>2. event = "none" /\ \A b \in Activities : b # a => job[b] = Idle
      BY <2>1, <3>1, OneEdit
    <3> QED BY <2>1, <3>1, <3>2 DEF TypeInv
  <2> QED BY <2>1, <2>2, <2>3
<1>1. WorldOK /\ \A b \in Activities : CopiesOK(b)
  BY DEF CopiesInv
<1>3. Old' = 1..serial + 1
  <2>1. \A p \in 1..serial + 1 : p # World
    BY <1>0 DEF World
  <2> QED BY <1>0, <2>1 DEF Old, Idle
<1>4. Old \subseteq Old'
  BY <1>3 DEF Old
<1>5. /\ \A n : Held(n) => Held(n)'
      /\ \A u : HeldMap(u) => HeldMap(u)'
      /\ \A p : Sound(p) => Sound(p)'
  BY <1>0, <1>4, MoreOld
<1>7. /\ \A n \in Plain : Held(n)' \/ disk'[World].files[n] = "whole"
      /\ Sound(World)'
  <2>1. CASE WorldRests
    BY <1>0, <1>1, <1>5, <2>1 DEF WorldOK
  <2>2. CASE ~WorldRests
    <3>1. PICK a \in Activities : job[a].pc \in {"delOrig", "copyBack"}
      BY <2>2 DEF WorldRests
    <3>2. PICK c \in 1..serial + 1 : c = job[a].cache
      BY <1>0, <3>1 DEF JobOK
    <3>3. c \in Old'
      BY <1>3, <3>2
    <3>4. /\ Sound(c)
          /\ \A n \in Plain : Held(n) \/ disk[c].files[n] = "whole"
      BY <1>1, <3>1, <3>2 DEF CopiesOK, Copy
    <3>5. \A n \in Plain : Held(n)'
      BY <1>0, <1>5, <3>3, <3>4 DEF Held
    <3>6. \A u \in promised' : HeldMap(u)'
      BY <1>0, <1>5, <3>3, <3>4 DEF Sound, HeldMap, Has
    <3> QED BY <3>5, <3>6 DEF Sound
  <2> QED BY <2>1, <2>2
<1>9. WorldOK'
  BY <1>0, <1>7 DEF WorldOK
<1>10. \A b \in Activities : CopiesOK(b)'
  BY <1>0 DEF CopiesOK, Idle, Tiles
<1> QED BY <1>9, <1>10 DEF CopiesInv

LEMMA TrustedBefore ==
    ASSUME EditInv, [Next]_vars, Trusted'
    PROVE  Trusted
<1>0. TypeInv /\ faults \in Nat /\ \A a \in Activities : JobOK(a)
  BY DEF EditInv, TypeInv
<1>1. faults' = faults \/ (faults' \in Nat /\ faults' >= faults)
  <2>1. CASE \E a \in Activities : Work(a) \/ Trouble(a)
    BY <1>0, <2>1, WorkFrame
  <2>2. CASE ~\E a \in Activities : Work(a) \/ Trouble(a)
    BY <2>2 DEF Next, Leave, Deliver, Crash, Choose, Start, vars
  <2> QED BY <2>1, <2>2
<1>2. flaws \subseteq flaws'
  BY <1>0, FlawsStep
<1> QED BY <1>0, <1>1, <1>2 DEF Trusted

LEMMA CopiesStep ==
    ASSUME EditInv, ItemsInv, CopiesInv, [Next]_vars
    PROVE  CopiesInv'
<1> SUFFICES ASSUME Trusted', scoped'
             PROVE  CopiesInv'
  BY DEF CopiesInv
<1>0. TypeInv /\ UIInv /\ (\A b \in Activities : JobOK(b)) /\ Trusted
  BY TrustedBefore DEF EditInv
<1>1. scoped' = scoped /\ scoped
  <2>1. CASE \E a \in Activities : Work(a) \/ Trouble(a)
    BY <1>0, <2>1, WorkFrame
  <2> QED BY <2>1 DEF Next, Leave, Deliver, Crash, Choose, Start, vars
<1>2. WorldOK /\ \A a \in Activities : CopiesOK(a)
  BY <1>0, <1>1 DEF CopiesInv
<1>3. ASSUME UNCHANGED <<disk, job, serial, promised>>, event' \in {event, "none"}
      PROVE  CopiesInv'
  <2>1. Old' = Old /\ (\A n : Held(n)' <=> Held(n))
    BY <1>3 DEF Old, Held
  <2>2. \A p : Sound(p) => Sound(p)'
    BY <1>3, <2>1, MoreOld
  <2>3. WorldOK'
    BY <1>2, <1>3, <2>1, <2>2 DEF WorldOK, WorldRests
  <2>4. ASSUME NEW a \in Activities PROVE CopiesOK(a)'
    <3>1. /\ Copy(a)' = Copy(a) /\ (\A n : Copied(a, n)' <=> Copied(a, n)) /\ CopiesOK(a)
          /\ job'[a] = job[a]
      BY <1>2, <1>3 DEF Copied, Copy
    <3>2. Sound(job[a].cache) => Sound(job[a].cache)'
      <4>1. PICK c \in Places : c = job[a].cache
        BY <1>0, PlacesOK DEF Job
      <4> QED BY <1>3, <2>2, <4>1
    <3> QED BY <2>1, <2>2, <3>1, <3>2 DEF CopiesOK
  <2> QED BY <2>3, <2>4 DEF CopiesInv
<1>4. CASE UNCHANGED vars
  BY <1>3, <1>4 DEF vars, ui, last
<1>5. CASE Leave \/ \E a \in Activities : Choose(a)
  BY <1>3, <1>5 DEF Leave, Choose, last
<1>6. CASE Deliver
  <2>1. /\ UNCHANGED <<disk, job, serial>> /\ event' = "none"
        /\ promised' = promised \/
             (event = "complete" /\
              promised' = promised \cup {u \in Uuids : disk[World].data.maps[u] # 0})
        /\ \A b \in Activities : job[b] = Idle
    BY <1>0, <1>6 DEF Deliver, Succeed, last, UIInv
  <2>2. CASE promised' = promised
    BY <1>3, <2>1, <2>2
  <2>3. CASE promised' # promised
    <3>1. Old' = Old /\ WorldRests
      BY <2>1 DEF Old, WorldRests, Idle
    <3>2. Sound(World)'
      BY <1>2, <2>1, <2>3, <3>1, PromiseKept DEF WorldOK
    <3>3. \A n \in Plain : Held(n)' <=> Held(n)
      BY <2>1, <3>1 DEF Held
    <3>4. WorldOK'
      BY <1>2, <2>1, <3>1, <3>2, <3>3 DEF WorldOK
    <3>5. \A b \in Activities : CopiesOK(b)'
      BY <2>1 DEF CopiesOK, Idle, Tiles
    <3> QED BY <3>4, <3>5 DEF CopiesInv
  <2> QED BY <2>2, <2>3
<1>7. CASE Crash
  BY <1>0, <1>1, <1>7, CrashKeepsCopies
<1>8. ASSUME NEW a \in Activities, NEW slots \in Requests(a), Start(a, slots)
      PROVE  CopiesInv'
  BY <1>0, <1>1, <1>8, StartKeepsCopies
<1>9. ASSUME NEW a \in Activities, Work(a)
      PROVE  CopiesInv'
  <2>1. CASE Finish(a)
    BY <1>0, <1>1, <1>9, <2>1, FinishKeepsCopies
  <2>2. CASE ~Finish(a)
    <3>1. WorldOK' /\ CopiesOK(a)'
      BY <1>0, <1>1, <1>9, <2>2, WorkKeepsCopies
    <3>2. \A b \in Activities : b # a => job'[b] = Idle
      BY <1>0, <1>9, WorkFrame, OneEdit
    <3>3. \A b \in Activities : CopiesOK(b)'
      BY <3>1, <3>2 DEF CopiesOK, Idle, Tiles
    <3> QED BY <3>1, <3>3 DEF CopiesInv
  <2> QED BY <2>1, <2>2
<1>10. ASSUME NEW a \in Activities, Trouble(a)
       PROVE  CopiesInv'
  <2>1. faults' = 0 /\ faults = 0
    BY <1>0 DEF Trusted
  <2>2. OpenFails(a)
    BY <1>0, <1>10, <2>1, TroubleEffect
  <2> QED BY <1>0, <1>1, <2>2, CrashKeepsCopies
<1> QED BY <1>4, <1>5, <1>6, <1>7, <1>8, <1>9, <1>10 DEF Next

\* The world and the copies at first
LEMMA CopiesInit ==
    ASSUME Init
    PROVE  CopiesInv /\ SuccessInv
<1>1. /\ World \in Places /\ serial = 0 /\ event = "none" /\ told = "none"
      /\ \A a \in Activities : job[a] = Idle
  BY WorldEditAssumption DEF Init, World, Places
<1>2. \A n \in Names : disk[World].files[n] = "whole"
  BY <1>1 DEF Init
<1>3. Sound(World)
  BY <1>2 DEF Init, Sound, Has, Names
<1>5. CopiesInv
  BY <1>1, <1>2, <1>3 DEF CopiesInv, WorldOK, CopiesOK, Idle, Tiles, Names
<1>6. SuccessInv
  BY <1>1 DEF SuccessInv, MadeOK, Idle, Tiles
<1> QED BY <1>5, <1>6

\* Wherever the process ends, in either activity, each file of the world is whole in
\* one directory, and each map that the world had or that the user was told of is in
\* a whole db, for any number of edits and ends of the process: startEditWorld() and
\* summonPicToMinecraft() delete nothing that no other directory has.  It takes that
\* no operation failed, and that ImportPicActivity began no edit in the copy that an
\* interrupted one left behind.
THEOREM NothingIsLost == Spec => []NothingLost
<1>1. EditInv /\ CopiesInv => NothingLost
  <2> SUFFICES ASSUME EditInv, CopiesInv, Trusted PROVE NothingLost
    BY DEF NothingLost, Trusted
  <2>0. /\ TypeInv /\ PlaceInv /\ Names = Plain \cup {DB} /\ World \in Places
        /\ MaxJobs \in Nat /\ serial \in 0..MaxJobs /\ DB \in Names
    BY PlacesOK, WorldEditAssumption DEF EditInv, Names, TypeInv, World, Places
  <2>1. CASE ~scoped
    BY <2>0, <2>1 DEF PlaceInv, NothingLost, Whole
  <2>2. CASE scoped
    <3>1. Old \subseteq Places
      BY <2>0 DEF Old, Places
    <3>2. /\ \A n \in Plain : Held(n) => \E p \in Places : disk[p].files[n] = "whole"
          /\ \A u \in promised : HeldMap(u) => \E p \in Places : Has(p, u)
      BY <3>1 DEF Held, HeldMap
    <3>3. WorldOK /\ \A a \in Activities : CopiesOK(a)
      BY <2>2 DEF CopiesInv
    <3>4. /\ \A n \in Plain : \E p \in Places : disk[p].files[n] = "whole"
          /\ \A u \in promised : \E p \in Places : Has(p, u)
      <4>1. CASE WorldRests
        BY <2>0, <3>2, <3>3, <4>1 DEF WorldOK, Sound
      <4>2. CASE ~WorldRests
        <5>1. PICK a \in Activities : job[a].pc \in {"delOrig", "copyBack"}
          BY <4>2 DEF WorldRests
        <5>2. PICK c \in Places : c = job[a].cache
          BY <2>0, PlacesOK DEF Job
        <5>3. Sound(c) /\ \A n \in Plain : Held(n) \/ disk[c].files[n] = "whole"
          BY <3>3, <5>1, <5>2 DEF CopiesOK, Copy
        <5> QED BY <3>2, <5>3 DEF Sound
      <4> QED BY <4>1, <4>2
    <3> QED BY <3>4 DEF NothingLost, Whole, Has
  <2> QED BY <2>1, <2>2
<1>2. Init => ItemsInv
  BY ItemsInit
<1> QED BY <1>1, <1>2, CopiesInit, ItemsStep, CopiesStep, EditInvariant, PTL DEF Spec

----------------------------------------------------------------------------
(* What an edit makes                                                      *)

LEMMA MadeFrame ==
    ASSUME NEW d, NEW m, NEW t, UNCHANGED <<before, serial>>, Made(d, m, t)
    PROVE  Made(d, m, t)'
BY DEF Made

LEMMA AllMadeSame ==
    ASSUME NEW p \in Places, NEW q \in Places, UNCHANGED <<before, serial, asked>>, AllMade(p),
           \A n \in Names : disk'[q].files[n] = disk[p].files[n], disk'[q].data = disk[p].data
    PROVE  AllMade(q)'
BY DEF AllMade, Made, Askable

\* The two puts of a tile
LEMMA PlayerMade ==
    ASSUME NEW old, NEW new, NEW made, NEW s, s \notin made, Made(old, made, made),
           s \in DOMAIN before.data.player, made \subseteq DOMAIN before.data.player,
           DOMAIN new.player = DOMAIN old.player, new.maps = old.maps,
           \A t \in DOMAIN old.player : t # s => new.player[t] = old.player[t]
    PROVE  Made(new, made, made \cup {s})
BY DEF Made

LEMMA MapMade ==
    ASSUME NEW old, NEW new, NEW made, NEW s, NEW u \in Uuids, s \notin made, serial # 0,
           s \in DOMAIN before.data.player, made \subseteq DOMAIN before.data.player,
           Made(old, made, made \cup {s}), old.player[s] = u, old.maps[u] = 0,
           new.player = old.player, new.maps[u] = serial,
           \A v \in Uuids : v # u => new.maps[v] = old.maps[v]
    PROVE  Made(new, made \cup {s}, made \cup {s})
<1>1. \A t \in made : /\ old.player[t] \in Uuids /\ old.maps[old.player[t]] = serial
                      /\ old.player[t] # u
  BY DEF Made
<1>2. \A t \in made \cup {s} : new.player[t] \in Uuids /\ new.maps[new.player[t]] = serial
  BY <1>1
<1>3. \A t, r \in made \cup {s} : new.player[t] = new.player[r] => t = r
  BY <1>1 DEF Made
<1>4. \A v \in Uuids : before.data.maps[v] # 0 => new.maps[v] = before.data.maps[v]
  BY DEF Made
<1> QED BY <1>2, <1>3, <1>4 DEF Made

LEMMA WorkKeepsMade ==
    ASSUME EditInv, ItemsInv, CopiesInv, Trusted, Undamaged, NEW a \in Activities, MadeOK(a),
           Work(a)
    PROVE  MadeOK(a)' /\ (Finish(a) => AllMade(World)')
<1>0. /\ TypeInv /\ UIInv /\ PlaceInv /\ JobOK(a) /\ job[a].pc # "idle" /\ job[a] \in Job
      /\ disk \in [Places -> Dir] /\ World \in Places /\ DB \in Names
      /\ UNCHANGED <<scoped, serial, before, asked>> /\ Askable' = Askable
  BY WorkFrame, PlacesOK DEF EditInv, TypeInv, Askable
<1>1. PICK w \in Places : w = Where(a)
  BY PlacesOK, <1>0
<1>2. Edited(a) = disk[w].data /\ (job'[a].cache = job[a].cache => Edited(a)' = disk'[w].data)
  BY <1>0, <1>1 DEF Edited, Where
<1>3. /\ scoped => w = job[a].cache /\ w # World /\ CopiesOK(a)
      /\ ~scoped => w = World /\ \A n \in Names : disk[World].files[n] = "whole"
  BY <1>0, <1>1, CopyPlace DEF Where, PlaceInv, CopiesInv
<1>4. HalfDone(a) = (IF job[a].pc = "putMap" THEN {Head(job[a].slots)} ELSE {})
      /\ HalfDone(a)' = (IF job'[a].pc = "putMap" THEN {Head(job'[a].slots)} ELSE {})
  BY DEF HalfDone
<1>5. ASSUME NEW m, NEW t, Made(disk[w].data, m, t), disk'[w].data = disk[w].data
      PROVE  Made(disk[w].data, m, t)'
  BY <1>0, <1>5 DEF Made
<1>6. ASSUME job[a].slots # <<>>, TileDone(job[a]) = job'[a]
      PROVE  /\ Left(a)' = Left(a) \ {Head(job[a].slots)} /\ Head(job[a].slots) \in Left(a)
             /\ job'[a].pc \in {"get", "close"} /\ job'[a].cache = job[a].cache
             /\ Head(job[a].slots) \in asked
  <2>1. PICK s \in Seq(asked) : s = job[a].slots
    BY <1>0 DEF Job
  <2>2. s # <<>> /\ \A i, k \in DOMAIN s : s[i] = s[k] => i = k
    BY <1>0, <1>6, <2>1 DEF JobOK
  <2>3. /\ {Tail(s)[i] : i \in DOMAIN Tail(s)} = {s[i] : i \in DOMAIN s} \ {Head(s)}
        /\ Head(s) \in {s[i] : i \in DOMAIN s} /\ Head(s) \in asked
    BY <2>2, LeftAfterTile
  <2>4. /\ job'[a].slots = Tail(s) /\ job'[a].pc \in {"get", "close"}
        /\ job'[a].cache = job[a].cache
    BY <1>0, <1>6, <2>1, TileDoneEffect
  <2>5. Left(a)' = {Tail(s)[i] : i \in DOMAIN Tail(s)} /\ Left(a) = {s[i] : i \in DOMAIN s}
    BY <2>1, <2>4 DEF Left
  <2> QED BY <2>1, <2>3, <2>4, <2>5
<1>11. CASE StageEnds(a)
  <2>1. /\ job[a].pc \in {"copyOut", "close", "delOrig", "copyBack", "delCache"}
        /\ job[a].todo = {} /\ job'[a].pc = After(job[a].pc) /\ disk' = disk
        /\ job'[a].cache = job[a].cache
    BY <1>0, <1>11, StageEndsEffect
  <2>2. ~Finish(a)
    BY <2>1 DEF Finish, Runs
  <2>3. CASE job[a].pc = "copyOut"
    <3>1. job'[a].pc = "open"
      BY <2>1, <2>3 DEF After
    <3> QED BY <1>0, <2>1, <2>2, <2>3, <3>1 DEF MadeOK, Tiles
  <2>4. CASE job[a].pc = "close"
    <3>1. job'[a].pc = (IF scoped THEN "delOrig" ELSE "done")
      BY <2>1, <2>4 DEF After
    <3>2. Left(a) = {}
      BY <1>0, <2>4 DEF JobOK, Left, Tiles
    <3>3. Askable \ Left(a) = Askable /\ (Askable \ Left(a)) \cup HalfDone(a) = Askable
      BY <1>4, <2>4, <3>2
    <3>4. Made(disk[w].data, Askable, Askable)
      BY <1>2, <2>4, <3>3 DEF MadeOK
    <3>5. \A n \in Names : disk[w].files[n] = "whole"
      <4>1. CASE scoped
        <5>1. disk[World] = before /\ CopiesOK(a)
          BY <1>3, <2>4, <4>1 DEF MadeOK
        <5>2. disk[w].files[DB] = "whole" /\ \A n \in Plain : disk[w].files[n] = disk[World].files[n]
          BY <1>3, <2>4, <4>1, <5>1 DEF CopiesOK, Copied, Copy
        <5> QED BY <5>1, <5>2 DEF Undamaged, Names
      <4>2. CASE ~scoped
        BY <1>3, <4>2
      <4> QED BY <4>1, <4>2
    <3>6. AllMade(w)
      BY <3>4, <3>5 DEF AllMade
    <3>7. AllMade(w)'
      BY <1>0, <2>1, <3>6, AllMadeSame
    <3> QED BY <1>3, <2>1, <2>2, <3>1, <3>7 DEF MadeOK, Tiles
  <2>5. CASE job[a].pc = "delOrig"
    <3>1. job'[a].pc = "copyBack"
      BY <2>1, <2>5 DEF After
    <3>2. PICK c \in Places : c = job[a].cache
      BY <1>0 DEF Job
    <3>3. AllMade(c)'
      BY <1>0, <2>1, <2>5, <3>2, AllMadeSame DEF MadeOK
    <3> QED BY <2>1, <2>2, <3>1, <3>2, <3>3 DEF MadeOK, Tiles
  <2>6. CASE job[a].pc = "copyBack"
    <3>1. job'[a].pc = "delCache"
      BY <2>1, <2>6 DEF After
    <3>2. scoped
      BY <1>0, <2>6 DEF JobOK, Copies
    <3>3. AllMade(w) /\ CopiesOK(a) /\ w = job[a].cache
      BY <1>3, <2>6, <3>2 DEF MadeOK
    <3>4. \A n \in Names : Copied(a, n)
      BY <2>1, <2>6, <3>3 DEF CopiesOK
    <3>5. \A n \in Names : disk[World].files[n] = disk[w].files[n]
      BY <3>3, <3>4 DEF Copied, Copy
    <3>6. disk[World].data = disk[w].data
      BY <1>0, <3>3, <3>4 DEF Copied, Copy, AllMade
    <3>7. AllMade(World)'
      BY <1>0, <2>1, <3>3, <3>5, <3>6, AllMadeSame
    <3> QED BY <2>2, <3>1, <3>7 DEF MadeOK, Tiles
  <2>7. CASE job[a].pc = "delCache"
    <3>1. job'[a].pc = "done"
      BY <2>1, <2>7 DEF After
    <3>2. AllMade(World)'
      BY <1>0, <2>1, <2>7, AllMadeSame DEF MadeOK
    <3> QED BY <2>2, <3>1, <3>2 DEF MadeOK, Tiles
  <2> QED BY <2>1, <2>3, <2>4, <2>5, <2>6, <2>7
<1>12. CASE Open(a)
  <2>1. job[a].pc = "open" /\ job'[a] = [job[a] EXCEPT !.pc = "get"]
    BY <1>0, <1>12, OpenEffect
  <2>2. /\ job'[a].pc = "get" /\ job'[a].cache = job[a].cache /\ job'[a].slots = job[a].slots
    BY <1>0, <2>1 DEF Job
  <2>3. /\ \A q \in Places : q # w => disk'[q] = disk[q]
        /\ disk[w].files[DB] = "whole" => disk'[w].data = disk[w].data
    BY <1>0, <1>1, <1>12, OpenEffect
  <2>4. disk[World] = before
    BY <2>1 DEF MadeOK
  <2>5. disk[w].files[DB] = "whole" /\ disk[w].data = before.data
    <3>1. CASE scoped
      <4>1. Copied(a, DB)
        BY <1>0, <1>3, <2>1, <3>1 DEF CopiesOK
      <4> QED BY <1>0, <1>3, <2>4, <3>1, <4>1 DEF Copied, Copy, Undamaged
    <3>2. CASE ~scoped
      BY <1>0, <1>3, <2>4, <3>2
    <3> QED BY <3>1, <3>2
  <2>6. Left(a)' = asked /\ asked' = asked /\ HalfDone(a)' = {}
    BY <1>0, <1>4, <2>1, <2>2 DEF Left, JobOK
  <2>7. /\ (Askable \ Left(a))' = {} /\ ((Askable \ Left(a)) \cup HalfDone(a))' = {}
        /\ Edited(a)' = before.data /\ before' = before
    BY <1>0, <1>2, <2>2, <2>3, <2>5, <2>6 DEF Askable
  <2>8. Made(Edited(a), Askable \ Left(a), (Askable \ Left(a)) \cup HalfDone(a))'
    BY <2>7 DEF Made
  <2>9. scoped => disk'[World] = before
    BY <1>0, <1>3, <2>3, <2>4
  <2>10. ~Finish(a)
    BY <2>1 DEF Finish, Runs
  <2> QED BY <1>0, <2>2, <2>8, <2>9, <2>10 DEF MadeOK, Tiles
<1>7. ASSUME job[a].pc \in Tiles
      PROVE  DOMAIN Edited(a).player = DOMAIN before.data.player
  BY <1>7 DEF MadeOK, Made
<1>8. ASSUME NEW s \in asked, s \in DOMAIN Edited(a).player, job[a].pc \in Tiles
      PROVE  s \in Askable
  BY <1>7, <1>8 DEF Askable
<1>13. CASE Get(a) \/ Pick(a)
  <2>1. /\ job[a].pc \in {"get", "pick"} /\ disk' = disk
        /\ job'[a].pc \in {"get", "close", "pick", "putPlayer"} /\ job'[a].cache = job[a].cache
        /\ Askable \ Left(a)' = Askable \ Left(a)
    <3>1. CASE Get(a)
      <4>1. /\ job[a].pc = "get" /\ job[a].slots # <<>> /\ disk' = disk
            /\ \/ job'[a] = [job[a] EXCEPT !.pc = "pick"]
               \/ Head(job[a].slots) \notin DOMAIN Edited(a).player /\ job'[a] = TileDone(job[a])
        BY <1>0, <3>1, GetEffect
      <4>2. CASE job'[a] = [job[a] EXCEPT !.pc = "pick"]
        BY <1>0, <4>1, <4>2 DEF Job, Left
      <4>3. CASE Head(job[a].slots) \notin DOMAIN Edited(a).player /\ job'[a] = TileDone(job[a])
        <5>1. Head(job[a].slots) \notin Askable
          BY <1>7, <4>1, <4>3 DEF Askable, Tiles
        <5> QED BY <1>6, <4>1, <4>3, <5>1
      <4> QED BY <4>1, <4>2, <4>3
    <3>2. CASE Pick(a)
      <4>1. PICK u \in FreeUuids(Edited(a)) :
               /\ job[a].pc = "pick" /\ disk' = disk
               /\ job'[a] = [job[a] EXCEPT !.pc = "putPlayer", !.uuid = u]
        BY <1>0, <3>2, PickEffect
      <4> QED BY <1>0, <4>1 DEF Job, Left
    <3> QED BY <1>13, <3>1, <3>2
  <2>2. HalfDone(a)' = {} /\ HalfDone(a) = {} /\ Edited(a)' = disk[w].data
    BY <1>2, <1>4, <2>1
  <2>3. Made(Edited(a), Askable \ Left(a), (Askable \ Left(a)) \cup HalfDone(a))'
    BY <1>0, <1>2, <2>1, <2>2 DEF MadeOK, Made, Tiles
  <2>4. ~Finish(a)
    BY <2>1 DEF Finish, Runs
  <2> QED BY <1>0, <2>1, <2>3, <2>4 DEF MadeOK, Tiles
<1>14. CASE PutPlayer(a)
  <2>1. job[a].pc = "putPlayer" /\ job'[a] = [job[a] EXCEPT !.pc = "putMap"]
    BY <1>0, <1>14, PutPlayerEffect
  <2>2. /\ job'[a].pc = "putMap" /\ job'[a].cache = job[a].cache /\ job'[a].slots = job[a].slots
    BY <1>0, <2>1 DEF Job
  <2>3. PICK s \in Askable : s = Head(job[a].slots) /\ s \in Left(a)
    <3>1. job[a].slots # <<>> /\ job[a].slots \in Seq(asked)
      BY <1>0, <2>1 DEF JobOK, Tiles, Job
    <3>2. Head(job[a].slots) \in asked /\ Head(job[a].slots) \in Left(a)
      <4>1. PICK q \in Seq(asked) : q = job[a].slots
        BY <3>1
      <4>2. Head(q) \in {q[i] : i \in DOMAIN q} /\ Head(q) \in asked
        BY <1>0, <3>1, <4>1, LeftAfterTile DEF JobOK
      <4> QED BY <4>1, <4>2 DEF Left
    <3>3. Head(job[a].slots) \in Askable
      BY <1>0, <1>8, <2>1, <3>2 DEF JobOK, Tiles
    <3> QED BY <3>2, <3>3
  <2>4. PICK m \in SUBSET Askable : m = Askable \ Left(a)
    OBVIOUS
  <2>5. PICK old, new : old = disk[w].data /\ new = disk'[w].data
    OBVIOUS
  <2>6. /\ (\A q \in Places : q # w => disk'[q] = disk[q]) /\ new.maps = old.maps
        /\ DOMAIN new.player = DOMAIN old.player
        /\ \A t \in DOMAIN old.player : t # s => new.player[t] = old.player[t]
    <3>1. /\ \A q \in Places : q # Where(a) => disk'[q] = disk[q]
          /\ disk'[Where(a)].data.maps = Edited(a).maps
          /\ DOMAIN disk'[Where(a)].data.player = DOMAIN Edited(a).player
          /\ \A t \in DOMAIN Edited(a).player : t # Head(job[a].slots) =>
               disk'[Where(a)].data.player[t] = Edited(a).player[t]
      BY <1>0, <1>14, PutPlayerEffect
    <3> QED BY <1>1, <1>2, <2>3, <2>5, <3>1
  <2>7. Made(old, m, m)
    <3>1. (Askable \ Left(a)) \cup HalfDone(a) = m
      BY <1>4, <2>1, <2>4
    <3> QED BY <1>2, <2>1, <2>4, <2>5, <3>1 DEF MadeOK, Tiles
  <2>8. Made(new, m, m \cup {s})
    BY <2>3, <2>4, <2>6, <2>7, PlayerMade DEF Askable
  <2>9. Made(new, m, m \cup {s})'
    BY <1>0, <2>8, MadeFrame
  <2>10. /\ (Askable \ Left(a))' = m /\ ((Askable \ Left(a)) \cup HalfDone(a))' = m \cup {s}
         /\ Edited(a)' = new
    BY <1>0, <1>2, <1>4, <2>2, <2>3, <2>4, <2>5 DEF Left
  <2>11. scoped => disk'[World] = before
    BY <1>0, <1>3, <2>1, <2>6 DEF MadeOK, Tiles
  <2>12. ~Finish(a)
    BY <2>1 DEF Finish, Runs
  <2> QED BY <1>0, <2>2, <2>9, <2>10, <2>11, <2>12 DEF MadeOK, Tiles
<1>15. CASE PutMap(a)
  <2>1. /\ job[a].pc = "putMap" /\ job'[a] = TileDone(job[a]) /\ job[a].slots # <<>>
        /\ job[a].uuid \in Uuids
    BY <1>0, <1>15, PutMapEffect
  <2>2. /\ Left(a)' = Left(a) \ {Head(job[a].slots)} /\ Head(job[a].slots) \in Left(a)
        /\ job'[a].pc \in {"get", "close"} /\ job'[a].cache = job[a].cache
        /\ Head(job[a].slots) \in Askable
    BY <1>0, <1>6, <1>8, <2>1 DEF JobOK, Tiles
  <2>3. PICK s \in Askable, u \in Uuids : s = Head(job[a].slots) /\ u = job[a].uuid
    BY <2>1, <2>2
  <2>4. PICK m \in SUBSET Askable : m = Askable \ Left(a)
    OBVIOUS
  <2>5. PICK old, new : old = disk[w].data /\ new = disk'[w].data
    OBVIOUS
  <2>6. /\ (\A q \in Places : q # w => disk'[q] = disk[q]) /\ new.player = old.player
        /\ new.maps[u] = serial /\ serial # 0
        /\ \A v \in Uuids : v # u => new.maps[v] = old.maps[v]
    <3>1. /\ \A q \in Places : q # Where(a) => disk'[q] = disk[q]
          /\ disk'[Where(a)].data.player = Edited(a).player
          /\ disk'[Where(a)].data.maps[job[a].uuid] = serial /\ serial # 0
          /\ \A v \in Uuids : v # job[a].uuid => disk'[Where(a)].data.maps[v] = Edited(a).maps[v]
      BY <1>0, <1>15, PutMapEffect
    <3> QED BY <1>1, <1>2, <2>3, <2>5, <3>1
  <2>7. Made(old, m, m \cup {s})
    <3>1. (Askable \ Left(a)) \cup HalfDone(a) = m \cup {s}
      BY <1>4, <2>1, <2>3, <2>4
    <3> QED BY <1>2, <2>1, <2>4, <2>5, <3>1 DEF MadeOK, Tiles
  <2>8. old.player[s] = u /\ old.maps[u] = 0
    BY <1>0, <1>2, <2>1, <2>3, <2>5 DEF JobOK
  <2>9. Made(new, m \cup {s}, m \cup {s})
    BY <2>2, <2>3, <2>4, <2>6, <2>7, <2>8, MapMade DEF Askable
  <2>10. Made(new, m \cup {s}, m \cup {s})'
    BY <1>0, <2>9, MadeFrame
  <2>11. /\ (Askable \ Left(a))' = m \cup {s}
         /\ ((Askable \ Left(a)) \cup HalfDone(a))' = m \cup {s} /\ Edited(a)' = new
    BY <1>0, <1>2, <1>4, <2>2, <2>3, <2>4, <2>5
  <2>12. scoped => disk'[World] = before
    BY <1>0, <1>3, <2>1, <2>6 DEF MadeOK, Tiles
  <2>13. ~Finish(a)
    BY <2>1 DEF Finish, Runs
  <2> QED BY <1>0, <2>2, <2>10, <2>11, <2>12, <2>13 DEF MadeOK, Tiles
<1>16. CASE Finish(a)
  <2>1. job[a].pc = "done" /\ job'[a] = Idle /\ disk' = disk
    BY <1>0, <1>16, FinishEffect
  <2>2. AllMade(World)'
    BY <1>0, <2>1, AllMadeSame DEF MadeOK
  <2> QED BY <2>1, <2>2 DEF MadeOK, Idle, Tiles
<1>17. CASE \E n \in Names : BeginCopy(a, n) \/ EndCopy(a, n) \/ Delete(a, n)
  <2>1. PICK n \in Names : BeginCopy(a, n) \/ EndCopy(a, n) \/ Delete(a, n)
    BY <1>17
  <2>2. /\ job[a].pc \in {"copyOut", "copyBack", "delOrig", "delCache"}
        /\ job'[a].pc = job[a].pc /\ job'[a].cache = job[a].cache
        /\ \A q \in Places : q # Target(a) => disk'[q] = disk[q]
    <3>1. CASE BeginCopy(a, n)
      BY <1>0, <3>1, BeginCopyEffect DEF SameStage, Copies
    <3>2. CASE EndCopy(a, n)
      BY <1>0, <3>2, EndCopyEffect DEF SameStage, Copies, JobOK
    <3>3. CASE Delete(a, n)
      BY <1>0, <3>3, DeleteEffect DEF SameStage
    <3> QED BY <2>1, <3>1, <3>2, <3>3
  <2>3. scoped /\ w = job[a].cache /\ w # World
    BY <1>0, <1>3, <2>2 DEF JobOK, Copies
  <2>4. Target(a) = (IF job[a].pc \in {"copyOut", "delCache"} THEN w ELSE World)
    BY <2>3 DEF Target
  <2>5. CASE job[a].pc \in {"copyOut", "delCache"}
    <3>1. disk'[World] = disk[World]
      BY <1>0, <2>2, <2>3, <2>4, <2>5
    <3>2. AllMade(World) => AllMade(World)'
      BY <1>0, <3>1, AllMadeSame
    <3> QED BY <1>0, <2>2, <2>5, <3>1, <3>2 DEF MadeOK, Tiles, Finish, Runs
  <2>6. CASE job[a].pc \in {"copyBack", "delOrig"}
    <3>1. disk'[w] = disk[w]
      BY <1>0, <2>2, <2>3, <2>4, <2>6
    <3>2. AllMade(w) => AllMade(w)'
      BY <1>0, <3>1, AllMadeSame
    <3> QED BY <1>0, <2>2, <2>3, <2>6, <3>2 DEF MadeOK, Tiles, Finish, Runs
  <2> QED BY <2>2, <2>5, <2>6
<1> QED BY <1>11, <1>12, <1>13, <1>14, <1>15, <1>16, <1>17 DEF Work

LEMMA SuccessStep ==
    ASSUME EditInv, ItemsInv, CopiesInv, SuccessInv, [Next]_vars
    PROVE  SuccessInv'
<1> SUFFICES ASSUME Trusted', Undamaged'
             PROVE  /\ event' = "complete" \/ told' = "ok" => AllMade(World)'
                    /\ \A b \in Activities : MadeOK(b)'
  BY DEF SuccessInv
<1>0. TypeInv /\ UIInv /\ (\A b \in Activities : JobOK(b)) /\ Trusted /\ World \in Places
  BY TrustedBefore, WorldEditAssumption DEF EditInv, World, Places
<1> DEFINE Told == event = "complete" \/ told = "ok" => AllMade(World)
<1>1. ASSUME UNCHANGED <<before, asked>>
      PROVE  Undamaged /\ Told /\ \A b \in Activities : MadeOK(b)
  BY <1>0, <1>1 DEF Undamaged, SuccessInv
<1>2. ASSUME NEW b \in Activities, job'[b] = Idle
      PROVE  MadeOK(b)'
  BY <1>2 DEF MadeOK, Idle, Tiles
<1>3. ASSUME UNCHANGED <<before, asked, serial, disk, job, scoped>>,
             event' = "complete" \/ told' = "ok" => event = "complete" \/ told = "ok"
      PROVE  Told' /\ \A b \in Activities : MadeOK(b)'
  <2>1. Undamaged /\ Told /\ \A b \in Activities : MadeOK(b)
    BY <1>1, <1>3
  <2>2. \A p \in Places : AllMade(p) => AllMade(p)'
    BY <1>3, AllMadeSame
  <2>3. ASSUME NEW b \in Activities PROVE MadeOK(b)'
    <3>1. PICK c \in Places : c = job[b].cache
      BY <1>0, PlacesOK DEF Job
    <3>2. AllMade(job[b].cache) => AllMade(job[b].cache)'
      BY <1>3, <2>2, <3>1
    <3>3. /\ Left(b)' = Left(b) /\ HalfDone(b)' = HalfDone(b) /\ Edited(b)' = Edited(b)
          /\ Askable' = Askable /\ job'[b] = job[b]
      BY <1>3 DEF Left, HalfDone, Edited, Where, Askable
    <3>4. Made(Edited(b), Askable \ Left(b), (Askable \ Left(b)) \cup HalfDone(b)) =>
          Made(Edited(b), Askable \ Left(b), (Askable \ Left(b)) \cup HalfDone(b))'
      BY <1>3, <3>3 DEF Made
    <3> QED BY <1>0, <1>3, <2>1, <2>2, <3>2, <3>3, <3>4 DEF MadeOK
  <2> QED BY <1>0, <1>3, <2>1, <2>2, <2>3
<1>4. CASE UNCHANGED vars
  BY <1>3, <1>4 DEF vars, ui, last
<1>5. CASE Leave \/ \E a \in Activities : Choose(a)
  <2>1. UNCHANGED <<before, asked, serial, disk, job, scoped, event>> /\ told' = "none"
    BY <1>5 DEF Leave, Choose, last
  <2> QED BY <1>3, <2>1
<1>6. CASE Deliver
  <2>1. /\ UNCHANGED <<before, asked, serial, disk, job, scoped>> /\ event' = "none"
        /\ told' = "ok" => event = "complete"
    BY <1>6 DEF Deliver, Succeed, last
  <2> QED BY <1>3, <2>1
<1>7. CASE Crash
  <2>1. event' = "none" /\ told' = "none" /\ \A b \in Activities : job'[b] = Idle
    BY <1>7 DEF Crash
  <2> QED BY <1>2, <2>1
<1>8. ASSUME NEW a \in Activities, NEW slots \in Requests(a), Start(a, slots)
      PROVE  Told' /\ \A b \in Activities : MadeOK(b)'
  <2>1. /\ told' = "none" /\ event' = event /\ ~summon_ing /\ before' = disk[World] /\ disk' = disk
    BY <1>8 DEF Start
  <2>2. event' # "complete"
    BY <1>0, <2>1 DEF UIInv
  <2>3. /\ job'[a].pc \in {"copyOut", "open"}
        /\ \A b \in Activities : b # a => job'[b] = Idle
    BY <1>0, <1>8, StartKeepsJob
  <2>4. MadeOK(a)'
    BY <2>1, <2>3 DEF MadeOK, Tiles
  <2> QED BY <1>2, <2>1, <2>2, <2>3, <2>4
<1>9. ASSUME NEW a \in Activities, Work(a)
      PROVE  Told' /\ \A b \in Activities : MadeOK(b)'
  <2>1. /\ UNCHANGED <<before, asked>> /\ event = "none" /\ told # "ok"
        /\ \A b \in Activities : b # a => job'[b] = job[b] /\ job[b] = Idle
    BY <1>0, <1>9, WorkFrame, OneEdit
  <2>2. Undamaged /\ MadeOK(a)
    BY <1>1, <2>1
  <2>3. MadeOK(a)' /\ (Finish(a) => AllMade(World)')
    BY <1>0, <1>9, <2>2, WorkKeepsMade
  <2>4. ~Finish(a) => event' = event /\ told' = told
    <3>1. CASE Finish(a)
      BY <3>1
    <3>2. CASE ~Finish(a)
      <4>1. job'[a].pc # "idle"
        BY <1>0, <1>9, <3>2, WorkKeepsStage
      <4> QED BY <1>0, <1>9, <4>1, WorkCalls DEF Idle
    <3> QED BY <3>1, <3>2
  <2> QED BY <1>2, <2>1, <2>3, <2>4
<1>10. ASSUME NEW a \in Activities, Trouble(a)
       PROVE  Told' /\ \A b \in Activities : MadeOK(b)'
  <2>1. faults' = 0 /\ faults = 0
    BY <1>0 DEF Trusted
  <2>2. /\ job'[a] = Idle /\ event' \in {event, "error"} /\ told' \in {told, "error"}
    <3>1. OpenFails(a)
      BY <1>0, <1>10, <2>1, TroubleEffect
    <3> QED BY <1>0, <3>1 DEF OpenFails, Fail, Becomes, TypeInv
  <2>3. /\ event = "none" /\ told # "ok"
        /\ \A b \in Activities : b # a => job'[b] = job[b] /\ job[b] = Idle
    BY <1>0, <1>10, WorkFrame, OneEdit
  <2> QED BY <1>2, <2>2, <2>3
<1> QED BY <1>4, <1>5, <1>6, <1>7, <1>8, <1>9, <1>10 DEF Next

\* When the user is told that the maps were made, the world has them: each slot asked
\* for that the player's record has holds an item whose map this edit wrote, and
\* everything else is as it was, for any picture, any inventory and any number of edits
\* and ends of the process.  It takes that the world was undamaged before the edit, that
\* no operation failed, and that ImportPicActivity began no edit in a copy left behind.
\* About a slot that the record lacks the toast is wrong, and the theorem silent.
THEOREM SuccessIsTrue == Spec => []SuccessMeansMade
<1>1. SuccessInv => SuccessMeansMade
  BY DEF SuccessInv, SuccessMeansMade, Trusted, Undamaged, AllMade, Made, Askable, Whole
<1> QED BY <1>1, CopiesInit, ItemsInit, ItemsStep, CopiesStep, SuccessStep, EditInvariant, PTL
        DEF Spec
=============================================================================
