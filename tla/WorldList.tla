------------------------------ MODULE WorldList ------------------------------
(* The list of worlds of MainActivity.  A worker scans the directories of  *)
(* the games and emits an item per world; the main thread receives the     *)
(* items and adds them to the list.  isInit is to keep a second scan from  *)
(* starting while one runs; a refresh clears the list first.               *)
EXTENDS Naturals, Sequences, FiniteSets, SequencesExt

CONSTANTS
    Worlds,              \* directories that look like a world
    Unreadable,          \* those of them whose levelname cannot be read
    MaxScans, MaxRefreshes, MaxFaults            \* bounds

ASSUME WorldListAssumption ==
    /\ Unreadable \subseteq Worlds
    /\ {MaxScans, MaxRefreshes, MaxFaults} \subseteq Nat

VARIABLES
    mapItemList, isInit, told,
    granted,             \* the permissions were given, and the first scan began
    scans,               \* the scans that were started, one after the other
    refreshes, faults,
    disturbed            \* a refresh came during the last scan

vars == <<mapItemList, isInit, told, granted, scans, refreshes, faults,
          disturbed>>

\* Without the permissions the listings come back empty, or in part.
Found(permitted) == IF permitted THEN {Worlds} ELSE SUBSET Worlds

NewScan(found) == [todo |-> found, queue |-> <<>>, state |-> "running"]

\* Mutant of MayScan: isInit is not looked at.
MayScanAlways == TRUE

\* The early return of initData()
MayScan == ~isInit

InitData(permitted) ==
    IF MayScan THEN /\ Len(scans) < MaxScans
                    /\ isInit' = TRUE /\ told' = "scanning"
                    /\ \E found \in Found(permitted) :
                          scans' = Append(scans, NewScan(found))
                    /\ disturbed' = FALSE
    ELSE disturbed' = TRUE /\ UNCHANGED <<isInit, told, scans>>

\* onCreate() with every permission, or the dialogs that ask for them: until
\* the last is answered the list cannot be touched, and no other dialog comes
\* after a refusal.
Grant ==
    /\ ~granted /\ scans = <<>>
    /\ granted' = TRUE
    /\ InitData(TRUE)
    /\ UNCHANGED <<mapItemList, refreshes, faults>>

\* refreshData(), also after the permissions were refused
Refresh ==
    /\ refreshes < MaxRefreshes /\ refreshes' = refreshes + 1
    /\ mapItemList' = <<>>
    /\ InitData(granted)
    /\ UNCHANGED <<granted, faults>>

\* forEach(): a world that cannot be read is left out.
Emitted(scan, w) ==
    [scan EXCEPT !.todo = @ \ {w},
                 !.queue = IF w \in Unreadable THEN @ ELSE Append(@, w)]

\* The worker goes on to the next directory, ...
Emit(i, w) ==
    /\ scans[i].state = "running" /\ w \in scans[i].todo
    /\ scans' = [scans EXCEPT ![i] = Emitted(@, w)]
    /\ UNCHANGED <<mapItemList, isInit, told, granted, refreshes, faults,
                   disturbed>>

\* ... calls onComplete() after the last, ...
ScanEnds(i) ==
    /\ scans[i].state = "running" /\ scans[i].todo = {}
    /\ scans' = [scans EXCEPT ![i].state = "complete"]
    /\ UNCHANGED <<mapItemList, isInit, told, granted, refreshes, faults,
                   disturbed>>

\* ... or throws: the items that were not delivered are dropped.
ScanThrows(i) ==
    /\ scans[i].state = "running" /\ faults < MaxFaults
    /\ faults' = faults + 1
    /\ scans' = [scans EXCEPT ![i].state = "failed", ![i].queue = <<>>]
    /\ UNCHANGED <<mapItemList, isInit, told, granted, refreshes, disturbed>>

\* onNext() on the main thread
OnNext(i) ==
    /\ scans[i].queue # <<>>
    /\ mapItemList' = Append(mapItemList, Head(scans[i].queue))
    /\ scans' = [scans EXCEPT ![i].queue = Tail(@)]
    /\ UNCHANGED <<isInit, told, granted, refreshes, faults, disturbed>>

\* Mutant of Drained: onComplete() may overtake the items.
DrainedAnyway(scan) == TRUE

\* observeOn() delivers onComplete() after the items.
Drained(scan) == scan.queue = <<>>

\* Mutant of InitAfter: onError() leaves isInit set.
InitAfterComplete(state) == state = "failed"

\* isInit after onComplete() and onError()
InitAfter(state) == FALSE

OnComplete(i) ==
    /\ scans[i].state = "complete" /\ Drained(scans[i])
    /\ isInit' = InitAfter("complete") /\ told' = "scanned"
    /\ scans' = [scans EXCEPT ![i].state = "over"]
    /\ UNCHANGED <<mapItemList, granted, refreshes, faults, disturbed>>

OnError(i) ==
    /\ scans[i].state = "failed"
    /\ isInit' = InitAfter("failed") /\ told' = "error"
    /\ scans' = [scans EXCEPT ![i].state = "over"]
    /\ UNCHANGED <<mapItemList, granted, refreshes, faults, disturbed>>

-----------------------------------------------------------------------------
Init ==
    /\ mapItemList = <<>> /\ isInit = FALSE /\ told = "none"
    /\ granted = FALSE /\ scans = <<>>
    /\ refreshes = 0 /\ faults = 0 /\ disturbed = FALSE

Scan(i) == (\E w \in Worlds : Emit(i, w)) \/ ScanEnds(i)
Main(i) == OnNext(i) \/ OnComplete(i) \/ OnError(i)

Next == \/ Grant \/ Refresh
        \/ \E i \in DOMAIN scans :
              \/ ScanEnds(i) \/ ScanThrows(i) \/ Main(i)
              \/ \E w \in Worlds : Emit(i, w)

Spec == Init /\ [][Next]_vars

\* The worker and the main thread run; the user need not do anything.
Fairness ==
    \A i \in 1..MaxScans :
        /\ WF_vars(i \in DOMAIN scans /\ Scan(i))
        /\ WF_vars(i \in DOMAIN scans /\ Main(i))

-----------------------------------------------------------------------------
(* Properties                                                              *)

Readable == Worlds \ Unreadable

ScanRecord == [todo : SUBSET Worlds, queue : Seq(Readable),
               state : {"running", "complete", "failed", "over"}]

\* The variables keep their types; only worlds that were read are shown.
TypeOK ==
    /\ mapItemList \in Seq(Readable)
    /\ isInit \in BOOLEAN /\ granted \in BOOLEAN /\ disturbed \in BOOLEAN
    /\ told \in {"none", "scanning", "scanned", "error"}
    /\ scans \in Seq(ScanRecord)
    /\ refreshes \in Nat /\ faults \in Nat

\* No world is in the list twice, whatever the user refreshes while a scan
\* runs: isInit is what keeps the items of two scans apart.
NoWorldTwice == IsInjective(mapItemList)

\* A scan that has the permissions, that nothing disturbed and that says it is
\* complete has listed every world that can be read: a world that cannot does
\* not hide the rest, and the end of the scan does not overtake its items.
UndisturbedScanIsComplete ==
    granted /\ told = "scanned" /\ ~disturbed => Readable \subseteq Range(mapItemList)

\* Why: only the last scan is under way, and only while isInit is set; what
\* it has yet to read, what it has read and what the list shows are disjoint,
\* and together they are all worlds unless a refresh cleared the list or the
\* permissions are missing.
Delivering == {"running", "complete"}

Shown == Range(mapItemList)
Items(scan) == scan.todo \cup Range(scan.queue)

OneScanInv ==
    /\ scans = <<>> => ~granted /\ ~isInit /\ mapItemList = <<>>
    /\ isInit => told = "scanning"
    /\ \A i \in DOMAIN scans :
          /\ scans[i].state # "over" => isInit /\ i = Len(scans)
          /\ scans[i].state \notin Delivering => scans[i].queue = <<>>
          /\ scans[i].state = "complete" => scans[i].todo = {}

ItemsInv ==
    /\ IsInjective(mapItemList)
    /\ \A i \in DOMAIN scans :
          /\ IsInjective(scans[i].queue)
          /\ scans[i].todo \cap Range(scans[i].queue) = {}
          /\ scans[i].state \in Delivering =>
                /\ Items(scans[i]) \cap Shown = {}
                /\ granted /\ ~disturbed => Readable \subseteq Shown \cup Items(scans[i])
    /\ UndisturbedScanIsComplete

ListInv == TypeOK /\ OneScanInv /\ ItemsInv

\* Each scan comes to an end, and the list can be refreshed again.
RefreshIsPossibleAgain == isInit ~> ~isInit
=============================================================================
