-------------------------- MODULE WorldListProofs --------------------------
(* Theorems about the list of worlds (WorldList).                          *)
EXTENDS WorldList, TLAPS

\* What an item that is moved from the front of a queue to the end of the
\* list does to both.
LEMMA AppendEffect ==
    ASSUME NEW S, NEW q \in Seq(S), NEW x \in S
    PROVE  /\ Append(q, x) \in Seq(S)
           /\ Range(Append(q, x)) = Range(q) \cup {x}
           /\ IsInjective(q) /\ x \notin Range(q) => IsInjective(Append(q, x))
<1>1. Append(q, x) \in Seq(S) /\ Len(Append(q, x)) = Len(q) + 1
      /\ \A i \in 1 .. Len(q) + 1 :
            Append(q, x)[i] = IF i = Len(q) + 1 THEN x ELSE q[i]
  OBVIOUS
<1>2. DOMAIN Append(q, x) = 1 .. Len(q) + 1 /\ DOMAIN q = 1 .. Len(q)
      /\ Len(q) \in Nat
  OBVIOUS
<1>3. Range(Append(q, x)) = Range(q) \cup {x}
  <2>1. ASSUME NEW y \in Range(Append(q, x)) PROVE y \in Range(q) \cup {x}
    BY <1>1, <1>2 DEF Range
  <2>2. x \in Range(Append(q, x))
    BY <1>1, <1>2 DEF Range
  <2>3. ASSUME NEW y \in Range(q) PROVE y \in Range(Append(q, x))
    <3>1. PICK i \in 1 .. Len(q) : y = q[i]
      BY <1>2 DEF Range
    <3>2. Append(q, x)[i] = y /\ i \in 1 .. Len(q) + 1
      BY <3>1, <1>1, <1>2
    <3> QED BY <3>2, <1>2 DEF Range
  <2> QED BY <2>1, <2>2, <2>3
<1>4. ASSUME IsInjective(q), x \notin Range(q),
             NEW i \in 1 .. Len(q) + 1, NEW j \in 1 .. Len(q) + 1,
             Append(q, x)[i] = Append(q, x)[j]
      PROVE  i = j
  <2>1. \A k \in 1 .. Len(q) : q[k] # x
    BY <1>4, <1>2 DEF Range
  <2> QED BY <1>1, <1>2, <1>4, <2>1 DEF IsInjective
<1> QED BY <1>1, <1>2, <1>3, <1>4 DEF IsInjective

LEMMA TailEffect ==
    ASSUME NEW S, NEW q \in Seq(S), q # <<>>
    PROVE  /\ Tail(q) \in Seq(S) /\ Head(q) \in S
           /\ Range(q) = Range(Tail(q)) \cup {Head(q)}
           /\ IsInjective(q) => IsInjective(Tail(q)) /\ Head(q) \notin Range(Tail(q))
<1>1. /\ Tail(q) \in Seq(S) /\ Head(q) \in S /\ Len(q) \in Nat \ {0}
      /\ Head(q) = q[1] /\ Len(Tail(q)) = Len(q) - 1
      /\ \A i \in 1 .. Len(q) - 1 : Tail(q)[i] = q[i + 1]
  OBVIOUS
<1>2. DOMAIN q = 1 .. Len(q) /\ DOMAIN Tail(q) = 1 .. Len(q) - 1
  BY <1>1
<1>3. Range(q) = Range(Tail(q)) \cup {Head(q)}
  <2>1. ASSUME NEW y \in Range(Tail(q)) PROVE y \in Range(q)
    <3>1. PICK i \in 1 .. Len(q) - 1 : y = Tail(q)[i]
      BY <1>2 DEF Range
    <3>2. y = q[i + 1] /\ i + 1 \in 1 .. Len(q)
      BY <3>1, <1>1
    <3> QED BY <3>2, <1>2 DEF Range
  <2>2. Head(q) \in Range(q)
    BY <1>1, <1>2 DEF Range
  <2>3. ASSUME NEW y \in Range(q), y # Head(q) PROVE y \in Range(Tail(q))
    <3>1. PICK i \in 1 .. Len(q) : y = q[i]
      BY <1>2 DEF Range
    <3>2. i - 1 \in 1 .. Len(q) - 1 /\ Tail(q)[i - 1] = y
      BY <3>1, <2>3, <1>1
    <3> QED BY <3>2, <1>2 DEF Range
  <2> QED BY <2>1, <2>2, <2>3
<1>4. ASSUME IsInjective(q) PROVE IsInjective(Tail(q)) /\ Head(q) \notin Range(Tail(q))
  <2>1. \A i, j \in 1 .. Len(q) : q[i] = q[j] => i = j
    BY <1>2, <1>4 DEF IsInjective
  <2>2. ASSUME NEW i \in 1 .. Len(q) - 1, NEW j \in 1 .. Len(q) - 1,
               Tail(q)[i] = Tail(q)[j]
        PROVE i = j
    <3>1. q[i + 1] = q[j + 1] /\ i + 1 \in 1 .. Len(q) /\ j + 1 \in 1 .. Len(q)
      BY <1>1, <2>2
    <3> QED BY <2>1, <3>1
  <2>3. ASSUME NEW i \in 1 .. Len(q) - 1 PROVE Tail(q)[i] # Head(q)
    <3>1. Tail(q)[i] = q[i + 1] /\ i + 1 \in 1 .. Len(q) /\ 1 \in 1 .. Len(q)
      BY <1>1
    <3> QED BY <2>1, <3>1, <1>1
  <2> QED BY <1>2, <2>2, <2>3 DEF IsInjective, Range
<1> QED BY <1>1, <1>3, <1>4

LEMMA EmptyRange == Range(<<>>) = {} /\ IsInjective(<<>>)
<1>1. DOMAIN <<>> = {}
  OBVIOUS
<1> QED BY <1>1 DEF Range, IsInjective

\* A step that changes only scan i, and gives it a record that keeps what
\* ItemsInv says of it, while isInit, told and the list stay.
LEMMA ScanStep ==
    ASSUME ListInv, NEW i \in DOMAIN scans, NEW r \in ScanRecord,
           scans' = [scans EXCEPT ![i] = r],
           UNCHANGED <<mapItemList, isInit, told, granted, refreshes, disturbed>>,
           faults' \in Nat,
           scans[i].state = "running", r.state # "over",
           r.state = "failed" => r.queue = <<>>,
           r.state = "complete" => r.todo = {},
           IsInjective(r.queue), r.todo \cap Range(r.queue) = {},
           r.state \in Delivering =>
              /\ Items(r) \subseteq Items(scans[i])
              /\ Readable \cap Items(scans[i]) \subseteq Items(r)
    PROVE  ListInv'
<1>1. scans' \in Seq(ScanRecord) /\ DOMAIN scans' = DOMAIN scans
      /\ Len(scans') = Len(scans) /\ scans'[i] = r
      /\ \A j \in DOMAIN scans : j # i => scans'[j] = scans[j]
  BY DEF ListInv, TypeOK
<1>2. TypeOK'
  BY <1>1 DEF ListInv, TypeOK
<1>3. OneScanInv'
  <2>1. isInit /\ i = Len(scans)
    BY DEF ListInv, OneScanInv
  <2>2. scans # <<>> /\ scans' # <<>>
    BY <1>1
  <2>3. r.state \in {"running", "complete", "failed"}
    BY DEF ScanRecord
  <2>4. /\ r.state \notin Delivering => r.queue = <<>>
        /\ r.state = "complete" => r.todo = {}
    BY <2>3 DEF Delivering
  <2> QED BY <1>1, <2>1, <2>2, <2>4 DEF ListInv, OneScanInv
<1>4. ItemsInv'
  <2>1. Items(scans[i]) \cap Shown = {}
        /\ (granted /\ ~disturbed => Readable \subseteq Shown \cup Items(scans[i]))
    BY DEF ListInv, ItemsInv, Delivering
  <2>2. Shown' = Shown /\ (UndisturbedScanIsComplete' <=> UndisturbedScanIsComplete)
    BY DEF Shown, UndisturbedScanIsComplete
  <2>3. r.state \in Delivering => /\ Items(r) \cap Shown = {}
                                  /\ granted /\ ~disturbed => Readable \subseteq Shown \cup Items(r)
    BY <2>1
  <2>4. ASSUME NEW j \in DOMAIN scans', j # i
        PROVE  /\ IsInjective(scans'[j].queue)
               /\ scans'[j].todo \cap Range(scans'[j].queue) = {}
               /\ scans'[j].state \in Delivering =>
                     /\ Items(scans'[j]) \cap Shown = {}
                     /\ granted /\ ~disturbed => Readable \subseteq Shown \cup Items(scans'[j])
    BY <1>1, <2>4 DEF ListInv, ItemsInv
  <2> QED BY <1>1, <2>2, <2>3, <2>4 DEF ListInv, ItemsInv
<1> QED BY <1>2, <1>3, <1>4 DEF ListInv

LEMMA EmitStep ==
    ASSUME ListInv, NEW i \in DOMAIN scans, NEW w \in Worlds, Emit(i, w)
    PROVE  ListInv'
<1> DEFINE s == scans[i]
           r == Emitted(s, w)
<1>1. s \in ScanRecord /\ s.state = "running" /\ w \in s.todo /\ s.queue \in Seq(Readable)
      /\ IsInjective(s.queue) /\ s.todo \cap Range(s.queue) = {}
  <2>1. s \in ScanRecord
    BY DEF ListInv, TypeOK
  <2>2. s.queue \in Seq(Readable)
    BY <2>1 DEF ScanRecord
  <2> QED BY <2>1, <2>2 DEF Emit, ListInv, ItemsInv
<1>2. CASE w \in Unreadable
  <2>1. r = [s EXCEPT !.todo = s.todo \ {w}]
    BY <1>1, <1>2 DEF Emitted, ScanRecord
  <2>2. r \in ScanRecord /\ r.queue = s.queue /\ r.todo = s.todo \ {w} /\ r.state = "running"
    BY <1>1, <2>1 DEF ScanRecord
  <2>3. Items(r) \subseteq Items(s) /\ Readable \cap Items(s) \subseteq Items(r)
    BY <1>2, <2>2 DEF Items, Readable
  <2>4. r.todo \cap Range(r.queue) = {} /\ IsInjective(r.queue)
    BY <1>1, <2>2
  <2> HIDE DEF r
  <2>5. scans' = [scans EXCEPT ![i] = r]
    BY DEF Emit, r
  <2>6. UNCHANGED <<mapItemList, isInit, told, granted, refreshes, disturbed>> /\ faults' \in Nat
    BY DEF Emit, ListInv, TypeOK
  <2> QED BY <1>1, <2>2, <2>3, <2>4, <2>5, <2>6, ScanStep
<1>3. CASE w \notin Unreadable
  <2>1. r = [s EXCEPT !.todo = s.todo \ {w}, !.queue = Append(s.queue, w)]
    BY <1>1, <1>3 DEF Emitted, ScanRecord
  <2>2. w \in Readable /\ w \notin Range(s.queue)
    BY <1>1, <1>3 DEF Readable
  <2>3. /\ Append(s.queue, w) \in Seq(Readable) /\ IsInjective(Append(s.queue, w))
        /\ Range(Append(s.queue, w)) = Range(s.queue) \cup {w}
    BY <1>1, <2>2, AppendEffect
  <2>4. r \in ScanRecord /\ r.queue = Append(s.queue, w) /\ r.todo = s.todo \ {w}
        /\ r.state = "running"
    BY <1>1, <2>1, <2>3 DEF ScanRecord
  <2>5. Items(r) = Items(s) /\ r.todo \cap Range(r.queue) = {} /\ IsInjective(r.queue)
    BY <1>1, <2>3, <2>4 DEF Items
  <2> HIDE DEF r
  <2>6. scans' = [scans EXCEPT ![i] = r]
    BY DEF Emit, r
  <2>7. UNCHANGED <<mapItemList, isInit, told, granted, refreshes, disturbed>> /\ faults' \in Nat
    BY DEF Emit, ListInv, TypeOK
  <2> QED BY <1>1, <2>4, <2>5, <2>6, <2>7, ScanStep
<1> QED BY <1>2, <1>3

LEMMA WorkerEndsStep ==
    ASSUME ListInv, NEW i \in DOMAIN scans, ScanEnds(i) \/ ScanThrows(i)
    PROVE  ListInv'
<1> DEFINE s == scans[i]
<1>1. s \in ScanRecord /\ s.state = "running"
      /\ IsInjective(s.queue) /\ s.todo \cap Range(s.queue) = {}
  BY DEF ScanEnds, ScanThrows, ListInv, TypeOK, ItemsInv
<1>2. CASE ScanEnds(i)
  <2> DEFINE r == [s EXCEPT !.state = "complete"]
  <2>1. r \in ScanRecord /\ r.state = "complete" /\ r.todo = {} /\ r.queue = s.queue
        /\ s.todo = {}
    BY <1>1, <1>2 DEF ScanEnds, ScanRecord
  <2>2. Items(r) = Items(s)
    BY <2>1 DEF Items
  <2>3. scans' = [scans EXCEPT ![i] = r]
    BY <1>1, <1>2 DEF ScanEnds, ScanRecord
  <2>4. UNCHANGED <<mapItemList, isInit, told, granted, refreshes, disturbed>> /\ faults' \in Nat
    BY <1>2 DEF ScanEnds, ListInv, TypeOK
  <2> HIDE DEF r
  <2> QED BY <1>1, <2>1, <2>2, <2>3, <2>4, ScanStep
<1>3. CASE ScanThrows(i)
  <2> DEFINE r == [s EXCEPT !.state = "failed", !.queue = <<>>]
  <2>1. r \in ScanRecord /\ r.state = "failed" /\ r.queue = <<>>
    <3>1. <<>> \in Seq(Readable)
      OBVIOUS
    <3> QED BY <1>1, <3>1 DEF ScanRecord
  <2>2. IsInjective(r.queue) /\ r.todo \cap Range(r.queue) = {}
    BY <2>1, EmptyRange
  <2>3. scans' = [scans EXCEPT ![i] = r]
    BY <1>1, <1>3 DEF ScanThrows, ScanRecord
  <2>4. UNCHANGED <<mapItemList, isInit, told, granted, refreshes, disturbed>> /\ faults' \in Nat
    BY <1>3 DEF ScanThrows, ListInv, TypeOK
  <2>5. r.state \notin Delivering
    BY <2>1 DEF Delivering
  <2> HIDE DEF r
  <2> QED BY <1>1, <2>1, <2>2, <2>3, <2>4, <2>5, ScanStep
<1> QED BY <1>2, <1>3

\* The item leaves the queue and enters the list.
LEMMA OnNextStep ==
    ASSUME ListInv, NEW i \in DOMAIN scans, OnNext(i)
    PROVE  ListInv'
<1> DEFINE s == scans[i]
           r == [s EXCEPT !.queue = Tail(s.queue)]
           x == Head(s.queue)
<1>1. s \in ScanRecord /\ s.queue \in Seq(Readable) /\ s.queue # <<>>
      /\ mapItemList \in Seq(Readable) /\ scans \in Seq(ScanRecord)
  <2>1. scans \in Seq(ScanRecord) /\ s \in ScanRecord /\ mapItemList \in Seq(Readable)
    BY DEF ListInv, TypeOK
  <2>2. s.queue \in Seq(Readable)
    BY <2>1 DEF ScanRecord
  <2> QED BY <2>1, <2>2 DEF OnNext
<1>2. s.state \in Delivering
  BY <1>1 DEF ListInv, OneScanInv
<1>3. /\ IsInjective(mapItemList) /\ IsInjective(s.queue)
      /\ s.todo \cap Range(s.queue) = {} /\ Items(s) \cap Shown = {}
      /\ granted /\ ~disturbed => Readable \subseteq Shown \cup Items(s)
  BY <1>2 DEF ListInv, ItemsInv
<1>4. /\ Tail(s.queue) \in Seq(Readable) /\ x \in Readable
      /\ Range(s.queue) = Range(Tail(s.queue)) \cup {x}
      /\ IsInjective(Tail(s.queue)) /\ x \notin Range(Tail(s.queue))
  BY <1>1, <1>3, TailEffect
<1>5. r \in ScanRecord /\ r.queue = Tail(s.queue) /\ r.todo = s.todo /\ r.state = s.state
  BY <1>1, <1>4 DEF ScanRecord
<1>6. x \notin Shown
  BY <1>3, <1>4 DEF Items
<1>7. /\ mapItemList' \in Seq(Readable) /\ Shown' = Shown \cup {x}
      /\ IsInjective(mapItemList')
  <2>1. mapItemList' = Append(mapItemList, x)
    BY DEF OnNext
  <2> QED BY <1>1, <1>3, <1>4, <1>6, <2>1, AppendEffect DEF Shown
<1>8. /\ Items(r) \cap Shown' = {} /\ r.todo \cap Range(r.queue) = {}
      /\ granted /\ ~disturbed => Readable \subseteq Shown' \cup Items(r)
  BY <1>3, <1>4, <1>5, <1>7 DEF Items
<1>9. scans' = [scans EXCEPT ![i] = r]
      /\ UNCHANGED <<isInit, told, granted, refreshes, faults, disturbed>>
  BY <1>1 DEF OnNext, ScanRecord
<1>10. isInit /\ i = Len(scans) /\ scans # <<>> /\ told = "scanning"
  BY <1>2 DEF ListInv, OneScanInv, Delivering
<1> HIDE DEF r
<1>11. scans' \in Seq(ScanRecord) /\ DOMAIN scans' = DOMAIN scans
       /\ Len(scans') = Len(scans) /\ scans'[i] = r
       /\ \A j \in DOMAIN scans : j # i => scans'[j] = scans[j]
  BY <1>1, <1>5, <1>9
<1>12. TypeOK'
  BY <1>7, <1>9, <1>11 DEF ListInv, TypeOK
<1>13. OneScanInv'
  BY <1>2, <1>5, <1>9, <1>10, <1>11 DEF ListInv, OneScanInv
<1>14. ItemsInv'
  <2>1. UndisturbedScanIsComplete'
    BY <1>9, <1>10 DEF UndisturbedScanIsComplete
  <2>2. \A j \in DOMAIN scans : j # i => scans[j].state \notin Delivering
    BY <1>10 DEF ListInv, OneScanInv, Delivering
  <2> QED BY <1>4, <1>5, <1>7, <1>8, <1>9, <1>11, <2>1, <2>2 DEF ListInv, ItemsInv
<1> QED BY <1>12, <1>13, <1>14 DEF ListInv

\* onComplete() and onError(): the scan is over, and the list is complete
\* when nothing disturbed it.
LEMMA OverStep ==
    ASSUME ListInv, NEW i \in DOMAIN scans, OnComplete(i) \/ OnError(i)
    PROVE  ListInv'
<1> DEFINE s == scans[i]
           r == [s EXCEPT !.state = "over"]
<1>1. s \in ScanRecord /\ scans \in Seq(ScanRecord) /\ s.state \in {"complete", "failed"}
  BY DEF OnComplete, OnError, ListInv, TypeOK
<1>2. r \in ScanRecord /\ r.state = "over" /\ r.todo = s.todo /\ r.queue = s.queue
  BY <1>1 DEF ScanRecord
<1>3. s.queue = <<>> /\ i = Len(scans) /\ scans # <<>>
  BY <1>1 DEF OnComplete, OnError, Drained, ListInv, OneScanInv, Delivering
<1>4. scans' = [scans EXCEPT ![i] = r] /\ isInit' = FALSE
      /\ told' \in {"scanned", "error"} /\ (told' = "scanned" => s.state = "complete")
      /\ UNCHANGED <<mapItemList, granted, refreshes, faults, disturbed>>
  BY <1>1 DEF OnComplete, OnError, InitAfter, ScanRecord
<1>5. Shown' = Shown
  BY <1>4 DEF Shown
<1>6. UndisturbedScanIsComplete'
  <2>1. SUFFICES ASSUME granted, told' = "scanned", ~disturbed PROVE Readable \subseteq Shown
    BY <1>4 DEF UndisturbedScanIsComplete, Shown
  <2>2. s.state = "complete" /\ s.todo = {}
    BY <1>4, <2>1 DEF ListInv, OneScanInv
  <2>3. Readable \subseteq Shown \cup Items(s)
    BY <2>1, <2>2 DEF ListInv, ItemsInv, Delivering
  <2> QED BY <1>3, <2>2, <2>3, EmptyRange DEF Items
<1> HIDE DEF r
<1>7. scans' \in Seq(ScanRecord) /\ DOMAIN scans' = DOMAIN scans
      /\ Len(scans') = Len(scans) /\ scans'[i] = r
      /\ \A j \in DOMAIN scans : j # i => scans'[j] = scans[j]
  BY <1>1, <1>2, <1>4
<1>8. TypeOK'
  BY <1>4, <1>7 DEF ListInv, TypeOK
<1>9. OneScanInv'
  <2>1. \A j \in DOMAIN scans : j # i => scans[j].state = "over"
    BY <1>3 DEF ListInv, OneScanInv
  <2> QED BY <1>2, <1>3, <1>4, <1>7, <2>1 DEF ListInv, OneScanInv, Delivering
<1>10. ItemsInv'
  BY <1>2, <1>4, <1>5, <1>6, <1>7 DEF ListInv, ItemsInv, Delivering
<1> QED BY <1>8, <1>9, <1>10 DEF ListInv

\* A refresh, and the first scan: the list is empty, and a scan starts if none
\* is under way.
LEMMA ClearStep ==
    ASSUME ListInv, NEW permitted \in BOOLEAN, InitData(permitted),
           granted' = permitted, granted' # granted => scans = <<>>,
           mapItemList' = <<>>, refreshes' \in Nat,
           UNCHANGED faults
    PROVE  ListInv'
<1>1. Shown' = {} /\ IsInjective(mapItemList') /\ mapItemList' \in Seq(Readable)
  BY EmptyRange DEF Shown
<1>2. CASE isInit
  <2>1. disturbed' = TRUE /\ UNCHANGED <<isInit, told, scans>>
    BY <1>2 DEF InitData, MayScan
  <2>2. told' # "scanned" /\ scans # <<>> /\ granted' = granted
    BY <1>2, <2>1 DEF ListInv, OneScanInv
  <2>3. TypeOK'
    BY <1>1, <2>1 DEF ListInv, TypeOK
  <2>4. OneScanInv'
    BY <1>2, <2>1, <2>2 DEF ListInv, OneScanInv
  <2>5. ItemsInv'
    BY <1>1, <2>1, <2>2 DEF ListInv, ItemsInv, UndisturbedScanIsComplete
  <2> QED BY <2>3, <2>4, <2>5 DEF ListInv
<1>3. CASE ~isInit
  <2>1. isInit' = TRUE /\ told' = "scanning" /\ disturbed' = FALSE
    BY <1>3 DEF InitData, MayScan
  <2> PICK found \in Found(permitted) : scans' = Append(scans, NewScan(found))
    BY <1>3 DEF InitData, MayScan
  <2> DEFINE scan == NewScan(found)
  <2>a. found \subseteq Worlds /\ (permitted => found = Worlds)
    BY DEF Found
  <2>2. scan \in ScanRecord /\ scan.todo = found /\ scan.queue = <<>>
        /\ scan.state = "running"
    BY <2>a DEF NewScan, ScanRecord
  <2> HIDE DEF scan
  <2>3. /\ scans \in Seq(ScanRecord) /\ scans' \in Seq(ScanRecord)
        /\ Len(scans') = Len(scans) + 1 /\ Len(scans) \in Nat
        /\ DOMAIN scans = 1 .. Len(scans) /\ DOMAIN scans' = 1 .. Len(scans) + 1
        /\ scans'[Len(scans) + 1] = scan
        /\ \A j \in DOMAIN scans : scans'[j] = scans[j]
    BY <2>1, <2>2 DEF ListInv, TypeOK, scan
  <2>4. \A j \in DOMAIN scans : scans[j].state = "over"
    BY <1>3 DEF ListInv, OneScanInv
  <2>5. TypeOK'
    BY <1>1, <2>1, <2>3 DEF ListInv, TypeOK
  <2>6. OneScanInv'
    BY <2>1, <2>2, <2>3, <2>4 DEF ListInv, OneScanInv, Delivering
  <2>7. /\ IsInjective(scan.queue) /\ scan.todo \cap Range(scan.queue) = {}
        /\ Items(scan) = found
    BY <2>2, EmptyRange DEF Items
  <2>8. Readable \subseteq Worlds
    BY DEF Readable
  <2>9. ItemsInv'
    <3>1. UndisturbedScanIsComplete'
      BY <2>1 DEF UndisturbedScanIsComplete
    <3>2. ASSUME NEW j \in DOMAIN scans'
          PROVE  /\ IsInjective(scans'[j].queue)
                 /\ scans'[j].todo \cap Range(scans'[j].queue) = {}
                 /\ scans'[j].state \in Delivering =>
                       /\ Items(scans'[j]) \cap Shown' = {}
                       /\ granted' /\ ~disturbed' => Readable \subseteq Shown' \cup Items(scans'[j])
      <4>1. CASE j = Len(scans) + 1
        BY <1>1, <2>a, <2>3, <2>7, <2>8, <4>1
      <4>2. CASE j # Len(scans) + 1
        <5>1. j \in DOMAIN scans
          BY <2>3, <3>2, <4>2
        <5> QED BY <2>3, <2>4, <5>1 DEF ListInv, ItemsInv, Delivering
      <4> QED BY <4>1, <4>2
    <3> QED BY <1>1, <3>1, <3>2 DEF ItemsInv
  <2> QED BY <2>5, <2>6, <2>9 DEF ListInv
<1> QED BY <1>2, <1>3

LEMMA ListStep == ListInv /\ [Next]_vars => ListInv'
<1> SUFFICES ASSUME ListInv, [Next]_vars PROVE ListInv'
  OBVIOUS
<1>1. CASE Grant
  <2>1. mapItemList' = <<>> /\ refreshes' \in Nat
    BY <1>1 DEF Grant, ListInv, OneScanInv, TypeOK
  <2> QED BY <1>1, <2>1, ClearStep DEF Grant
<1>2. CASE Refresh
  <2>1. refreshes' \in Nat
    BY <1>2 DEF Refresh, ListInv, TypeOK
  <2>2. granted \in BOOLEAN
    BY DEF ListInv, TypeOK
  <2> QED BY <1>2, <2>1, <2>2, ClearStep DEF Refresh
<1>3. ASSUME NEW i \in DOMAIN scans, NEW w \in Worlds, Emit(i, w) PROVE ListInv'
  BY <1>3, EmitStep
<1>4. ASSUME NEW i \in DOMAIN scans, ScanEnds(i) \/ ScanThrows(i) PROVE ListInv'
  BY <1>4, WorkerEndsStep
<1>5. ASSUME NEW i \in DOMAIN scans, Main(i) PROVE ListInv'
  BY <1>5, OnNextStep, OverStep DEF Main
<1>6. CASE UNCHANGED vars
  BY <1>6 DEF vars, ListInv, TypeOK, OneScanInv, ItemsInv, UndisturbedScanIsComplete,
              Shown
<1> QED BY <1>1, <1>2, <1>3, <1>4, <1>5, <1>6 DEF Next

\* The list of worlds is well formed in every state that MainActivity reaches,
\* for any set of worlds, any number of scans and refreshes.
THEOREM ListInvariant == Spec => []ListInv
<1>1. Init => ListInv
  <2> SUFFICES ASSUME Init PROVE ListInv
    OBVIOUS
  <2>1. TypeOK
    <3>1. <<>> \in Seq(Readable) /\ <<>> \in Seq(ScanRecord)
      OBVIOUS
    <3> QED BY <3>1 DEF Init, TypeOK
  <2>2. DOMAIN scans = {}
    BY DEF Init
  <2>3. OneScanInv /\ ItemsInv
    BY <2>2, EmptyRange DEF Init, OneScanInv, ItemsInv, UndisturbedScanIsComplete
  <2> QED BY <2>1, <2>3 DEF ListInv
<1> QED BY <1>1, ListStep, PTL DEF Spec

\* No world is listed twice.
THEOREM WorldsListedOnce == Spec => []NoWorldTwice
<1>1. ListInv => NoWorldTwice
  BY DEF ListInv, ItemsInv, NoWorldTwice
<1> QED BY <1>1, ListInvariant, PTL

\* An undisturbed scan with the permissions that says it is complete has listed every readable world.
THEOREM UndisturbedScansComplete == Spec => []UndisturbedScanIsComplete
<1>1. ListInv => UndisturbedScanIsComplete
  BY DEF ListInv, ItemsInv
<1> QED BY <1>1, ListInvariant, PTL
=============================================================================
