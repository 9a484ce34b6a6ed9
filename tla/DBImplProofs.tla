---------------------------- MODULE DBImplProofs ----------------------------
(* Theorems about the write path of the engine (DBImpl).                   *)
EXTENDS DBImpl, TLAPS, SequenceTheorems, FiniteSetTheorems, WellFoundedInduction

----------------------------------------------------------------------------
(* The queue of writers.                                                   *)

\* Signalling bg_cv_ moves nobody into or out of the queue.
LEMMA SignalKeepsQueue ==
    ASSUME NEW ws \in [Writers -> Writer]
    PROVE  /\ SignalAll(ws) \in [Writers -> Writer]
           /\ \A w \in Writers :
                /\ SignalAll(ws)[w].op = ws[w].op
                /\ SignalAll(ws)[w].status = ws[w].status
                /\ SignalAll(ws)[w].pc \in Leading <=> ws[w].pc \in Leading
                /\ SignalAll(ws)[w].pc = "queue" <=> ws[w].pc = "queue"
                /\ ws[w].pc # "bgwait" /\ ws[w].pc # "flushblocked"
                     => SignalAll(ws)[w].pc = ws[w].pc
                /\ SignalAll(ws)[w].pc \in {"log", "sync", "insert", "publish"}
                     => ws[w].pc = SignalAll(ws)[w].pc
BY DEF SignalAll, Writer, Leading


\* What Dequeue() does to each writer, when ws is like wr but for signals.
LEMMA DequeueEffect ==
    ASSUME NEW ws \in [Writers -> Writer], NEW n, NEW st \in {"ok", "error", "sync_error"}
    PROVE  /\ Dequeue(ws, n, st) \in [Writers -> Writer]
           /\ \A w \in Writers :
                LET d == Dequeue(ws, n, st)[w]
                IN  /\ d.op = ws[w].op
                    /\ w \in {writers_[i] : i \in 1..n} => d.pc = "done" /\ d.status = st
                    /\ w \notin {writers_[i] : i \in 1..n} =>
                         /\ d.status = ws[w].status
                         /\ d.pc = IF w \in {writers_[i] : i \in {n + 1} \cap 1..Len(writers_)}
                                   THEN "room" ELSE ws[w].pc
<1> DEFINE leaving == {writers_[i] : i \in 1..n}
           next    == {writers_[i] : i \in {n + 1} \cap 1..Len(writers_)}
<1>1. \A w \in Writers :
        LET d == [ws[w] EXCEPT !.pc = "done", !.status = st]
            r == [ws[w] EXCEPT !.pc = "room"]
        IN  /\ d \in Writer /\ d.op = ws[w].op /\ d.pc = "done" /\ d.status = st
            /\ r \in Writer /\ r.op = ws[w].op /\ r.pc = "room"
            /\ r.status = ws[w].status
            /\ ws[w] \in Writer
  BY DEF Writer
<1>2. Dequeue(ws, n, st) =
        [w \in Writers |-> IF w \in leaving
                           THEN [ws[w] EXCEPT !.pc = "done", !.status = st]
                           ELSE IF w \in next THEN [ws[w] EXCEPT !.pc = "room"]
                           ELSE ws[w]]
  BY DEF Dequeue
<1> HIDE DEF leaving, next
<1>3. Dequeue(ws, n, st) \in [Writers -> Writer]
  BY <1>1, <1>2
<1>4. ASSUME NEW w \in Writers
      PROVE  /\ Dequeue(ws, n, st)[w].op = ws[w].op
             /\ w \in leaving => /\ Dequeue(ws, n, st)[w].pc = "done"
                                 /\ Dequeue(ws, n, st)[w].status = st
             /\ w \notin leaving =>
                  /\ Dequeue(ws, n, st)[w].pc =
                       IF w \in next THEN "room" ELSE ws[w].pc
                  /\ Dequeue(ws, n, st)[w].status = ws[w].status
  BY <1>1, <1>2
<1> QED BY <1>3, <1>4 DEF leaving, next

\* The invariant of the queue holds after its first n writers have left it, and
\* the next one, if any, has become the leader.
LEMMA DequeueKeepsQueue ==
    ASSUME QueueInv, NEW n \in 1..Len(writers_),
           NEW st \in {"ok", "error", "sync_error"},
           NEW ws \in [Writers -> Writer],
           \A w \in Writers : /\ ws[w].pc \in Leading <=> wr[w].pc \in Leading
                              /\ ws[w].pc = "queue" <=> wr[w].pc = "queue"
                              /\ ws[w].pc \in {"log", "sync", "insert", "publish"}
                                   => wr[w].pc = ws[w].pc,
           wr' = Dequeue(ws, n, st),
           writers_' = SubSeq(writers_, n + 1, Len(writers_)),
           group' \in Nat, mutex_' = Free
    PROVE  /\ QueueInv'
           /\ \A w \in Writers : wr'[w].pc \notin {"log", "sync", "insert", "publish"}
<1> DEFINE q == writers_
<1>1. /\ q \in Seq(Writers) /\ Len(q) \in Nat /\ n \in Nat /\ n <= Len(q)
      /\ \A i \in 1..Len(q) : q[i] \in Writers
      /\ q # <<>> /\ Head(q) = q[1]
  BY DEF QueueInv
<1>2. /\ writers_' \in Seq(Writers) /\ Len(writers_') = Len(q) - n
      /\ \A i \in 1..Len(q) - n : writers_'[i] = q[n + i]
  BY <1>1, SubSeqProperties
<1>3. wr' \in [Writers -> Writer]
  BY <1>1, DequeueEffect
<1>4. \A i, j \in 1..Len(writers_') : writers_'[i] = writers_'[j] => i = j
  BY <1>1, <1>2 DEF QueueInv
<1>5. ASSUME NEW w \in Writers
      PROVE  /\ (\E i \in 1..n : q[i] = w) => wr'[w].pc = "done"
             /\ ~(\E i \in 1..n : q[i] = w) =>
                  wr'[w].pc = IF n < Len(q) /\ q[n + 1] = w THEN "room" ELSE ws[w].pc
  <2>1. LET d == Dequeue(ws, n, st)[w]
        IN  /\ d.op = ws[w].op
            /\ w \in {q[i] : i \in 1..n} => d.pc = "done" /\ d.status = st
            /\ w \notin {q[i] : i \in 1..n} =>
                 /\ d.status = ws[w].status
                 /\ d.pc = IF w \in {q[i] : i \in {n + 1} \cap 1..Len(q)}
                           THEN "room" ELSE ws[w].pc
    <3>1. ws \in [Writers -> Writer] /\ st \in {"ok", "error", "sync_error"}
      OBVIOUS
    <3> QED BY ONLY <3>1, DequeueEffect, w \in Writers
  <2>2. w \in {q[i] : i \in {n + 1} \cap 1..Len(q)} <=> n < Len(q) /\ q[n + 1] = w
    BY <1>1
  <2> QED BY <2>1, <2>2
<1>6. writers_' # <<>> <=> n < Len(q)
  <2>1. n < Len(q) <=> Len(writers_') # 0
    BY <1>1, <1>2
  <2>2. writers_' \in Seq(Writers)
    BY <1>2
  <2>3. Len(writers_') # 0 => writers_' # <<>>
    BY <2>2
  <2>4. writers_' # <<>> => Len(writers_') # 0
    BY <2>2
  <2> QED BY <2>1, <2>3, <2>4
<1>7. n < Len(q) => Head(writers_') = q[n + 1]
  BY <1>1, <1>2
<1>8. ASSUME NEW w \in Writers
      PROVE  wr'[w].pc \in Leading <=> writers_' # <<>> /\ Head(writers_') = w
  <2>1. CASE \E i \in 1..n : q[i] = w
    <3>1. wr'[w].pc \notin Leading
      BY <2>1, <1>5 DEF Leading
    <3>2. n < Len(q) => q[n + 1] # w
      BY <2>1, <1>1 DEF QueueInv
    <3> QED BY <3>1, <3>2, <1>6, <1>7
  <2>2. CASE n < Len(q) /\ q[n + 1] = w
    <3>1. ASSUME NEW i \in 1..n, q[i] = w
          PROVE  FALSE
      <4>1. i \in 1..Len(q) /\ n + 1 \in 1..Len(q) /\ i # n + 1
        BY <1>1, <2>2
      <4> QED BY <3>1, <4>1, <2>2 DEF QueueInv
    <3>2. wr'[w].pc = "room"
      <4>1. wr'[w].pc = IF n < Len(q) /\ q[n + 1] = w THEN "room" ELSE ws[w].pc
        BY <3>1, <1>5
      <4> QED BY <4>1, <2>2
    <3>3. wr'[w].pc \in Leading
      BY <3>2 DEF Leading
    <3> QED BY <2>2, <3>3, <1>6, <1>7
  <2>3. CASE ~(\E i \in 1..n : q[i] = w) /\ ~(n < Len(q) /\ q[n + 1] = w)
    <3>1. wr'[w].pc = ws[w].pc /\ q[1] # w
      BY <2>3, <1>1, <1>5
    <3>2. wr[w].pc \notin Leading
      BY <3>1, <1>1 DEF QueueInv
    <3> QED BY <3>1, <3>2, <2>3, <1>6, <1>7
  <2> QED BY <2>1, <2>2, <2>3
<1>9. ASSUME NEW w \in Writers
      PROVE  wr'[w].pc = "queue" <=> \E i \in 2..Len(writers_') : writers_'[i] = w
  <2>1. (\E i \in 2..Len(writers_') : writers_'[i] = w)
          <=> \E i \in n + 2..Len(q) : q[i] = w
    <3>1. ASSUME NEW i \in n + 2..Len(q), q[i] = w
          PROVE  i - n \in 2..Len(writers_') /\ writers_'[i - n] = w
      BY <3>1, <1>1, <1>2
    <3>2. ASSUME NEW i \in 2..Len(writers_'), writers_'[i] = w
          PROVE  n + i \in n + 2..Len(q) /\ q[n + i] = w
      BY <3>2, <1>1, <1>2
    <3> QED BY <3>1, <3>2
  <2>2. CASE \E i \in 1..n : q[i] = w
    <3>1. wr'[w].pc # "queue"
      BY <2>2, <1>5
    <3>2. PICK i \in 1..n : q[i] = w
      BY <2>2
    <3>3. ASSUME NEW j \in n + 2..Len(q), q[j] = w
          PROVE  FALSE
      <4>1. i \in 1..Len(q) /\ j \in 1..Len(q) /\ i # j
        BY <1>1
      <4> QED BY <3>2, <3>3, <4>1 DEF QueueInv
    <3> QED BY <2>1, <3>1, <3>3
  <2>3. CASE n < Len(q) /\ q[n + 1] = w
    BY <2>1, <2>3, <1>1, <1>5 DEF QueueInv
  <2>4. CASE ~(\E i \in 1..n : q[i] = w) /\ ~(n < Len(q) /\ q[n + 1] = w)
    <3>1. wr'[w].pc = "queue" <=> wr[w].pc = "queue"
      BY <2>4, <1>5
    <3>2. wr[w].pc = "queue" <=> \E i \in 2..Len(q) : q[i] = w
      BY DEF QueueInv
    <3>3. ASSUME NEW i \in 2..Len(q), q[i] = w
          PROVE  i \in n + 2..Len(q)
      BY <2>4, <3>3, <1>1
    <3>4. n + 2..Len(q) \subseteq 2..Len(q)
      BY <1>1
    <3> QED BY <2>1, <3>1, <3>2, <3>3, <3>4
  <2> QED BY <2>2, <2>3, <2>4
<1>10. \A w \in Writers : wr'[w].pc \notin {"log", "sync", "insert", "publish"}
  <2> SUFFICES ASSUME NEW w \in Writers,
                      wr'[w].pc \in {"log", "sync", "insert", "publish"}
               PROVE  FALSE
    OBVIOUS
  <2>1. ~(\E i \in 1..n : q[i] = w) /\ wr'[w].pc = ws[w].pc
    BY <1>5
  <2>2. wr[w].pc \in Leading
    BY <2>1 DEF Leading
  <2> QED BY <2>1, <2>2, <1>1 DEF QueueInv
<1> QED BY <1>2, <1>3, <1>4, <1>8, <1>9, <1>10 DEF QueueInv

\* A step that leaves the queue as it is keeps its invariant if it makes nobody
\* lead, stop leading, block or wake up.
LEMMA SameQueue ==
    ASSUME QueueInv, wr' \in [Writers -> Writer], writers_' = writers_, group' \in Nat,
           \A w \in Writers :
             /\ wr'[w].pc \in Leading <=> wr[w].pc \in Leading
             /\ wr'[w].pc = "queue" <=> wr[w].pc = "queue"
             /\ wr'[w].pc \in {"log", "sync", "insert", "publish"}
                  => group' \in 1..Len(writers_),
           mutex_' \in Writers \cup {Free},
           mutex_' # Free => wr'[mutex_'].pc = "room"
    PROVE  QueueInv'
BY DEF QueueInv

\* Signals do not disturb the queue.
LEMMA SignalStep ==
    ASSUME QueueInv, wr' = SignalAll(wr), writers_' = writers_, group' = group,
           mutex_' = mutex_, mutex_ = Free
    PROVE  QueueInv'
<1>1. wr \in [Writers -> Writer] /\ group \in Nat
  BY DEF QueueInv
<1>2. /\ wr' \in [Writers -> Writer]
      /\ \A w \in Writers :
           /\ wr'[w].pc \in Leading <=> wr[w].pc \in Leading
           /\ wr'[w].pc = "queue" <=> wr[w].pc = "queue"
           /\ wr'[w].pc \in {"log", "sync", "insert", "publish"}
                => wr[w].pc = wr'[w].pc
  BY <1>1, SignalKeepsQueue
<1>3. \A w \in Writers : wr'[w].pc \in {"log", "sync", "insert", "publish"}
                           => group' \in 1..Len(writers_)
  BY <1>2 DEF QueueInv
<1> QED BY <1>1, <1>2, <1>3, SameQueue DEF QueueInv

\* One writer that is not at the boundary of the queue goes from one place of its
\* program to another.
LEMMA OneWriterStep ==
    ASSUME QueueInv, NEW w \in Writers, NEW r \in Writer,
           wr' = [wr EXCEPT ![w] = r], writers_' = writers_, group' = group,
           r.pc \in Leading <=> wr[w].pc \in Leading,
           r.pc # "queue", wr[w].pc # "queue",
           r.pc \in {"log", "sync", "insert", "publish"}
             => wr[w].pc \in {"log", "sync", "insert", "publish"},
           \/ mutex_' = Free
           \/ mutex_' = w /\ r.pc = "room"
           \/ mutex_' = mutex_ /\ wr[w].pc # "room"
    PROVE  QueueInv'
<1>1. wr' \in [Writers -> Writer] /\ group' \in Nat
  BY DEF QueueInv
<1>2. /\ \A u \in Writers : u # w => wr'[u] = wr[u]
      /\ wr'[w] = r
  BY DEF QueueInv
<1>3. \A u \in Writers :
        /\ wr'[u].pc \in Leading <=> wr[u].pc \in Leading
        /\ wr'[u].pc = "queue" <=> wr[u].pc = "queue"
        /\ wr'[u].pc \in {"log", "sync", "insert", "publish"}
             => group' \in 1..Len(writers_)
  BY <1>2 DEF QueueInv
<1>4. mutex_' \in Writers \cup {Free}
  BY DEF QueueInv
<1>5. mutex_' # Free => wr'[mutex_'].pc = "room"
  BY <1>2, <1>4 DEF QueueInv
<1> QED BY <1>1, <1>3, <1>4, <1>5, SameQueue

LEMMA WriteKeepsQueue ==
    ASSUME QueueInv, NEW w \in Writers, NEW op \in Ops, Write(w, op)
    PROVE  QueueInv'
<1> DEFINE q == writers_
           r == [pc |-> IF q = <<>> THEN "room" ELSE "queue", op |-> op,
                 delay |-> op \notin NullOps, force |-> op \in NullOps, status |-> "ok"]
<1>1. /\ wr' = [wr EXCEPT ![w] = r] /\ writers_' = Append(q, w) /\ group' = group
      /\ mutex_' = (IF q = <<>> THEN w ELSE Free) /\ wr[w].pc = "idle" /\ mutex_ = Free
  BY DEF Write
<1>2. r \in Writer
  BY DEF Writer
<1>3. /\ q \in Seq(Writers) /\ Len(q) \in Nat /\ group \in Nat
      /\ writers_' \in Seq(Writers) /\ Len(writers_') = Len(q) + 1 /\ writers_' # <<>>
      /\ \A i \in 1..Len(q) : writers_'[i] = q[i]
      /\ writers_'[Len(q) + 1] = w
      /\ \A i \in 1..Len(q) : q[i] \in Writers
  BY <1>1 DEF QueueInv
<1>4. /\ wr' \in [Writers -> Writer] /\ wr'[w] = r
      /\ \A u \in Writers : u # w => wr'[u] = wr[u]
  BY <1>1, <1>2 DEF QueueInv
<1>5. \A i \in 1..Len(q) : q[i] # w
  <2> SUFFICES ASSUME NEW i \in 1..Len(q), q[i] = w PROVE FALSE
    OBVIOUS
  <2>1. CASE i = 1
    <3>1. q # <<>> /\ Head(q) = w
      BY <2>1, <1>3
    <3> QED BY <3>1, <1>1 DEF QueueInv, Leading
  <2>2. CASE i # 1
    <3>1. i \in 2..Len(q)
      BY <2>2, <1>3
    <3>2. wr[w].pc = "queue"
      BY <3>1 DEF QueueInv
    <3> QED BY <3>2, <1>1
  <2> QED BY <2>1, <2>2
<1>6. \A i, j \in 1..Len(writers_') : writers_'[i] = writers_'[j] => i = j
  <2> SUFFICES ASSUME NEW i \in 1..Len(q) + 1, NEW j \in 1..Len(q) + 1,
                      writers_'[i] = writers_'[j]
               PROVE  i = j
    BY <1>3
  <2>1. CASE i \in 1..Len(q) /\ j \in 1..Len(q)
    BY <2>1, <1>3 DEF QueueInv
  <2>2. CASE i = Len(q) + 1 \/ j = Len(q) + 1
    BY <2>2, <1>3, <1>5
  <2> QED BY <2>1, <2>2, <1>3
<1>7. Head(writers_') = IF q = <<>> THEN w ELSE Head(q)
  BY <1>1, <1>3
<1>8. ASSUME NEW u \in Writers
      PROVE  wr'[u].pc \in Leading <=> writers_' # <<>> /\ Head(writers_') = u
  <2>1. CASE q = <<>>
    BY <2>1, <1>3, <1>4, <1>7 DEF QueueInv, Leading
  <2>2. CASE q # <<>> /\ u = w
    <3>1. Head(q) # w
      BY <2>2, <1>3, <1>5
    <3> QED BY <3>1, <2>2, <1>3, <1>4, <1>7 DEF Leading
  <2>3. CASE q # <<>> /\ u # w
    BY <2>3, <1>3, <1>4, <1>7 DEF QueueInv
  <2> QED BY <2>1, <2>2, <2>3
<1>9. ASSUME NEW u \in Writers
      PROVE  wr'[u].pc = "queue" <=> \E i \in 2..Len(writers_') : writers_'[i] = u
  <2>1. CASE u = w
    <3>1. q # <<>> <=> Len(q) + 1 \in 2..Len(writers_')
      BY <1>3
    <3>2. q # <<>> <=> \E i \in 2..Len(writers_') : writers_'[i] = w
      BY <3>1, <1>3, <1>5
    <3> QED BY <2>1, <3>2, <1>4
  <2>2. CASE u # w
    <3>1. (\E i \in 2..Len(writers_') : writers_'[i] = u)
            <=> \E i \in 2..Len(q) : q[i] = u
      BY <2>2, <1>3
    <3> QED BY <2>2, <3>1, <1>4 DEF QueueInv
  <2> QED BY <2>1, <2>2
<1>10. \A u \in Writers : wr'[u].pc \in {"log", "sync", "insert", "publish"}
                            => group' \in 1..Len(writers_')
  BY <1>1, <1>3, <1>4 DEF QueueInv
<1>11. mutex_' \in Writers \cup {Free} /\ (mutex_' # Free => wr'[mutex_'].pc = "room")
  BY <1>1, <1>4
<1> QED BY <1>1, <1>3, <1>4, <1>6, <1>8, <1>9, <1>10, <1>11 DEF QueueInv

\* The steps of the writer that leads the queue, or that has left it.
LEMMA WriterStepKeepsQueue ==
    ASSUME QueueInv, NEW w \in Writers, WriterStep(w)
    PROVE  QueueInv'
<1> USE DEF queueVars
<1>1. /\ wr \in [Writers -> Writer] /\ wr[w] \in Writer
      /\ writers_ \in Seq(Writers) /\ Len(writers_) \in Nat /\ group \in Nat
  BY DEF QueueInv
<1>2. ASSUME writers_ # <<>>, wr' = Dequeue(wr, 1, "error") \/ wr' = Dequeue(wr, 1, "ok"),
             writers_' = Tail(writers_), group' = group, mutex_' = Free
      PROVE  QueueInv'
  <2>1. 1 \in 1..Len(writers_)
    BY <1>1, <1>2
  <2>2. writers_' = SubSeq(writers_, 1 + 1, Len(writers_))
    BY <1>1, <1>2, TailIsSubSeq
  <2> QED BY <1>1, <1>2, <2>1, <2>2, DequeueKeepsQueue
<1>3. CASE RoomError(w)
  BY <1>2, <1>3 DEF RoomError, InRoom
<1>4. CASE RoomSlowdown(w)
  <2> DEFINE r == [wr[w] EXCEPT !.delay = FALSE]
  <2>1. r \in Writer /\ r.pc = wr[w].pc /\ wr[w].pc = "room"
    BY <1>1, <1>4 DEF Writer, RoomSlowdown, InRoom
  <2>2. wr' = [wr EXCEPT ![w] = r] /\ writers_' = writers_ /\ group' = group /\ mutex_' = Free
    BY <1>4 DEF RoomSlowdown
  <2> QED BY <2>1, <2>2, OneWriterStep
<1>5. CASE RoomReady(w)
  <2>1. CASE wr[w].op \in NullOps
    BY <1>2, <1>5, <2>1 DEF RoomReady, InRoom
  <2>2. CASE wr[w].op \notin NullOps
    <3> DEFINE r == [wr[w] EXCEPT !.pc = "log"]
    <3>1. r \in Writer /\ r.pc = "log" /\ wr[w].pc = "room"
      BY <1>1, <1>5 DEF Writer, RoomReady, InRoom
    <3>2. /\ wr' = [wr EXCEPT ![w] = r] /\ writers_' = writers_ /\ mutex_' = Free
          /\ group' \in 1..Len(writers_)
      BY <1>5, <2>2 DEF RoomReady
    <3>3. wr' \in [Writers -> Writer] /\ group' \in Nat
      BY <1>1, <3>1, <3>2
    <3>4. \A u \in Writers : /\ wr'[u].pc \in Leading <=> wr[u].pc \in Leading
                             /\ wr'[u].pc = "queue" <=> wr[u].pc = "queue"
      BY <1>1, <3>1, <3>2 DEF Leading
    <3> QED BY <3>2, <3>3, <3>4, SameQueue
  <2> QED BY <2>1, <2>2
<1>6. CASE RoomWait(w)
  <2> DEFINE r == [wr[w] EXCEPT !.pc = "bgwait"]
  <2>1. r \in Writer /\ r.pc = "bgwait" /\ wr[w].pc = "room"
    BY <1>1, <1>6 DEF Writer, RoomWait, InRoom
  <2>2. wr' = [wr EXCEPT ![w] = r] /\ writers_' = writers_ /\ group' = group /\ mutex_' = Free
    BY <1>6 DEF RoomWait
  <2>3. r.pc \in Leading <=> wr[w].pc \in Leading
    BY <2>1 DEF Leading
  <2> QED BY <2>1, <2>2, <2>3, OneWriterStep
<1>7. CASE RoomSwitch(w)
  <2> DEFINE r == [wr[w] EXCEPT !.force = FALSE]
  <2>1. r \in Writer /\ r.pc = wr[w].pc /\ wr[w].pc = "room"
    BY <1>1, <1>7 DEF Writer, RoomSwitch, MustSwitch, InRoom
  <2>2. wr' = [wr EXCEPT ![w] = r] /\ writers_' = writers_ /\ group' = group /\ mutex_' = w
    BY <1>7 DEF RoomSwitch
  <2> QED BY <2>1, <2>2, OneWriterStep
<1>8. CASE RoomSwitchFails(w)
  BY <1>2, <1>8 DEF RoomSwitchFails, MustSwitch, InRoom
<1>9. ASSUME NEW r \in Writer, wr' = [wr EXCEPT ![w] = r],
             wr[w].pc \in {"log", "sync", "insert"}, r.pc \in {"sync", "insert", "publish"},
             writers_' = writers_, group' = group, mutex_' = mutex_
      PROVE  QueueInv'
  <2>1. r.pc \in Leading /\ wr[w].pc \in Leading
    BY <1>9 DEF Leading
  <2> QED BY <1>9, <2>1, OneWriterStep
<1>10. CASE AddRecord(w)
  <2> DEFINE p == IF wr[w].op \in SyncOps THEN "sync" ELSE "insert"
             r == [wr[w] EXCEPT !.pc = p]
  <2>1. r \in Writer /\ r.pc \in {"sync", "insert", "publish"} /\ wr[w].pc = "log"
    BY <1>1, <1>10 DEF Writer, AddRecord, Leads
  <2>2. wr' = [wr EXCEPT ![w] = r] /\ UNCHANGED <<mutex_, writers_, group>>
    BY <1>10 DEF AddRecord
  <2> QED BY <1>9, <2>1, <2>2
<1>11. CASE AddRecordFails(w)
  <2> DEFINE r == [wr[w] EXCEPT !.pc = "publish", !.status = "error"]
  <2>1. r \in Writer /\ r.pc = "publish"
    BY <1>1 DEF Writer
  <2>2. /\ wr' = [wr EXCEPT ![w] = r] /\ UNCHANGED <<mutex_, writers_, group>>
        /\ wr[w].pc = "log"
    BY <1>11 DEF AddRecordFails, Leads
  <2> QED BY <1>9, <2>1, <2>2
<1>12. CASE SyncLog(w)
  <2> DEFINE r == [wr[w] EXCEPT !.pc = "insert"]
  <2>1. r \in Writer /\ r.pc = "insert" /\ wr[w].pc = "sync"
    BY <1>1, <1>12 DEF Writer, SyncLog, Leads
  <2>2. wr' = [wr EXCEPT ![w] = r] /\ UNCHANGED <<mutex_, writers_, group>>
    BY <1>12 DEF SyncLog
  <2> QED BY <1>9, <2>1, <2>2
<1>13. CASE SyncLogFails(w)
  <2> DEFINE r == [wr[w] EXCEPT !.pc = "publish", !.status = "sync_error"]
  <2>1. r \in Writer /\ r.pc = "publish"
    BY <1>1 DEF Writer
  <2>2. /\ wr' = [wr EXCEPT ![w] = r] /\ UNCHANGED <<mutex_, writers_, group>>
        /\ wr[w].pc = "sync"
    BY <1>13 DEF SyncLogFails, Leads
  <2> QED BY <1>9, <2>1, <2>2
<1>14. CASE InsertInto(w)
  <2> DEFINE r == [wr[w] EXCEPT !.pc = "publish"]
  <2>1. r \in Writer /\ r.pc = "publish" /\ wr[w].pc = "insert"
    BY <1>1, <1>14 DEF Writer, InsertInto, Leads
  <2>2. wr' = [wr EXCEPT ![w] = r] /\ UNCHANGED <<mutex_, writers_, group>>
    BY <1>14 DEF InsertInto
  <2> QED BY <1>9, <2>1, <2>2
<1>15. CASE Publish(w)
  <2> DEFINE failed == wr[w].status = "sync_error"
             ws == IF failed /\ ~bg_error_ THEN SignalAll(wr) ELSE wr
             st == IF wr[w].status = "ok" THEN "ok" ELSE "error"
  <2>1. /\ wr' = Dequeue(ws, group, st) /\ st \in {"ok", "error", "sync_error"}
        /\ writers_' = SubSeq(writers_, group + 1, Len(writers_)) /\ group' = 0
        /\ mutex_' = mutex_ /\ mutex_ \in {Free, w} /\ wr[w].pc = "publish"
    BY <1>15 DEF Publish, Leads, Locks
  <2>2. mutex_ = Free
    BY <2>1 DEF QueueInv
  <2>3. group \in 1..Len(writers_)
    BY <2>1 DEF QueueInv
  <2>4. /\ ws \in [Writers -> Writer]
        /\ \A u \in Writers : /\ ws[u].pc \in Leading <=> wr[u].pc \in Leading
                              /\ ws[u].pc = "queue" <=> wr[u].pc = "queue"
                              /\ ws[u].pc \in {"log", "sync", "insert", "publish"}
                                   => wr[u].pc = ws[u].pc
    BY <1>1, SignalKeepsQueue
  <2> HIDE DEF ws, st
  <2> QED BY <2>1, <2>2, <2>3, <2>4, DequeueKeepsQueue
<1>16. ASSUME NEW r \in Writer, wr' = [wr EXCEPT ![w] = r],
              wr[w].pc \in {"done", "flushwait"},
              r.pc \in {"flushwait", "flushblocked", "idle"},
              writers_' = writers_, group' = group, mutex_' = mutex_
      PROVE  QueueInv'
  <2>1. r.pc \notin Leading /\ wr[w].pc \notin Leading
    BY <1>16 DEF Leading
  <2> QED BY <1>16, <2>1, OneWriterStep
<1>17. ASSUME NEW a, Answer(w, a), wr[w].pc \in {"done", "flushwait"},
              UNCHANGED <<mutex_, writers_, group>>
       PROVE  QueueInv'
  <2> DEFINE r == [wr[w] EXCEPT !.pc = "idle", !.op = NoOp]
  <2>1. r \in Writer /\ r.pc = "idle"
    BY <1>1 DEF Writer
  <2>2. wr' = [wr EXCEPT ![w] = r]
    BY <1>17 DEF Answer
  <2> QED BY <1>16, <1>17, <2>1, <2>2
<1>18. CASE Return(w)
  <2>1. wr[w].pc = "done" /\ UNCHANGED <<mutex_, writers_, group>>
    BY <1>18 DEF Return
  <2>2. CASE wr[w].op \in NullOps /\ wr[w].status = "ok"
    <3> DEFINE r == [wr[w] EXCEPT !.pc = "flushwait"]
    <3>1. r \in Writer /\ r.pc = "flushwait" /\ wr' = [wr EXCEPT ![w] = r]
      BY <1>1, <1>18, <2>2 DEF Writer, Return
    <3> QED BY <1>16, <2>1, <3>1
  <2>3. CASE ~(wr[w].op \in NullOps /\ wr[w].status = "ok")
    BY <1>17, <1>18, <2>1, <2>3 DEF Return
  <2> QED BY <2>2, <2>3
<1>19. CASE AwaitFlush(w)
  <2>1. wr[w].pc = "flushwait" /\ UNCHANGED <<mutex_, writers_, group>>
    BY <1>19 DEF AwaitFlush
  <2>2. CASE has_imm_ /\ ~bg_error_
    <3> DEFINE r == [wr[w] EXCEPT !.pc = "flushblocked"]
    <3>1. r \in Writer /\ r.pc = "flushblocked" /\ wr' = [wr EXCEPT ![w] = r]
      BY <1>1, <1>19, <2>2 DEF Writer, AwaitFlush
    <3> QED BY <1>16, <2>1, <3>1
  <2>3. CASE ~(has_imm_ /\ ~bg_error_)
    BY <1>17, <1>19, <2>1, <2>3 DEF AwaitFlush
  <2> QED BY <2>2, <2>3
<1> QED BY <1>3, <1>4, <1>5, <1>6, <1>7, <1>8, <1>10, <1>11, <1>12, <1>13, <1>14,
           <1>15, <1>18, <1>19 DEF WriterStep

\* With an empty queue and every writer idle, as after a crash, there is nothing
\* to keep.
LEMMA EmptyQueue ==
    wr = [w \in Writers |-> [pc |-> "idle", op |-> NoOp, delay |-> FALSE,
                             force |-> FALSE, status |-> "ok"]]
      /\ writers_ = <<>> /\ group = 0 /\ mutex_ = Free
    => QueueInv
<1> SUFFICES ASSUME wr = [w \in Writers |->
                            [pc |-> "idle", op |-> NoOp, delay |-> FALSE,
                             force |-> FALSE, status |-> "ok"]],
                    writers_ = <<>>, group = 0, mutex_ = Free
             PROVE  QueueInv
  OBVIOUS
<1>1. wr \in [Writers -> Writer] /\ \A w \in Writers : wr[w].pc = "idle"
  BY DEF Writer
<1>2. writers_ \in Seq(Writers) /\ Len(writers_) = 0
  OBVIOUS
<1>3. \A w \in Writers : wr[w].pc \notin Leading /\ wr[w].pc # "queue"
  BY <1>1 DEF Leading
<1>4. \A i, j \in 1..Len(writers_) : writers_[i] = writers_[j] => i = j
  BY <1>2
<1>5. \A w \in Writers : ~ \E i \in 2..Len(writers_) : writers_[i] = w
  BY <1>2
<1> QED BY <1>1, <1>2, <1>3, <1>4, <1>5 DEF QueueInv

LEMMA BackgroundKeepsQueue ==
    ASSUME QueueInv, BackgroundStep
    PROVE  QueueInv'
<1>1. ASSUME UNCHANGED queueVars
      PROVE  QueueInv'
  BY <1>1 DEF queueVars, QueueInv
<1>2. ASSUME wr' = SignalAll(wr), UNCHANGED <<mutex_, writers_, group>>, Running
      PROVE  QueueInv'
  BY <1>2, SignalStep DEF Running
<1>3. CASE BackgroundNothing
  BY <1>2, <1>3 DEF BackgroundNothing, EndBackgroundCall
<1>4. CASE StartFlush
  BY <1>1, <1>4 DEF StartFlush
<1>5. CASE FlushTableBuilt
  BY <1>1, <1>5 DEF FlushTableBuilt
<1>6. CASE ManifestWritten
  BY <1>1, <1>6 DEF ManifestWritten
<1>7. CASE FlushInstalled
  BY <1>2, <1>7 DEF FlushInstalled, EndBackgroundCall
<1>8. CASE StartMerge
  BY <1>1, <1>8 DEF StartMerge
<1>9. CASE OpenOutput
  BY <1>1, <1>9 DEF OpenOutput
<1>10. CASE MergeDone
  BY <1>1, <1>10 DEF MergeDone
<1>11. CASE MergeInstalled
  BY <1>2, <1>11 DEF MergeInstalled, EndBackgroundCall
<1>12. CASE BackgroundFails
  BY <1>2, <1>12 DEF BackgroundFails, EndBackgroundCall
<1> QED BY <1>3, <1>4, <1>5, <1>6, <1>7, <1>8, <1>9, <1>10, <1>11, <1>12
        DEF BackgroundStep

\* Every step of the system keeps the invariant of the queue.
LEMMA QueueStep ==
    ASSUME QueueInv, [Next]_vars
    PROVE  QueueInv'
<1>1. ASSUME UNCHANGED queueVars
      PROVE  QueueInv'
  BY <1>1 DEF queueVars, QueueInv
<1>2. ASSUME Forget
      PROVE  QueueInv'
  <2>1. (wr = [w \in Writers |-> [pc |-> "idle", op |-> NoOp, delay |-> FALSE,
                                  force |-> FALSE, status |-> "ok"]]
           /\ writers_ = <<>> /\ group = 0 /\ mutex_ = Free
         => QueueInv)'
    BY EmptyQueue, PTL
  <2> QED BY <1>2, <2>1 DEF Forget
<1>3. CASE UNCHANGED vars
  BY <1>1, <1>3 DEF vars
<1>4. ASSUME NEW w \in Writers, NEW op \in Ops, Write(w, op)
      PROVE  QueueInv'
  BY <1>4, WriteKeepsQueue
<1>5. ASSUME NEW w \in Writers, WriterStep(w)
      PROVE  QueueInv'
  BY <1>5, WriterStepKeepsQueue
<1>6. CASE BackgroundStep
  BY <1>6, BackgroundKeepsQueue
<1>7. CASE SuspendCompaction \/ ResumeCompaction \/ Close
  BY <1>1, <1>7 DEF SuspendCompaction, ResumeCompaction, Close
<1>8. CASE Closed \/ ProcessCrash \/ MachineCrash
  BY <1>2, <1>8 DEF Closed, ProcessCrash, MachineCrash
<1>9. CASE OpenStep
  BY <1>1, <1>9 DEF OpenStep, OpenRecover, OpenCorrupt, OpenApply, OpenFinish
<1> QED BY <1>3, <1>4, <1>5, <1>6, <1>7, <1>8, <1>9 DEF Next

THEOREM QueueInvariant == Spec => []QueueInv
<1>1. Init => QueueInv
  BY EmptyQueue DEF Init
<1>2. QueueInv /\ [Next]_vars => QueueInv'
  BY QueueStep
<1> QED BY <1>1, <1>2, PTL DEF Spec

\* Whatever the number of writers and however their calls, the background thread,
\* suspensions, failures, crashes and reopens interleave: exactly one call leads a
\* non-empty queue, and every blocked call is behind it.
THEOREM OneLeaderAlways == Spec => []OneLeader
<1>1. QueueInv => OneLeader
  BY DEF QueueInv, OneLeader
<1> QED BY <1>1, QueueInvariant, PTL

----------------------------------------------------------------------------
(* As long as no file operation fails and the machine does not crash, no   *)
(* acknowledged write is ever lost, however the threads interleave and     *)
(* wherever the process dies.                                              *)

----------------------------------------------------------------------------
(* The entries of the group that is being written.                         *)

\* The group stays what it is while its writers stay where they are in the queue.
LEMMA GroupSame ==
    ASSUME group' = group, lastSequence' = lastSequence,
           \A i \in 1..group : /\ writers_'[i] = writers_[i]
                               /\ wr'[writers_[i]].op = wr[writers_[i]].op,
           group \in Nat
    PROVE  GroupEntries' = GroupEntries
<1>1. ASSUME NEW i \in 1..group
      PROVE  /\ {j \in 1..i : wr'[writers_'[j]].op \notin NullOps}
                  = {j \in 1..i : wr[writers_[j]].op \notin NullOps}
             /\ wr'[writers_'[i]].op = wr[writers_[i]].op
  OBVIOUS
<1>2. \A i \in 1..group : Count(i)' = Count(i)
  BY <1>1 DEF Count
<1>3. {j \in 1..group' : wr'[writers_'[j]].op \notin NullOps}
        = {j \in 1..group : wr[writers_[j]].op \notin NullOps}
  OBVIOUS
<1> QED BY <1>1, <1>2, <1>3 DEF GroupEntries

\* ... which is so for every step that leaves the queue and the calls in it alone.
LEMMA QueueSame ==
    ASSUME QueueInv, writers_' = writers_, group' = group, lastSequence' = lastSequence,
           \A w \in Writers : /\ wr'[w].op = wr[w].op
                              /\ \A p \in {"sync", "insert", "publish"} :
                                   wr'[w].pc = p <=> wr[w].pc = p
    PROVE  /\ \A w \in Writers : wr[w].pc \in {"sync", "insert", "publish"}
                => GroupEntries' = GroupEntries
           /\ InFlight' = InFlight
<1>1. ASSUME NEW w \in Writers, wr[w].pc \in {"sync", "insert", "publish"}
      PROVE  GroupEntries' = GroupEntries
  <2>1. group \in Nat /\ \A i \in 1..group : writers_[i] \in Writers
    BY <1>1 DEF QueueInv
  <2> QED BY <2>1, GroupSame
<1>2. writers_ # <<>> => Head(writers_) \in Writers
  BY DEF QueueInv
<1>3. CASE writers_ # <<>> /\ wr[Head(writers_)].pc \in {"sync", "insert"}
  BY <1>1, <1>2, <1>3 DEF InFlight
<1>4. CASE ~(writers_ # <<>> /\ wr[Head(writers_)].pc \in {"sync", "insert"})
  <2>1. ASSUME writers_' # <<>>, wr'[Head(writers_')].pc \in {"sync", "insert"}
        PROVE  FALSE
    <3> DEFINE h == Head(writers_)
    <3>1. h \in Writers /\ wr'[h].pc \in {"sync", "insert"}
      BY <1>2, <2>1
    <3> HIDE DEF h
    <3>2. wr[h].pc \in {"sync", "insert"}
      BY <3>1
    <3> QED BY <3>2, <1>4, <2>1 DEF h
  <2>2. InFlight = {}
    BY <1>4 DEF InFlight
  <2>3. InFlight' = {}
    BY <2>1 DEF InFlight
  <2> QED BY <1>1, <2>2, <2>3
<1> QED BY <1>3, <1>4

\* What was answered, or will be, stays true while the files keep what they hold.
LEMMA AnsweredSame ==
    ASSUME QueueInv, AnsweredInv, OpsOf(OnDisk) \subseteq OpsOf(OnDisk)',
           acked' = acked, writers_' = writers_, group' = group,
           lastSequence' = lastSequence,
           \A w \in Writers :
             /\ wr'[w].op = wr[w].op /\ wr'[w].status = wr[w].status
             /\ \A p \in {"sync", "insert", "publish", "done"} :
                  wr'[w].pc = p <=> wr[w].pc = p
             /\ wr'[w].pc \in {"flushwait", "flushblocked"}
                  => wr[w].pc \in {"flushwait", "flushblocked"}
    PROVE  AnsweredInv'
<1>1. \A w \in Writers : wr[w].pc \in {"sync", "insert", "publish"}
                           => GroupEntries' = GroupEntries
  BY QueueSame
<1>3. acked' \subseteq OpsOf(OnDisk)'
  BY DEF AnsweredInv
<1>4. ASSUME NEW w \in Writers
      PROVE  /\ wr'[w].pc = "done" /\ wr'[w].status = "ok" =>
                  wr'[w].op \in OpsOf(OnDisk)' \cup NullOps
             /\ wr'[w].pc \in {"flushwait", "flushblocked"} => wr'[w].op \in NullOps
  BY DEF AnsweredInv
<1>5. ASSUME NEW w \in Writers,
             \/ wr'[w].pc \in {"sync", "insert"}
             \/ wr'[w].pc = "publish" /\ wr'[w].status = "ok"
      PROVE  OpsOf(GroupEntries)' \subseteq OpsOf(OnDisk)'
  <2>1. OpsOf(GroupEntries) \subseteq OpsOf(OnDisk) /\ GroupEntries' = GroupEntries
    BY <1>1, <1>5 DEF AnsweredInv
  <2> QED BY <2>1 DEF OpsOf
<1> QED BY <1>3, <1>4, <1>5 DEF AnsweredInv

----------------------------------------------------------------------------
(* What recovery would find.                                               *)

\* A step of the background thread, or a signal, that touches no file and no
\* memtable.
LEMMA BackgroundFrame ==
    ASSUME QueueInv, LogInv, Working, phase' = phase,
           UNCHANGED <<memVars, lastSequence, logNumber, walVars, manVars, faults, acked>>,
           UNCHANGED <<mutex_, writers_, group>>,
           wr' = wr \/ wr' = SignalAll(wr),
           nextFile' \in Nat, nextFile' >= nextFile, edit'.next \in Nat, FlushInv'
    PROVE  LogInv'
<1> USE DEF memVars, walVars, manVars
<1>1. Working' /\ phase' \notin {"closed", "corrupt", "recovered", "applied"}
  BY DEF Working
<1>2. \A w \in Writers :
        /\ wr'[w].op = wr[w].op /\ wr'[w].status = wr[w].status
        /\ \A p \in {"sync", "insert", "publish", "done"} : wr'[w].pc = p <=> wr[w].pc = p
        /\ wr'[w].pc \in {"flushwait", "flushblocked"}
             => wr[w].pc \in {"flushwait", "flushblocked"}
  <2>1. CASE wr' = wr
    BY <2>1
  <2>2. CASE wr' = SignalAll(wr)
    BY <2>2 DEF SignalAll, QueueInv, Writer
  <2> QED BY <2>1, <2>2
<1>3. AnsweredInv'
  <2>1. OnDisk' = OnDisk
    BY DEF OnDisk, Held, Contents, Content
  <2>2. OpsOf(OnDisk) \subseteq OpsOf(OnDisk)'
    BY <2>1 DEF OpsOf
  <2> QED BY <1>2, <2>2, AnsweredSame DEF LogInv
<1>4. InFlight' = InFlight
  BY <1>2, QueueSame
<1>5. \A e \in wal' : e.file >= manifest'.log => LogCovered(e)'
  <2> SUFFICES ASSUME NEW e \in wal, e.file >= manifest.log PROVE LogCovered(e)'
    OBVIOUS
  <2>1. LogCovered(e) /\ phase \notin {"recovered", "applied"}
    BY <1>1 DEF LogInv
  <2> QED BY <1>1, <1>4, <2>1 DEF LogCovered, Content
<1>6. NumbersInv'
  BY <1>1 DEF LogInv, NumbersInv
<1> QED BY <1>3, <1>5, <1>6 DEF LogInv

----------------------------------------------------------------------------
(* The steps of the background thread.                                     *)

\* FlushInv when no edit is under way after the step.
LEMMA FlushQuiet ==
    ASSUME FlushInv, Working, phase' = phase, UNCHANGED <<memVars, logNumber, manVars>>,
           bg' \in Background, bg.pc # "flushinstall",
           \/ bg'.pc \in {"idle", "queued", "merge"}
           \/ bg'.pc = "table" /\ has_imm_
    PROVE  FlushInv'
BY DEF FlushInv, memVars, manVars, Working

LEMMA EndOfCall ==
    ASSUME NEW ws, NEW hasImm, NEW files, NEW error,
           EndBackgroundCall(ws, hasImm, files, error)
    PROVE  bg' \in Background /\ bg'.pc \in {"idle", "queued"} /\ wr' = SignalAll(ws)
BY DEF EndBackgroundCall, Background

LEMMA QuietBackgroundStep ==
    ASSUME QueueInv, LogInv, MaxFaults = 0,
           \/ BackgroundNothing \/ StartFlush \/ FlushTableBuilt \/ StartMerge
           \/ OpenOutput \/ MergeDone \/ BackgroundFails
    PROVE  LogInv'
<1>1. /\ FlushInv /\ bg \in Background /\ nextFile \in Nat /\ edit.next \in Nat
      /\ (Working /\ bg.pc # "flushinstall" => logNumber = manifest.log)
      /\ (~has_imm_ => imm_ = {})
  BY DEF LogInv, FlushInv, NumbersInv
<1>2. CASE BackgroundNothing
  <2>1. FlushInv'
    BY <1>1, <1>2, EndOfCall, FlushQuiet DEF BackgroundNothing, Running, verVars, flagVars
  <2>2. wr' = SignalAll(wr)
    BY <1>2 DEF BackgroundNothing, EndBackgroundCall
  <2> QED BY <1>1, <1>2, <2>1, <2>2, BackgroundFrame
          DEF BackgroundNothing, Running, verVars, flagVars, histVars, budgets
<1>3. CASE StartFlush
  <2>1. bg' \in Background /\ bg'.pc = "table" /\ has_imm_ /\ bg.pc # "flushinstall"
    BY <1>1, <1>3 DEF StartFlush, Background
  <2>2. FlushInv'
    BY <1>1, <1>3, <2>1, FlushQuiet DEF StartFlush, Running, flagVars
  <2> QED BY <1>1, <1>3, <2>2, BackgroundFrame
          DEF StartFlush, Running, flagVars, histVars, budgets, queueVars
<1>4. CASE FlushTableBuilt
  <2>1. bg' \in Background /\ bg'.pc = "flushlog" /\ has_imm_
    BY <1>1, <1>4 DEF FlushTableBuilt, Background, FlushInv
  <2>2. /\ edit'.log = logfile_number_ /\ edit'.added = imm_ /\ edit'.next = nextFile
    BY <1>4 DEF FlushTableBuilt, Edit
  <2>3. FlushInv'
    BY <1>1, <1>4, <2>1, <2>2
       DEF FlushTableBuilt, FlushInv, Running, Working, memVars, verVars, flagVars, manVars,
           queueVars
  <2> QED BY <1>1, <1>4, <2>2, <2>3, BackgroundFrame
          DEF FlushTableBuilt, Running, verVars, flagVars, histVars, budgets, queueVars
<1>5. CASE StartMerge
  <2>1. CASE /\ \E k \in 1..l0 : bg' = [pc |-> "merge", merging |-> TRUE, inputs |-> k,
                                       outputs |-> 0]
             /\ UNCHANGED edit
    <3>1. bg' \in Background /\ bg'.pc = "merge" /\ bg.pc = "queued"
      BY <1>5, <2>1 DEF StartMerge, Background
    <3>2. FlushInv'
      BY <1>1, <1>5, <3>1, FlushQuiet DEF StartMerge, Running, verVars, flagVars
    <3> QED BY <1>1, <1>5, <2>1, <3>2, BackgroundFrame
            DEF StartMerge, Running, verVars, flagVars, histVars, budgets, queueVars
  <2>2. CASE /\ bg' = [pc |-> "mergelog", merging |-> FALSE, inputs |-> 1, outputs |-> 0]
             /\ edit' = Edit(logNumber, lastSequence, nextFile, {}, 0, 1)
    <3>1. /\ bg' \in Background /\ bg'.pc = "mergelog" /\ edit'.log = logNumber /\ edit'.next = nextFile
          /\ bg.pc = "queued"
      BY <1>1, <1>5, <2>2 DEF StartMerge, Background, Edit
    <3>2. FlushInv'
      BY <1>1, <1>5, <3>1
         DEF StartMerge, FlushInv, Running, Working, memVars, verVars, flagVars, manVars,
             queueVars
    <3> QED BY <1>1, <1>5, <3>1, <3>2, BackgroundFrame
            DEF StartMerge, Running, verVars, flagVars, histVars, budgets, queueVars
  <2> QED BY <1>5, <2>1, <2>2 DEF StartMerge
<1>6. CASE OpenOutput
  <2>1. bg' \in Background /\ bg'.pc = "merge" /\ bg.pc = "merge"
    BY <1>1, <1>6 DEF OpenOutput, Background
  <2>2. FlushInv'
    BY <1>1, <1>6, <2>1, FlushQuiet DEF OpenOutput, Running, flagVars
  <2> QED BY <1>1, <1>6, <2>2, BackgroundFrame
          DEF OpenOutput, Running, flagVars, histVars, budgets, queueVars
<1>7. CASE MergeDone
  <2>1. /\ bg' \in Background /\ bg'.pc = "mergelog" /\ bg.pc = "merge"
        /\ edit'.log = logNumber /\ edit'.next = nextFile
    BY <1>1, <1>7 DEF MergeDone, Background, Edit
  <2>2. FlushInv'
    BY <1>1, <1>7, <2>1
       DEF MergeDone, FlushInv, Running, Working, memVars, verVars, flagVars, manVars,
           queueVars
  <2> QED BY <1>1, <1>7, <2>1, <2>2, BackgroundFrame
          DEF MergeDone, Running, verVars, flagVars, histVars, budgets, queueVars
<1>8. CASE BackgroundFails
  <2>1. faults = 0 /\ ~(faults < MaxFaults)
    BY DEF LogInv
  <2>2. bg.pc \in {"table", "merge"} /\ UNCHANGED manVars /\ faults' = faults
    BY <1>8, <2>1 DEF BackgroundFails
  <2>3. bg' \in Background /\ bg'.pc \in {"idle", "queued", "merge"} /\ wr' = SignalAll(wr)
    BY <1>1, <1>8, EndOfCall DEF BackgroundFails, Background
  <2>4. FlushInv'
    BY <1>1, <1>8, <2>2, <2>3, FlushQuiet DEF BackgroundFails, Running, verVars
  <2> QED BY <1>1, <1>8, <2>2, <2>3, <2>4, BackgroundFrame
          DEF BackgroundFails, Running, verVars, flagVars, histVars, budgets
<1> QED BY <1>2, <1>3, <1>4, <1>5, <1>6, <1>7, <1>8

\* A new MANIFEST record that covers every log it makes obsolete loses nothing.
LEMMA OnDiskGrows ==
    ASSUME NEW added, NEW log, UNCHANGED wal,
           manifest'.tables = manifest.tables \cup added, manifest'.log = log,
           \A e \in wal : e.file >= manifest.log =>
             e.file >= log \/ Content(e) \in manifest.tables \cup added
    PROVE  OpsOf(OnDisk) \subseteq OpsOf(OnDisk)'
<1>1. ASSUME NEW x \in OnDisk
      PROVE  x \in OnDisk'
  <2>1. CASE x \in manifest.tables
    BY <2>1 DEF OnDisk, Held
  <2>2. CASE \E e \in wal : e.file >= manifest.log /\ x = Content(e)
    BY <2>2 DEF OnDisk, Held, Contents, Content
  <2> QED BY <1>1, <2>1, <2>2 DEF OnDisk, Held, Contents
<1> QED BY <1>1 DEF OpsOf

LEMMA ManifestWrittenStep ==
    ASSUME QueueInv, LogInv, ManifestWritten
    PROVE  LogInv'
<1> USE DEF memVars, verVars, flagVars, queueVars, walVars, histVars, budgets
<1>1. /\ Working /\ Working' /\ phase' = phase
      /\ phase \notin {"closed", "corrupt", "recovered", "applied"}
      /\ manifest' = Apply(manifest, edit) /\ manifestTorn' = "no" /\ edit' = edit
      /\ UNCHANGED <<queueVars, memVars, verVars, walVars, faults, acked>>
      /\ FlushInv /\ NumbersInv /\ torn = {} /\ faults = 0
  BY DEF ManifestWritten, Working, LogInv
<1>2. /\ manifest'.log = edit.log /\ manifest'.tables = manifest.tables \cup edit.added
      /\ manifest.log \in Nat /\ manifest'.next \in Nat /\ edit'.next \in Nat
  BY <1>1 DEF Apply, NumbersInv
<1>3. \/ bg.pc = "flushlog" /\ bg'.pc = "flushinstall"
      \/ bg.pc = "mergelog" /\ bg'.pc = "mergeinstall"
  BY <1>1 DEF ManifestWritten, FlushInv, Background
<1>4. bg' \in Background
  BY <1>1 DEF ManifestWritten, FlushInv, Background
<1>5. /\ bg.pc = "flushlog" => /\ edit.log = logfile_number_ /\ imm_ \subseteq edit.added
                               /\ has_imm_
      /\ bg.pc = "mergelog" => edit.log = manifest.log
      /\ logNumber = manifest.log
  BY <1>1, <1>3 DEF FlushInv
<1>6. edit.log \in Nat /\ manifest.log <= edit.log /\ edit.log <= logfile_number_
  BY <1>1, <1>3, <1>5 DEF NumbersInv
<1>7. \A e \in wal : e.file \in Nat /\ (e.file >= manifest.log => LogCovered(e))
  BY <1>1 DEF LogInv, NumbersInv
<1>8. InFlight' = InFlight
  BY <1>1, QueueSame
<1>9. AnsweredInv'
  <2>1. ASSUME NEW e \in wal, e.file >= manifest.log
        PROVE  e.file >= edit.log \/ Content(e) \in manifest.tables \cup edit.added
    <3>1. LogCovered(e)
      BY <1>7, <2>1
    <3>2. e.file \in Nat
      BY <1>7
    <3> QED BY <1>1, <1>3, <1>5, <1>6, <2>1, <3>1, <3>2 DEF LogCovered
  <2>2. OpsOf(OnDisk) \subseteq OpsOf(OnDisk)'
    BY <1>1, <1>2, <2>1, OnDiskGrows
  <2> QED BY <1>1, <2>2, AnsweredSame DEF LogInv
<1>10. \A e \in wal' : e.file >= manifest'.log => LogCovered(e)'
  <2> SUFFICES ASSUME NEW e \in wal, e.file >= edit.log PROVE LogCovered(e)'
    BY <1>1, <1>2
  <2>1. LogCovered(e)
    <3>1. e.file \in Nat /\ e.file >= manifest.log
      BY <1>2, <1>6, <1>7
    <3> QED BY <1>7, <3>1
  <2> QED BY <1>1, <1>2, <1>8, <2>1 DEF LogCovered, Content
<1>11. NumbersInv'
  BY <1>1, <1>2, <1>6 DEF NumbersInv
<1>12. FlushInv'
  <2>1. ~Working' => bg'.pc = "idle" /\ ~has_imm_' /\ writers_' = <<>>
    BY <1>1
  <2>2. CASE bg.pc = "flushlog"
    BY <1>1, <1>2, <1>3, <1>4, <1>5, <2>1, <2>2 DEF FlushInv
  <2>3. CASE bg.pc = "mergelog"
    BY <1>1, <1>2, <1>3, <1>4, <1>5, <2>1, <2>3 DEF FlushInv
  <2> QED BY <1>3, <2>2, <2>3
<1> QED BY <1>1, <1>9, <1>10, <1>11, <1>12 DEF LogInv

\* Deleting logs below the log number of the MANIFEST takes nothing from recovery.
LEMMA OnDiskKept ==
    ASSUME manifest' = manifest,
           wal' = wal \/ wal' = {e \in wal : e.file >= manifest.log}
    PROVE  OpsOf(OnDisk) \subseteq OpsOf(OnDisk)'
<1>1. {e \in wal' : e.file >= manifest'.log} = {e \in wal : e.file >= manifest.log}
  OBVIOUS
<1>2. OnDisk' = OnDisk
  BY <1>1 DEF OnDisk, Held, Contents, Content
<1> QED BY <1>2 DEF OpsOf

LEMMA InstalledStep ==
    ASSUME QueueInv, LogInv, FlushInstalled \/ MergeInstalled
    PROVE  LogInv'
<1> USE DEF verVars, flagVars, queueVars, histVars, budgets, manVars
<1>1. /\ Working /\ Working' /\ phase' = phase
      /\ phase \notin {"closed", "corrupt", "recovered", "applied"}
      /\ UNCHANGED <<mutex_, writers_, group, mem_, logfile_number_, lastSequence, nextFile,
                     manifest, manifestTorn, edit, faults, acked>>
      /\ FlushInv /\ NumbersInv /\ torn = {} /\ manifestTorn = "no" /\ faults = 0
  BY DEF FlushInstalled, MergeInstalled, Running, Working, LogInv, memVars
<1>2. /\ edit.log = manifest.log /\ logNumber' = manifest.log
      /\ bg.pc = "flushinstall" => imm_ \subseteq manifest.tables
  BY <1>1 DEF FlushInstalled, MergeInstalled, InstallEdit, FlushInv
<1>3. /\ bg' \in Background /\ bg'.pc \in {"idle", "queued", "merge"}
      /\ wr' = SignalAll(wr)
  <2>1. CASE FlushInstalled /\ bg.merging
    <3>1. bg' = [bg EXCEPT !.pc = "merge"] /\ wr' = SignalAll(wr)
      BY <2>1 DEF FlushInstalled
    <3> QED BY <1>1, <3>1 DEF FlushInv, Background
  <2>2. CASE FlushInstalled /\ ~bg.merging
    <3>1. EndBackgroundCall(wr, FALSE, l0', bg_error_)
      BY <2>2 DEF FlushInstalled
    <3> QED BY <3>1, EndOfCall
  <2>3. CASE MergeInstalled
    <3>1. EndBackgroundCall(wr, has_imm_, l0', bg_error_)
      BY <2>3 DEF MergeInstalled
    <3> QED BY <3>1, EndOfCall
  <2> QED BY <2>1, <2>2, <2>3
<1>4. \/ UNCHANGED walVars
      \/ /\ wal' = {e \in wal : e.file >= manifest.log}
         /\ walFiles' = {f \in walFiles : f >= manifest.log}
         /\ torn' = {t \in torn : t.file >= manifest.log}
  BY <1>2 DEF FlushInstalled, MergeInstalled, DeleteObsoleteLogs
<1>5. /\ ~has_imm_' => imm_' = {}
      /\ imm_' = imm_ \/ imm_ \subseteq manifest.tables
  BY <1>1, <1>2 DEF FlushInstalled, MergeInstalled, FlushInv, memVars
<1>6. \A w \in Writers :
        /\ wr'[w].op = wr[w].op /\ wr'[w].status = wr[w].status
        /\ \A p \in {"sync", "insert", "publish", "done"} : wr'[w].pc = p <=> wr[w].pc = p
        /\ wr'[w].pc \in {"flushwait", "flushblocked"}
             => wr[w].pc \in {"flushwait", "flushblocked"}
  BY <1>3 DEF SignalAll, QueueInv, Writer
<1>7. InFlight' = InFlight
  BY <1>1, <1>6, QueueSame
<1>8. AnsweredInv'
  <2>1. wal' = wal \/ wal' = {e \in wal : e.file >= manifest.log}
    BY <1>4 DEF walVars
  <2>2. OpsOf(OnDisk) \subseteq OpsOf(OnDisk)'
    BY <1>1, <2>1, OnDiskKept
  <2> QED BY <1>1, <1>6, <2>2, AnsweredSame DEF LogInv
<1>9. \A e \in wal' : e.file >= manifest'.log => LogCovered(e)'
  <2> SUFFICES ASSUME NEW e \in wal, e.file >= manifest.log PROVE LogCovered(e)'
    BY <1>1, <1>4 DEF walVars
  <2>1. LogCovered(e)
    BY <1>1 DEF LogInv
  <2> QED BY <1>1, <1>5, <1>7, <2>1 DEF LogCovered, Content
<1>10. NumbersInv'
  BY <1>1, <1>4 DEF NumbersInv, walVars
<1>11. FlushInv'
  BY <1>1, <1>2, <1>3, <1>5 DEF FlushInv
<1>12. torn' = {} /\ manifestTorn' = "no" /\ faults' = 0
  BY <1>1, <1>4 DEF walVars
<1> QED BY <1>1, <1>8, <1>9, <1>10, <1>11, <1>12 DEF LogInv

----------------------------------------------------------------------------
(* The steps of the writers.                                               *)

\* A step of a call: it may write to the log and to the memtable.
LEMMA EngineSame ==
    ASSUME LogInv, phase = "open",
           UNCHANGED <<phase, imm_, has_imm_, logfile_number_, nextFile, logNumber, bgVars,
                       walFiles, torn, manVars, faults>>,
           mem_ \cup InFlight \subseteq mem_' \cup InFlight',
           \A e \in wal' : \/ e \in wal
                          \/ /\ e.file = logfile_number_
                             /\ Content(e) \in mem_' \cup InFlight',
           AnsweredInv'
    PROVE  LogInv'
<1> USE DEF bgVars, manVars
<1>1. Working /\ Working' /\ phase' = phase
  BY DEF Working
<1>2. FlushInv'
  BY <1>1 DEF LogInv, FlushInv
<1>3. NumbersInv'
  BY <1>1 DEF LogInv, NumbersInv
<1>4. \A e \in wal' : e.file >= manifest'.log => LogCovered(e)'
  <2> SUFFICES ASSUME NEW e \in wal', e.file >= manifest.log PROVE LogCovered(e)'
    OBVIOUS
  <2>1. CASE e \in wal
    <3>1. LogCovered(e)
      BY <1>1, <2>1 DEF LogInv
    <3> QED BY <1>1, <3>1 DEF LogCovered, Content
  <2>2. CASE e.file = logfile_number_ /\ Content(e) \in mem_' \cup InFlight'
    BY <1>1, <2>2 DEF LogCovered, Content
  <2> QED BY <2>1, <2>2
<1> QED BY <1>1, <1>2, <1>3, <1>4 DEF LogInv

\* What has to be shown of the answers when nobody is writing after the step.
LEMMA NobodyWrites ==
    ASSUME AnsweredInv, OpsOf(OnDisk) \subseteq OpsOf(OnDisk)',
           acked' \subseteq OpsOf(OnDisk),
           \A w \in Writers :
             /\ wr'[w].pc \notin {"sync", "insert", "publish"}
             /\ wr'[w].pc = "done" /\ wr'[w].status = "ok" =>
                  wr'[w].op \in OpsOf(OnDisk) \cup NullOps
             /\ wr'[w].pc \in {"flushwait", "flushblocked"} => wr'[w].op \in NullOps
    PROVE  AnsweredInv'
BY DEF AnsweredInv

LEMMA OneWrites ==
    ASSUME QueueInv, NEW w \in Writers, wr[w].pc \in Leading
    PROVE  /\ writers_ # <<>> /\ Head(writers_) = w /\ writers_[1] = w
           /\ \A u \in Writers : u # w =>
                wr[u].pc \notin {"room", "log", "sync", "insert", "publish"}
<1>1. writers_ # <<>> /\ Head(writers_) = w /\ writers_ \in Seq(Writers)
  BY DEF QueueInv
<1>2. \A u \in Writers : u # w => wr[u].pc \notin Leading
  BY <1>1 DEF QueueInv
<1> QED BY <1>1, <1>2 DEF Leading

LEMMA RoomStep ==
    ASSUME QueueInv, LogInv, MaxFaults = 0, NEW w \in Writers,
           \/ RoomError(w) \/ RoomSlowdown(w) \/ RoomReady(w) \/ RoomWait(w)
           \/ RoomSwitchFails(w)
    PROVE  LogInv'
<1>1. /\ InRoom(w) /\ UNCHANGED engineVars /\ acked' = acked /\ faults' = faults
      /\ faults = 0 /\ ~RoomSwitchFails(w) /\ phase = "open" /\ wr[w].pc = "room"
      /\ AnsweredInv
  BY DEF RoomError, RoomSlowdown, RoomReady, RoomWait, RoomSwitchFails, histVars,
         budgets, LogInv, InRoom
<1>2. /\ writers_[1] = w /\ Head(writers_) = w /\ wr \in [Writers -> Writer]
      /\ \A u \in Writers : wr[u].pc \notin {"log", "sync", "insert", "publish"}
      /\ \A u \in Writers : u # w => wr[u].pc # "room"
  BY <1>1, OneWrites DEF Leading, QueueInv
<1>3. InFlight = {}
  BY <1>1, <1>2 DEF InFlight
<1>4. OpsOf(OnDisk) \subseteq OpsOf(OnDisk)'
  <2>1. OnDisk' = OnDisk
    BY <1>1 DEF OnDisk, Held, Contents, Content, engineVars, walVars, manVars
  <2> QED BY <2>1 DEF OpsOf
<1>5. ASSUME NEW st \in {"ok", "error"}, wr' = Dequeue(wr, 1, st),
             st = "ok" => wr[w].op \in NullOps
      PROVE  AnsweredInv'
  <2>1. ASSUME NEW u \in Writers
        PROVE  /\ wr'[u].op = wr[u].op
               /\ u = w => wr'[u].pc = "done" /\ wr'[u].status = st
               /\ u # w => /\ wr'[u].status = wr[u].status
                           /\ wr'[u].pc \in {"room", wr[u].pc}
    <3> st \in {"ok", "error", "sync_error"}
      OBVIOUS
    <3>1. LET d == Dequeue(wr, 1, st)[u]
          IN  /\ d.op = wr[u].op
              /\ u \in {writers_[i] : i \in 1..1} => d.pc = "done" /\ d.status = st
              /\ u \notin {writers_[i] : i \in 1..1} =>
                   /\ d.status = wr[u].status
                   /\ d.pc = IF u \in {writers_[i] : i \in {1 + 1} \cap 1..Len(writers_)}
                             THEN "room" ELSE wr[u].pc
      <4>1. wr \in [Writers -> Writer] /\ st \in {"ok", "error", "sync_error"}
        BY <1>2
      <4> QED BY ONLY <4>1, DequeueEffect, u \in Writers
    <3>2. u \in {writers_[i] : i \in 1..1} <=> u = w
      BY <1>2
    <3> QED BY <1>5, <3>1, <3>2
  <2>2. ASSUME NEW u \in Writers
        PROVE  /\ wr'[u].pc \notin {"sync", "insert", "publish"}
               /\ wr'[u].pc = "done" /\ wr'[u].status = "ok" =>
                    wr'[u].op \in OpsOf(OnDisk) \cup NullOps
               /\ wr'[u].pc \in {"flushwait", "flushblocked"} => wr'[u].op \in NullOps
    <3>1. CASE u = w
      BY <1>5, <2>1, <3>1
    <3>2. CASE u # w
      BY <1>1, <1>2, <2>1, <3>2 DEF AnsweredInv
    <3> QED BY <3>1, <3>2
  <2> QED BY <1>1, <1>4, <2>2, NobodyWrites DEF AnsweredInv
<1>6. ASSUME NEW r \in Writer, wr' = [wr EXCEPT ![w] = r],
             r.pc \in {"room", "log", "bgwait"}
      PROVE  AnsweredInv'
  <2>1. ASSUME NEW u \in Writers
        PROVE  /\ wr'[u].pc \notin {"sync", "insert", "publish"}
               /\ wr'[u].pc = "done" /\ wr'[u].status = "ok" =>
                    wr'[u].op \in OpsOf(OnDisk) \cup NullOps
               /\ wr'[u].pc \in {"flushwait", "flushblocked"} => wr'[u].op \in NullOps
    <3>1. CASE u = w
      BY <1>2, <1>6, <3>1
    <3>2. CASE u # w
      <4>1. wr'[u] = wr[u]
        BY <1>2, <1>6, <3>2
      <4> QED BY <1>1, <1>2, <4>1 DEF AnsweredInv
    <3> QED BY <3>1, <3>2
  <2> QED BY <1>1, <1>4, <2>1, NobodyWrites DEF AnsweredInv
<1>7. AnsweredInv'
  <2>0. wr[w] \in Writer
    BY <1>2
  <2>1. CASE RoomError(w)
    BY <1>5, <2>1 DEF RoomError
  <2>2. CASE RoomSlowdown(w)
    <3> DEFINE r == [wr[w] EXCEPT !.delay = FALSE]
    <3>1. r \in Writer /\ r.pc = "room" /\ wr' = [wr EXCEPT ![w] = r]
      BY <1>1, <2>0, <2>2 DEF Writer, RoomSlowdown
    <3> QED BY <1>6, <3>1
  <2>3. CASE RoomReady(w) /\ wr[w].op \in NullOps
    BY <1>5, <2>3 DEF RoomReady
  <2>4. CASE RoomReady(w) /\ wr[w].op \notin NullOps
    <3> DEFINE r == [wr[w] EXCEPT !.pc = "log"]
    <3>1. r \in Writer /\ r.pc = "log" /\ wr' = [wr EXCEPT ![w] = r]
      BY <2>0, <2>4 DEF Writer, RoomReady
    <3> QED BY <1>6, <3>1
  <2>5. CASE RoomWait(w)
    <3> DEFINE r == [wr[w] EXCEPT !.pc = "bgwait"]
    <3>1. r \in Writer /\ r.pc = "bgwait" /\ wr' = [wr EXCEPT ![w] = r]
      BY <2>0, <2>5 DEF Writer, RoomWait
    <3> QED BY <1>6, <3>1
  <2> QED BY <1>1, <2>1, <2>2, <2>3, <2>4, <2>5
<1> QED BY <1>1, <1>3, <1>7, EngineSame DEF engineVars, memVars, verVars, flagVars, walVars

LEMMA RoomSwitchStep ==
    ASSUME QueueInv, LogInv, NEW w \in Writers, RoomSwitch(w)
    PROVE  LogInv'
<1> USE DEF flagVars, manVars, histVars, budgets
<1>1. /\ phase = "open" /\ phase' = "open" /\ Working /\ Working' /\ wr[w].pc = "room"
      /\ ~has_imm_ /\ has_imm_' = TRUE /\ imm_' = mem_ /\ mem_' = {}
      /\ logfile_number_' = nextFile /\ nextFile' = nextFile + 1
      /\ walFiles' = walFiles \cup {nextFile}
      /\ UNCHANGED <<writers_, group, lastSequence, logNumber, wal, torn, manifest,
                     manifestTorn, edit, acked, faults>>
      /\ FlushInv /\ NumbersInv /\ AnsweredInv
  BY DEF RoomSwitch, MustSwitch, InRoom, Working, LogInv
<1>2. /\ \A u \in Writers : wr[u].pc \notin {"log", "sync", "insert", "publish"}
      /\ Head(writers_) = w
  BY <1>1, OneWrites DEF Leading
<1>3. InFlight = {} /\ imm_ = {}
  BY <1>1, <1>2 DEF InFlight, FlushInv
<1>4. ASSUME NEW u \in Writers
      PROVE  wr'[u].op = wr[u].op /\ wr'[u].status = wr[u].status /\ wr'[u].pc = wr[u].pc
  <2> DEFINE r == [wr[w] EXCEPT !.force = FALSE]
  <2>1. /\ wr \in [Writers -> Writer] /\ wr' = [wr EXCEPT ![w] = r]
        /\ r.op = wr[w].op /\ r.status = wr[w].status /\ r.pc = wr[w].pc
    BY DEF RoomSwitch, QueueInv, Writer
  <2> HIDE DEF r
  <2> QED BY <2>1
<1>5. OpsOf(OnDisk) \subseteq OpsOf(OnDisk)'
  BY <1>1, OnDiskKept
<1>6. AnsweredInv'
  BY <1>1, <1>4, <1>5, AnsweredSame
<1>7. /\ bg \in Background /\ bg.pc \notin {"table", "flushlog", "flushinstall"}
      /\ bg' \in Background /\ bg'.pc \in {bg.pc, "queued"}
      /\ bg'.pc \in {"mergelog", "mergeinstall"} => bg.pc = bg'.pc
  <2>1. bg \in Background /\ bg.pc \notin {"table", "flushlog", "flushinstall"}
    BY <1>1 DEF FlushInv
  <2>2. MaybeScheduleCompaction(TRUE, l0, bg_error_) \in {bg.pc, "queued"}
    BY DEF MaybeScheduleCompaction
  <2> QED BY <2>1, <2>2 DEF RoomSwitch, Background
<1>8. FlushInv'
  BY <1>1, <1>7 DEF FlushInv
<1>9. NumbersInv'
  BY <1>1 DEF NumbersInv
<1>10. \A e \in wal' : e.file >= manifest'.log => LogCovered(e)'
  <2> SUFFICES ASSUME NEW e \in wal, e.file >= manifest.log PROVE LogCovered(e)'
    BY <1>1
  <2>1. LogCovered(e)
    BY <1>1 DEF LogInv
  <2>2. logfile_number_ # nextFile
    BY <1>1 DEF NumbersInv
  <2> QED BY <1>1, <1>3, <2>1, <2>2 DEF LogCovered, Content
<1> QED BY <1>1, <1>6, <1>8, <1>9, <1>10 DEF LogInv

\* The leader goes on to its next step of writing the group.
LEMMA LeaderStep ==
    ASSUME QueueInv, AnsweredInv, NEW w \in Writers, NEW r \in Writer,
           wr' = [wr EXCEPT ![w] = r], r.op = wr[w].op, r.status = wr[w].status,
           wr[w].pc \in {"log", "sync", "insert"}, r.pc \in {"sync", "insert", "publish"},
           UNCHANGED <<writers_, group, lastSequence, acked>>,
           OpsOf(OnDisk) \cup OpsOf(GroupEntries) \subseteq OpsOf(OnDisk)'
    PROVE  /\ GroupEntries' = GroupEntries /\ AnsweredInv'
           /\ InFlight' = IF r.pc \in {"sync", "insert"} THEN GroupEntries ELSE {}
<1>1. /\ wr \in [Writers -> Writer] /\ wr'[w] = r
      /\ \A u \in Writers : u # w => wr'[u] = wr[u]
  BY DEF QueueInv
<1>2. /\ writers_ # <<>> /\ Head(writers_) = w
      /\ \A u \in Writers : u # w =>
           wr[u].pc \notin {"room", "log", "sync", "insert", "publish"}
  BY OneWrites DEF Leading
<1>3. group \in 1..Len(writers_) /\ group \in Nat /\ \A i \in 1..group : writers_[i] \in Writers
  BY DEF QueueInv
<1>4. GroupEntries' = GroupEntries
  BY <1>1, <1>3, GroupSame
<1>5. InFlight' = IF r.pc \in {"sync", "insert"} THEN GroupEntries ELSE {}
  BY <1>1, <1>2, <1>4 DEF InFlight
<1>6. ASSUME NEW u \in Writers
      PROVE  /\ wr'[u].pc = "done" /\ wr'[u].status = "ok" =>
                  wr'[u].op \in OpsOf(OnDisk)' \cup NullOps
             /\ wr'[u].pc \in {"flushwait", "flushblocked"} => wr'[u].op \in NullOps
  <2>1. CASE u = w
    BY <1>1, <2>1
  <2>2. CASE u # w
    BY <1>1, <2>2 DEF AnsweredInv
  <2> QED BY <2>1, <2>2
<1>7. acked' \subseteq OpsOf(OnDisk)' /\ OpsOf(GroupEntries)' \subseteq OpsOf(OnDisk)'
  BY <1>4 DEF AnsweredInv, OpsOf
<1>8. AnsweredInv'
  BY <1>6, <1>7 DEF AnsweredInv
<1> QED BY <1>4, <1>5, <1>8

LEMMA LeaderWritesStep ==
    ASSUME QueueInv, LogInv, NEW w \in Writers,
           AddRecord(w) \/ SyncLog(w) \/ InsertInto(w)
    PROVE  LogInv'
<1> USE DEF memVars, verVars, flagVars, bgVars, manVars, histVars, budgets
<1>1. /\ phase = "open" /\ AnsweredInv /\ NumbersInv
      /\ UNCHANGED <<phase, imm_, has_imm_, logfile_number_, nextFile, logNumber, bgVars,
                     walFiles, torn, manVars, faults, writers_, group, lastSequence, acked>>
      /\ wr[w].pc \in {"log", "sync", "insert"} /\ wr[w] \in Writer
  BY DEF AddRecord, SyncLog, InsertInto, Leads, LogInv, walVars, QueueInv
<1>2. /\ Head(writers_) = w /\ writers_ # <<>>
      /\ manifest.log <= logfile_number_
  BY <1>1, OneWrites DEF Leading, NumbersInv
<1>3. CASE AddRecord(w)
  <2> DEFINE p == IF wr[w].op \in SyncOps THEN "sync" ELSE "insert"
             r == [wr[w] EXCEPT !.pc = p]
  <2>1. /\ r \in Writer /\ r.pc \in {"sync", "insert"} /\ r.op = wr[w].op
        /\ r.status = wr[w].status /\ wr' = [wr EXCEPT ![w] = r]
        /\ wr[w].pc = "log" /\ wal' = wal \cup GroupRecord /\ mem_' = mem_
    BY <1>1, <1>3 DEF AddRecord, Leads, Writer
  <2> HIDE DEF r
  <2>2. ASSUME NEW e \in GroupRecord
        PROVE  e.file = logfile_number_ /\ Content(e) \in GroupEntries
    <3>1. PICK g \in GroupEntries : e = [file |-> logfile_number_, first |-> lastSequence + 1,
                                         seq |-> g.seq, op |-> g.op]
      BY <2>2 DEF GroupRecord
    <3>2. g = [seq |-> g.seq, op |-> g.op]
      BY DEF GroupEntries
    <3> QED BY <3>1, <3>2 DEF Content
  <2>3. ASSUME NEW g \in GroupEntries
        PROVE  \E e \in wal' : e.file >= manifest.log /\ Content(e).op = g.op
    <3> DEFINE e == [file |-> logfile_number_, first |-> lastSequence + 1,
                     seq |-> g.seq, op |-> g.op]
    <3>1. e \in wal' /\ e.file = logfile_number_ /\ Content(e).op = g.op
      BY <2>1 DEF GroupRecord, Content
    <3> QED BY <3>1, <1>2
  <2>4. OpsOf(OnDisk) \cup OpsOf(GroupEntries) \subseteq OpsOf(OnDisk)'
    <3>1. OnDisk \subseteq OnDisk'
      BY <1>1, <2>1 DEF OnDisk, Held, Contents, Content
    <3>2. OpsOf(GroupEntries) \subseteq OpsOf(OnDisk)'
      <4>1. ASSUME NEW g \in GroupEntries
            PROVE  g.op \in OpsOf(OnDisk)'
        <5>1. PICK e \in wal' : e.file >= manifest.log /\ Content(e).op = g.op
          BY <2>3
        <5>2. Content(e) \in OnDisk'
          BY <1>1, <5>1 DEF OnDisk, Held, Contents
        <5> QED BY <5>1, <5>2 DEF OpsOf
      <4> QED BY <4>1 DEF OpsOf
    <3> QED BY <3>1, <3>2 DEF OpsOf
  <2>5. GroupEntries' = GroupEntries /\ AnsweredInv' /\ InFlight' = GroupEntries
    BY <1>1, <2>1, <2>4, LeaderStep
  <2>6. InFlight = {}
    BY <1>2, <2>1 DEF InFlight
  <2> QED BY <1>1, <2>1, <2>2, <2>5, <2>6, EngineSame
<1>4. CASE SyncLog(w)
  <2> DEFINE r == [wr[w] EXCEPT !.pc = "insert"]
  <2>1. /\ r \in Writer /\ r.pc = "insert" /\ r.op = wr[w].op
        /\ r.status = wr[w].status /\ wr' = [wr EXCEPT ![w] = r]
        /\ wr[w].pc = "sync" /\ wal' = wal /\ mem_' = mem_
    BY <1>1, <1>4 DEF SyncLog, Leads, Writer
  <2> HIDE DEF r
  <2>2. OpsOf(OnDisk) \cup OpsOf(GroupEntries) \subseteq OpsOf(OnDisk)'
    BY <1>1, <2>1, OnDiskKept DEF AnsweredInv
  <2>3. AnsweredInv' /\ InFlight' = GroupEntries
    BY <1>1, <2>1, <2>2, LeaderStep
  <2>4. InFlight = GroupEntries
    BY <1>2, <2>1 DEF InFlight
  <2> QED BY <1>1, <2>1, <2>3, <2>4, EngineSame
<1>5. CASE InsertInto(w)
  <2> DEFINE r == [wr[w] EXCEPT !.pc = "publish"]
  <2>1. /\ r \in Writer /\ r.pc = "publish" /\ r.op = wr[w].op
        /\ r.status = wr[w].status /\ wr' = [wr EXCEPT ![w] = r]
        /\ wr[w].pc = "insert" /\ wal' = wal /\ mem_' = mem_ \cup GroupEntries
    BY <1>1, <1>5 DEF InsertInto, Leads, Writer, walVars
  <2> HIDE DEF r
  <2>2. OpsOf(OnDisk) \cup OpsOf(GroupEntries) \subseteq OpsOf(OnDisk)'
    BY <1>1, <2>1, OnDiskKept DEF AnsweredInv
  <2>3. AnsweredInv' /\ InFlight' = {}
    BY <1>1, <2>1, <2>2, LeaderStep
  <2>4. InFlight = GroupEntries
    BY <1>2, <2>1 DEF InFlight
  <2> QED BY <1>1, <2>1, <2>3, <2>4, EngineSame
<1> QED BY <1>3, <1>4, <1>5

\* The group is answered: what is answered with OK is in the log.
LEMMA PublishStep ==
    ASSUME QueueInv, LogInv, NEW w \in Writers, Publish(w)
    PROVE  LogInv'
<1> DEFINE failed == wr[w].status = "sync_error"
           ws == IF failed /\ ~bg_error_ THEN SignalAll(wr) ELSE wr
           st == IF wr[w].status = "ok" THEN "ok" ELSE "error"
<1> USE DEF memVars, bgVars, walVars, manVars, histVars, budgets
<1>1. /\ phase = "open" /\ AnsweredInv
      /\ UNCHANGED <<phase, memVars, nextFile, logNumber, bgVars, walVars, manVars,
                     faults, acked>>
      /\ wr[w].pc = "publish" /\ wr' = Dequeue(ws, group, st)
      /\ writers_' = SubSeq(writers_, group + 1, Len(writers_)) /\ group' = 0
  BY DEF Publish, Leads, LogInv
<1>2. /\ wr \in [Writers -> Writer] /\ ws \in [Writers -> Writer]
      /\ \A u \in Writers :
           /\ ws[u].op = wr[u].op /\ ws[u].status = wr[u].status
           /\ \A p \in {"sync", "insert", "publish", "done"} : ws[u].pc = p <=> wr[u].pc = p
           /\ ws[u].pc \in {"flushwait", "flushblocked"}
                => wr[u].pc \in {"flushwait", "flushblocked"}
  BY DEF SignalAll, QueueInv, Writer
<1>3. /\ writers_ # <<>> /\ Head(writers_) = w
      /\ \A u \in Writers : u # w =>
           wr[u].pc \notin {"room", "log", "sync", "insert", "publish"}
  BY <1>1, OneWrites DEF Leading
<1>4. group \in 1..Len(writers_) /\ writers_ \in Seq(Writers)
  BY <1>1 DEF QueueInv
<1>5. InFlight = {}
  BY <1>1, <1>3 DEF InFlight
<1>6. OpsOf(OnDisk) \subseteq OpsOf(OnDisk)'
  BY <1>1, OnDiskKept
<1>7. ASSUME NEW i \in 1..group, st = "ok"
      PROVE  wr[writers_[i]].op \in OpsOf(OnDisk) \cup NullOps
  <2>1. OpsOf(GroupEntries) \subseteq OpsOf(OnDisk)
    BY <1>1, <1>7 DEF AnsweredInv
  <2>2. wr[writers_[i]].op \notin NullOps => wr[writers_[i]].op \in OpsOf(GroupEntries)
    <3> DEFINE g == [seq |-> lastSequence + Count(i), op |-> wr[writers_[i]].op]
    <3>1. wr[writers_[i]].op \notin NullOps => g \in GroupEntries
      BY DEF GroupEntries
    <3>2. g.op = wr[writers_[i]].op
      OBVIOUS
    <3> QED BY <3>1, <3>2 DEF OpsOf
  <2> QED BY <2>1, <2>2
<1> st \in {"ok", "error", "sync_error"}
  OBVIOUS
<1> HIDE DEF ws, st
<1>8. ASSUME NEW u \in Writers
      PROVE  /\ wr'[u].pc \notin {"sync", "insert", "publish"}
             /\ wr'[u].pc = "done" /\ wr'[u].status = "ok" =>
                  wr'[u].op \in OpsOf(OnDisk) \cup NullOps
             /\ wr'[u].pc \in {"flushwait", "flushblocked"} => wr'[u].op \in NullOps
  <2>1. LET d == Dequeue(ws, group, st)[u]
        IN  /\ d.op = ws[u].op
            /\ u \in {writers_[i] : i \in 1..group} => d.pc = "done" /\ d.status = st
            /\ u \notin {writers_[i] : i \in 1..group} =>
                 /\ d.status = ws[u].status
                 /\ d.pc = IF u \in {writers_[i] : i \in {group + 1} \cap 1..Len(writers_)}
                           THEN "room" ELSE ws[u].pc
    <3>1. ws \in [Writers -> Writer] /\ st \in {"ok", "error", "sync_error"}
      BY <1>2
    <3> QED BY ONLY <3>1, DequeueEffect, u \in Writers
  <2>2. CASE u \in {writers_[i] : i \in 1..group}
    BY <1>1, <1>2, <1>7, <2>1, <2>2
  <2>3. CASE u \notin {writers_[i] : i \in 1..group}
    <3>1. wr'[u].op = wr[u].op /\ wr'[u].status = wr[u].status
      BY <1>1, <1>2, <2>1, <2>3
    <3>2. wr'[u].pc = "room" \/ wr'[u].pc = ws[u].pc
      BY <1>1, <2>1, <2>3
    <3>3. u # w
      BY <1>3, <1>4, <2>3
    <3>4. wr[u].pc \notin {"sync", "insert", "publish"}
      BY <1>3, <3>3
    <3>5. CASE wr'[u].pc = "room"
      BY <3>5
    <3>6. CASE wr'[u].pc = ws[u].pc
      BY <1>1, <1>2, <3>1, <3>4, <3>6 DEF AnsweredInv
    <3> QED BY <3>2, <3>5, <3>6
  <2> QED BY <2>2, <2>3
<1>9. AnsweredInv'
  BY <1>1, <1>6, <1>8, NobodyWrites DEF AnsweredInv
<1> QED BY <1>1, <1>5, <1>9, EngineSame

\* A step of a call that is not in the queue, or enters it.
LEMMA OutsiderStep ==
    ASSUME QueueInv, AnsweredInv, NEW w \in Writers, NEW r \in Writer,
           wr[w].pc \notin Leading, wr[w].pc # "queue", wr' = [wr EXCEPT ![w] = r],
           r.pc \notin {"sync", "insert", "publish", "done"},
           r.pc \in {"flushwait", "flushblocked"} => r.op \in NullOps,
           writers_' = writers_ \/ writers_' = Append(writers_, w),
           group' = group, lastSequence' = lastSequence,
           OnDisk' = OnDisk, acked' \subseteq OpsOf(OnDisk)
    PROVE  AnsweredInv' /\ InFlight' = InFlight
<1>1. /\ wr \in [Writers -> Writer] /\ wr'[w] = r
      /\ \A u \in Writers : u # w => wr'[u] = wr[u]
      /\ writers_ \in Seq(Writers) /\ Len(writers_) \in Nat /\ group \in Nat
  BY DEF QueueInv
<1>2. \A i \in 1..Len(writers_) : writers_[i] # w /\ writers_[i] \in Writers
  <2> SUFFICES ASSUME NEW i \in 1..Len(writers_), writers_[i] = w PROVE FALSE
    BY <1>1
  <2>1. CASE i = 1
    <3>1. writers_ # <<>> /\ Head(writers_) = w
      BY <2>1, <1>1
    <3> QED BY <3>1 DEF QueueInv
  <2>2. CASE i # 1
    <3>1. i \in 2..Len(writers_)
      BY <2>2, <1>1
    <3> QED BY <3>1 DEF QueueInv
  <2> QED BY <2>1, <2>2
<1>3. \A i \in 1..Len(writers_) : writers_'[i] = writers_[i]
  BY <1>1
<1>4. ASSUME NEW u \in Writers, wr[u].pc \in {"sync", "insert", "publish"}
      PROVE  GroupEntries' = GroupEntries
  <2>1. group \in 1..Len(writers_)
    BY <1>4 DEF QueueInv
  <2>2. \A i \in 1..group : i \in 1..Len(writers_)
    BY <1>1, <2>1
  <2>3. \A i \in 1..group : /\ writers_'[i] = writers_[i]
                            /\ wr'[writers_[i]].op = wr[writers_[i]].op
    BY <1>1, <1>2, <1>3, <2>2
  <2> QED BY <1>1, <2>3, GroupSame
<1>5. InFlight' = InFlight
  <2>1. CASE writers_ = <<>>
    <3>1. writers_' = <<>> \/ Head(writers_') = w
      BY <2>1
    <3>2. InFlight = {}
      BY <2>1 DEF InFlight
    <3>3. InFlight' = {}
      BY <3>1, <1>1 DEF InFlight
    <3> QED BY <3>2, <3>3
  <2>2. CASE writers_ # <<>>
    <3>1. /\ writers_' # <<>> /\ Head(writers_') = Head(writers_)
          /\ Head(writers_) \in Writers /\ Head(writers_) # w
      BY <2>2, <1>1, <1>2
    <3>2. wr'[Head(writers_)] = wr[Head(writers_)]
      BY <3>1, <1>1
    <3>3. CASE wr[Head(writers_)].pc \in {"sync", "insert"}
      BY <2>2, <3>1, <3>2, <3>3, <1>4 DEF InFlight
    <3>4. CASE wr[Head(writers_)].pc \notin {"sync", "insert"}
      <4>1. InFlight = {}
        BY <3>4 DEF InFlight
      <4>2. InFlight' = {}
        BY <3>1, <3>2, <3>4 DEF InFlight
      <4> QED BY <4>1, <4>2
    <3> QED BY <3>3, <3>4
  <2> QED BY <2>1, <2>2
<1>6. ASSUME NEW u \in Writers
      PROVE  /\ wr'[u].pc = "done" /\ wr'[u].status = "ok" =>
                  wr'[u].op \in OpsOf(OnDisk) \cup NullOps
             /\ wr'[u].pc \in {"flushwait", "flushblocked"} => wr'[u].op \in NullOps
             /\ \/ wr'[u].pc \in {"sync", "insert"}
                \/ wr'[u].pc = "publish" /\ wr'[u].status = "ok"
                => OpsOf(GroupEntries)' \subseteq OpsOf(OnDisk)
  <2>1. CASE u = w
    BY <1>1, <2>1
  <2>2. CASE u # w
    <3>1. wr'[u] = wr[u]
      BY <1>1, <2>2
    <3>2. wr[u].pc \in {"sync", "insert", "publish"}
            => OpsOf(GroupEntries)' = OpsOf(GroupEntries)
      BY <1>4 DEF OpsOf
    <3> QED BY <3>1, <3>2 DEF AnsweredInv
  <2> QED BY <2>1, <2>2
<1>7. OpsOf(OnDisk)' = OpsOf(OnDisk)
  BY DEF OpsOf
<1>8. AnsweredInv'
  BY <1>6, <1>7 DEF AnsweredInv
<1> QED BY <1>5, <1>8

LEMMA CallStep ==
    ASSUME QueueInv, LogInv, NEW w \in Writers,
           \/ \E op \in Ops : Write(w, op)
           \/ Return(w) \/ AwaitFlush(w)
    PROVE  LogInv'
<1> USE DEF histVars, budgets
<1>1. /\ phase = "open" /\ UNCHANGED engineVars /\ UNCHANGED <<group, faults>>
      /\ AnsweredInv /\ wr[w] \in Writer
      /\ wr[w].pc \in {"idle", "done", "flushwait"}
      /\ wr[w].pc \notin Leading /\ wr[w].pc # "queue"
  BY DEF Write, Return, AwaitFlush, LogInv, QueueInv, Leading
<1>2. OnDisk' = OnDisk
  BY <1>1 DEF OnDisk, Held, Contents, Content, engineVars, walVars, manVars
<1>3. ASSUME NEW r \in Writer, wr' = [wr EXCEPT ![w] = r],
             r.pc \notin {"sync", "insert", "publish", "done"},
             r.pc \in {"flushwait", "flushblocked"} => r.op \in NullOps,
             writers_' = writers_ \/ writers_' = Append(writers_, w),
             acked' \subseteq OpsOf(OnDisk)
      PROVE  LogInv'
  <2>1. lastSequence' = lastSequence
    BY <1>1 DEF engineVars, verVars
  <2>2. AnsweredInv' /\ InFlight' = InFlight
    BY <1>1, <1>2, <1>3, <2>1, OutsiderStep
  <2> QED BY <1>1, <2>2, EngineSame DEF engineVars, memVars, verVars, flagVars, walVars
<1>4. ASSUME NEW a, Answer(w, a), writers_' = writers_,
             a = "ok" => wr[w].op \in OpsOf(OnDisk) \cup NullOps
      PROVE  LogInv'
  <2> DEFINE r == [wr[w] EXCEPT !.pc = "idle", !.op = NoOp]
  <2>1. r \in Writer /\ r.pc = "idle"
    BY <1>1 DEF Writer
  <2>2. wr' = [wr EXCEPT ![w] = r]
    BY <1>4 DEF Answer
  <2>3. acked' \subseteq OpsOf(OnDisk)
    BY <1>1, <1>4 DEF Answer, AnsweredInv
  <2> QED BY <1>3, <1>4, <2>1, <2>2, <2>3
<1>5. ASSUME NEW op \in Ops, Write(w, op)
      PROVE  LogInv'
  <2> DEFINE p == IF writers_ = <<>> THEN "room" ELSE "queue"
             r == [pc |-> p, op |-> op, delay |-> op \notin NullOps,
                   force |-> op \in NullOps, status |-> "ok"]
  <2>1. r \in Writer /\ r.pc \in {"room", "queue"}
    BY DEF Writer
  <2>2. wr' = [wr EXCEPT ![w] = r] /\ writers_' = Append(writers_, w) /\ acked' = acked
    BY <1>5 DEF Write
  <2> QED BY <1>1, <1>3, <2>1, <2>2 DEF AnsweredInv
<1>6. CASE Return(w)
  <2>1. /\ writers_' = writers_ /\ wr[w].pc = "done"
        /\ wr[w].status = "ok" => wr[w].op \in OpsOf(OnDisk) \cup NullOps
    BY <1>1, <1>6 DEF Return, AnsweredInv
  <2>2. CASE wr[w].op \in NullOps /\ wr[w].status = "ok"
    <3> DEFINE r == [wr[w] EXCEPT !.pc = "flushwait"]
    <3>1. /\ r \in Writer /\ r.pc = "flushwait" /\ r.op = wr[w].op
          /\ wr' = [wr EXCEPT ![w] = r] /\ acked' = acked
      BY <1>1, <1>6, <2>2 DEF Writer, Return
    <3> QED BY <1>1, <1>3, <2>1, <2>2, <3>1 DEF AnsweredInv
  <2>3. CASE ~(wr[w].op \in NullOps /\ wr[w].status = "ok")
    BY <1>4, <1>6, <2>1, <2>3 DEF Return
  <2> QED BY <2>2, <2>3
<1>7. CASE AwaitFlush(w)
  <2>1. writers_' = writers_ /\ wr[w].pc = "flushwait" /\ wr[w].op \in NullOps
    BY <1>1, <1>7 DEF AwaitFlush, AnsweredInv
  <2>2. CASE has_imm_ /\ ~bg_error_
    <3> DEFINE r == [wr[w] EXCEPT !.pc = "flushblocked"]
    <3>1. /\ r \in Writer /\ r.pc = "flushblocked" /\ r.op = wr[w].op
          /\ wr' = [wr EXCEPT ![w] = r] /\ acked' = acked
      BY <1>1, <1>7, <2>2 DEF Writer, AwaitFlush
    <3> QED BY <1>1, <1>3, <2>1, <3>1 DEF AnsweredInv
  <2>3. CASE ~(has_imm_ /\ ~bg_error_)
    BY <1>4, <1>7, <2>1, <2>3 DEF AwaitFlush
  <2> QED BY <2>2, <2>3
<1> QED BY <1>5, <1>6, <1>7

----------------------------------------------------------------------------
(* Suspend, resume, close, and the crash of the process.                   *)

LEMMA ControlStep ==
    ASSUME QueueInv, LogInv, SuspendCompaction \/ ResumeCompaction \/ Close
    PROVE  LogInv'
<1> USE DEF queueVars, memVars, verVars, bgVars, walVars, manVars, histVars, budgets
<1>1. /\ phase = "open" /\ Working /\ Working'
      /\ phase' \in {"open", "closing"}
      /\ UNCHANGED <<mutex_, wr, writers_, group, memVars, nextFile, lastSequence, logNumber,
                     bgVars, walVars, manVars, faults, acked>>
      /\ FlushInv /\ NumbersInv /\ AnsweredInv
  BY DEF SuspendCompaction, ResumeCompaction, Close, Working, LogInv
<1>2. OpsOf(OnDisk) \subseteq OpsOf(OnDisk)'
  BY <1>1, OnDiskKept
<1>3. AnsweredInv' /\ InFlight' = InFlight
  BY <1>1, <1>2, AnsweredSame, QueueSame
<1>4. FlushInv' /\ NumbersInv'
  BY <1>1 DEF FlushInv, NumbersInv
<1>5. \A e \in wal' : e.file >= manifest'.log => LogCovered(e)'
  <2> SUFFICES ASSUME NEW e \in wal, e.file >= manifest.log PROVE LogCovered(e)'
    BY <1>1
  <2>1. LogCovered(e)
    BY <1>1 DEF LogInv
  <2> QED BY <1>1, <1>3, <2>1 DEF LogCovered, Content
<1> QED BY <1>1, <1>3, <1>4, <1>5 DEF LogInv

\* Only the files are left: the answers given so far rest on them alone.
LEMMA ForgetStep ==
    ASSUME LogInv, Closed \/ ProcessCrash
    PROVE  LogInv'
<1> USE DEF walVars, manVars, histVars, budgets
<1>1. /\ phase' = "closed" /\ Forget
      /\ UNCHANGED <<walVars, manVars, faults, acked>>
      /\ FlushInv /\ NumbersInv /\ AnsweredInv
  BY DEF Closed, ProcessCrash, LogInv
<1>2. OpsOf(OnDisk) \subseteq OpsOf(OnDisk)'
  BY <1>1, OnDiskKept
<1>3. \A w \in Writers : wr'[w].pc = "idle"
  BY <1>1 DEF Forget
<1>4. AnsweredInv'
  BY <1>1, <1>2, <1>3, NobodyWrites DEF AnsweredInv
<1>5. FlushInv'
  BY <1>1 DEF FlushInv, Forget, Working, Background
<1>6. NumbersInv'
  BY <1>1 DEF NumbersInv, Forget, verVars
<1> QED BY <1>1, <1>4, <1>5, <1>6 DEF LogInv

----------------------------------------------------------------------------
(* Recovery.                                                               *)

\* Nobody writes while the DB is not open.
LEMMA NotOpen ==
    ASSUME QueueInv, LogInv, ~Working
    PROVE  /\ bg.pc = "idle" /\ ~has_imm_ /\ imm_ = {} /\ writers_ = <<>>
           /\ \A w \in Writers : wr[w].pc \notin {"sync", "insert", "publish"}
<1>1. bg.pc = "idle" /\ ~has_imm_ /\ imm_ = {} /\ writers_ = <<>>
  BY DEF LogInv, FlushInv
<1> QED BY <1>1 DEF QueueInv, Leading

\* The logs that recovery reads go into the tables of its edit.
LEMMA OpenRecoverStep ==
    ASSUME QueueInv, LogInv, OpenRecover
    PROVE  LogInv'
<1> DEFINE live   == LiveLogs(walFiles, manifest)
           found  == {e \in wal : e.file \in live}
           taken  == NumbersTaken(live)
<1> USE DEF queueVars, manVars, histVars, budgets
<1>1. /\ phase = "closed" /\ phase' = "recovered" /\ ~Working /\ ~Working'
      /\ UNCHANGED <<mutex_, wr, writers_, group, mem_, imm_, has_imm_, bg, wal, torn,
                     manifest, manifestTorn, faults, acked>>
      /\ FlushInv /\ NumbersInv /\ AnsweredInv
  BY DEF OpenRecover, Working, LogInv
<1>2. /\ bg.pc = "idle" /\ ~has_imm_ /\ imm_ = {} /\ writers_ = <<>>
      /\ \A w \in Writers : wr[w].pc \notin {"sync", "insert", "publish"}
  BY <1>1, NotOpen
<1>3. /\ nextFile' = logfile_number_' + 1
      /\ walFiles' = walFiles \cup {logfile_number_'}
      /\ edit'.log = logfile_number_' /\ edit'.next = nextFile' /\ edit'.added = Contents(found)
      /\ logNumber' = manifest.log
  BY DEF OpenRecover, Edit
<1>4. /\ logfile_number_' \in Nat
      /\ \A x \in taken : x < logfile_number_'
  <2>1. PICK n : \E k \in 0..n, m \in taken :
                   /\ \A x \in taken : x < m + 1 + k
                   /\ logfile_number_' = m + 1 + k
    BY DEF OpenRecover
  <2>5. PICK k \in 0..n, m \in taken :
          /\ \A x \in taken : x < m + 1 + k
          /\ logfile_number_' = m + 1 + k
    BY <2>1
  <2>2. m \in Nat
    BY <1>1 DEF NumbersTaken, LiveLogs, NumbersInv
  <2>3. k \in Nat
    OBVIOUS
  <2> HIDE DEF taken
  <2>4. m + 1 + k \in Nat
    BY <2>2, <2>3
  <2> QED BY <2>4, <2>5
<1>5. manifest.log < logfile_number_'
  BY <1>4 DEF NumbersTaken
<1>6. NumbersInv'
  <2>1. manifest.log \in Nat /\ manifest.next \in Nat /\ \A f \in walFiles : f \in Nat
    BY <1>1 DEF NumbersInv
  <2>2. \A e \in wal : e.file \in walFiles
    BY <1>1 DEF NumbersInv
  <2> HIDE DEF found, live, taken
  <2>3. nextFile' \in Nat /\ logfile_number_' < nextFile' /\ manifest.log <= logfile_number_'
    <3>1. \A a, b \in Nat : a < b => a <= b /\ b < b + 1 /\ b + 1 \in Nat
      OBVIOUS
    <3>2. nextFile' = logfile_number_' + 1
      BY <1>3
    <3> QED BY <1>4, <1>5, <2>1, <3>1, <3>2
  <2> QED BY <1>1, <1>3, <1>4, <2>1, <2>2, <2>3 DEF NumbersInv
<1>7. FlushInv'
  BY <1>1, <1>2 DEF FlushInv
<1>8. \A e \in wal' : e.file >= manifest'.log => LogCovered(e)'
  <2> SUFFICES ASSUME NEW e \in wal, e.file >= manifest.log PROVE LogCovered(e)'
    BY <1>1
  <2>1. e \in found
    BY <1>1 DEF NumbersInv, LiveLogs
  <2>2. Content(e) \in edit'.added
    BY <1>3, <2>1 DEF Contents
  <2> QED BY <1>1, <2>2 DEF LogCovered, Content
<1>9. AnsweredInv'
  <2>1. OpsOf(OnDisk) \subseteq OpsOf(OnDisk)'
    BY <1>1, OnDiskKept
  <2> QED BY <1>1, <1>2, <2>1, NobodyWrites DEF AnsweredInv
<1> QED BY <1>1, <1>6, <1>7, <1>8, <1>9 DEF LogInv

LEMMA OpenApplyStep ==
    ASSUME QueueInv, LogInv, OpenApply
    PROVE  LogInv'
<1> USE DEF queueVars, memVars, verVars, bgVars, walVars, histVars, budgets
<1>1. /\ phase = "recovered" /\ phase' = "applied" /\ ~Working /\ ~Working'
      /\ UNCHANGED <<mutex_, wr, writers_, group, memVars, nextFile, logNumber, bgVars,
                     walVars, faults, acked>>
      /\ manifest'.log = edit.log /\ manifest'.tables = manifest.tables \cup edit.added
      /\ manifest'.next = edit.next /\ manifestTorn' = "no"
      /\ FlushInv /\ NumbersInv /\ AnsweredInv
  BY DEF OpenApply, Working, LogInv, Apply
<1>2. /\ bg.pc = "idle" /\ ~has_imm_ /\ imm_ = {} /\ writers_ = <<>>
      /\ \A w \in Writers : wr[w].pc \notin {"sync", "insert", "publish"}
  BY <1>1, NotOpen
<1>3. ASSUME NEW e \in wal, e.file >= manifest.log
      PROVE  Content(e) \in manifest'.tables
  <2>1. LogCovered(e)
    BY <1>1, <1>3 DEF LogInv
  <2> QED BY <1>1, <2>1 DEF LogCovered
<1>4. edit.log \in Nat /\ manifest.log <= edit.log /\ edit.log = logfile_number_
  BY <1>1 DEF NumbersInv
<1>5. \A e \in wal : e.file \in Nat /\ manifest.log \in Nat
  BY <1>1 DEF NumbersInv
<1>6. \A e \in wal' : e.file >= manifest'.log => LogCovered(e)'
  <2> SUFFICES ASSUME NEW e \in wal, e.file >= edit.log PROVE LogCovered(e)'
    BY <1>1
  <2>1. e.file >= manifest.log
    BY <1>4, <1>5
  <2> QED BY <1>3, <2>1 DEF LogCovered, Content
<1>7. AnsweredInv'
  <2>1. OpsOf(OnDisk) \subseteq OpsOf(OnDisk)'
    BY <1>1, <1>3, OnDiskGrows
  <2> QED BY <1>1, <1>2, <2>1, NobodyWrites DEF AnsweredInv
<1>8. NumbersInv'
  BY <1>1, <1>4 DEF NumbersInv
<1>9. FlushInv'
  BY <1>1, <1>2 DEF FlushInv
<1> QED BY <1>1, <1>6, <1>7, <1>8, <1>9 DEF LogInv

LEMMA OpenFinishStep ==
    ASSUME QueueInv, LogInv, OpenFinish
    PROVE  LogInv'
<1> USE DEF queueVars, memVars, manVars, histVars, budgets
<1>1. /\ phase = "applied" /\ phase' = "open" /\ ~Working /\ Working'
      /\ UNCHANGED <<mutex_, wr, writers_, group, memVars, nextFile, edit, manifest,
                     manifestTorn, faults, acked>>
      /\ logNumber' = edit.log
      /\ walFiles' = {f \in walFiles : f >= edit.log}
      /\ wal' = {e \in wal : e.file >= edit.log}
      /\ torn' = {t \in torn : t.file >= edit.log}
      /\ FlushInv /\ NumbersInv /\ AnsweredInv /\ torn = {}
  BY DEF OpenFinish, Working, LogInv, InstallEdit, DeleteObsoleteLogs
<1>2. /\ bg.pc = "idle" /\ ~has_imm_ /\ imm_ = {} /\ writers_ = <<>>
      /\ \A w \in Writers : wr[w].pc \notin {"sync", "insert", "publish"}
  BY <1>1, NotOpen
<1>3. edit.log = manifest.log /\ edit.log = logfile_number_
  BY <1>1 DEF NumbersInv
<1>4. AnsweredInv'
  <2>1. OpsOf(OnDisk) \subseteq OpsOf(OnDisk)'
    BY <1>1, <1>3, OnDiskKept
  <2> QED BY <1>1, <1>2, <2>1, NobodyWrites DEF AnsweredInv
<1>5. NumbersInv'
  BY <1>1, <1>3 DEF NumbersInv
<1>6. FlushInv'
  <2>1. MaybeScheduleCompaction(FALSE, l0', FALSE) \in {"idle", "queued"}
    BY <1>2 DEF MaybeScheduleCompaction
  <2>2. bg' \in Background /\ bg'.pc \in {"idle", "queued"}
    BY <1>1, <2>1 DEF OpenFinish, FlushInv, Background
  <2> QED BY <1>1, <1>2, <1>3, <2>2 DEF FlushInv
<1>7. \A e \in wal' : e.file >= manifest'.log => LogCovered(e)'
  <2> SUFFICES ASSUME NEW e \in wal, e.file >= manifest.log PROVE LogCovered(e)'
    BY <1>1
  <2>1. LogCovered(e)
    BY <1>1 DEF LogInv
  <2> QED BY <1>1, <2>1 DEF LogCovered, Content
<1> QED BY <1>1, <1>4, <1>5, <1>6, <1>7 DEF LogInv

----------------------------------------------------------------------------

LEMMA LogInit == ASSUME Init PROVE LogInv
<1>1. /\ \A w \in Writers : wr[w].pc = "idle"
      /\ wal = {} /\ acked = {} /\ torn = {}
      /\ phase = "closed" /\ manifest = EmptyManifest /\ edit = Edit(0, 0, 2, {}, 0, 0)
  BY DEF Init
<1>2. AnsweredInv
  BY <1>1 DEF AnsweredInv, OpsOf
<1>3. NumbersInv
  BY <1>1 DEF NumbersInv, EmptyManifest, Edit, Init
<1>4. FlushInv
  BY DEF Init, FlushInv, Background, Working
<1> QED BY <1>1, <1>2, <1>3, <1>4 DEF LogInv, Init

LEMMA LogStep ==
    ASSUME MaxFaults = 0, MachineCrashes = FALSE, QueueInv, LogInv, [Next]_vars
    PROVE  LogInv'
<1>1. CASE UNCHANGED vars
  <2> USE DEF vars, queueVars, engineVars, memVars, verVars, flagVars, bgVars, walVars,
              manVars, histVars, budgets
  <2>1. OpsOf(OnDisk) \subseteq OpsOf(OnDisk)'
    BY <1>1, OnDiskKept
  <2>2. AnsweredInv' /\ InFlight' = InFlight
    BY <1>1, <2>1, AnsweredSame, QueueSame DEF LogInv
  <2>3. \A e \in wal' : LogCovered(e)' <=> LogCovered(e)
    BY <1>1, <2>2 DEF LogCovered, Content, Working
  <2>4. FlushInv' /\ NumbersInv'
    BY <1>1 DEF LogInv, FlushInv, NumbersInv, Working
  <2> QED BY <1>1, <2>2, <2>3, <2>4 DEF LogInv
<1>2. ASSUME NEW w \in Writers, NEW op \in Ops, Write(w, op)
      PROVE  LogInv'
  BY <1>2, CallStep
<1>3. ASSUME NEW w \in Writers, WriterStep(w)
      PROVE  LogInv'
  <2>1. ~AddRecordFails(w) /\ ~SyncLogFails(w)
    BY DEF AddRecordFails, SyncLogFails, LogInv
  <2> QED BY <1>3, <2>1, RoomStep, RoomSwitchStep, LeaderWritesStep, PublishStep, CallStep
          DEF WriterStep
<1>4. CASE BackgroundStep
  BY <1>4, QuietBackgroundStep, ManifestWrittenStep, InstalledStep DEF BackgroundStep
<1>5. CASE SuspendCompaction \/ ResumeCompaction \/ Close \/ Closed \/ ProcessCrash
  BY <1>5, ControlStep, ForgetStep
<1>6. CASE OpenStep
  <2>1. ~OpenCorrupt
    BY DEF OpenCorrupt, Corrupt, LogInv
  <2> QED BY <1>6, <2>1, OpenRecoverStep, OpenApplyStep, OpenFinishStep DEF OpenStep
<1> QED BY <1>1, <1>2, <1>3, <1>4, <1>5, <1>6 DEF Next, MachineCrash

\* While no file operation fails and the machine stays up, every entry of a live
\* log is in the tables or on its way there in memory.
THEOREM LogInvariant ==
    ASSUME MaxFaults = 0, MachineCrashes = FALSE
    PROVE  Spec => [](QueueInv /\ LogInv)
<1>1. Init => QueueInv /\ LogInv
  BY EmptyQueue, LogInit DEF Init
<1>2. (QueueInv /\ LogInv) /\ [Next]_vars => (QueueInv /\ LogInv)'
  BY QueueStep, LogStep
<1> QED BY <1>1, <1>2, PTL DEF Spec

\* options.h: "if it is just the process that crashes ..., no writes will be lost
\* even if sync==false": with any number of writers, batches, memtable switches,
\* flushes, merges, crashes of the process and reopens.
THEOREM AckedWritesSurvive ==
    ASSUME MaxFaults = 0, MachineCrashes = FALSE
    PROVE  Spec => []NoAckedWriteLost
<1>1. LogInv => NoAckedWriteLost
  BY DEF LogInv, AnsweredInv, NoAckedWriteLost, Recovered, Corrupt
<1> QED BY <1>1, LogInvariant, PTL

----------------------------------------------------------------------------
(* The numbers that the write path hands out and its waiting threads, for  *)
(* any number of writers, faults and crashes of the process and of the     *)
(* machine: file numbers, sequence numbers, bg_cv_.                        *)

----------------------------------------------------------------------------
(* File numbers.                                                           *)

\* In an open DB the next number is above every log that exists; in a closed one
\* recovery finds, in the MANIFEST and the names of the logs, what it must exceed.
FileNumbers ==
    /\ manifest.log \in Nat /\ manifest.next \in Nat
    /\ edit.log \in Nat /\ edit.next \in Nat
    /\ logfile_number_ \in Nat /\ nextFile \in Nat /\ logNumber \in Nat
    /\ walFiles \subseteq Nat /\ opens \in Nat
    /\ phase \notin {"closed", "corrupt"} => \A f \in walFiles : f < nextFile

\* Recovery takes a number above all that it knows of.
LEMMA RecoveredLog ==
    ASSUME FileNumbers, OpenRecover
    PROVE  /\ logfile_number_' \in Nat
           /\ nextFile' = logfile_number_' + 1
           /\ manifest.log < logfile_number_'
           /\ \A f \in walFiles : f < logfile_number_'
<1> DEFINE taken == NumbersTaken(LiveLogs(walFiles, manifest))
<1>1. /\ \A x \in taken : x \in Nat
      /\ manifest.log \in taken
      /\ \A f \in walFiles : f >= manifest.log => f \in taken
  BY DEF FileNumbers, NumbersTaken, LiveLogs
<1> HIDE DEF taken
<1>2. PICK n : /\ \E k \in 0..n, m \in taken :
                    /\ \A x \in taken : x < m + 1 + k
                    /\ logfile_number_' = m + 1 + k
               /\ nextFile' = logfile_number_' + 1
  BY DEF OpenRecover, taken
<1>3. PICK k \in 0..n, m \in taken : /\ \A x \in taken : x < m + 1 + k
                                     /\ logfile_number_' = m + 1 + k
  BY <1>2
<1>4. k \in Nat /\ m \in Nat
  BY <1>1, <1>3
<1>5. ASSUME NEW f \in walFiles
      PROVE  f < logfile_number_'
  <2>1. f \in Nat /\ manifest.log \in Nat
    BY DEF FileNumbers
  <2>2. CASE f >= manifest.log
    BY <1>1, <1>3, <2>2
  <2>3. CASE f < manifest.log
    <3>1. manifest.log < logfile_number_'
      BY <1>1, <1>3
    <3> QED BY <1>3, <1>4, <2>1, <2>3, <3>1
  <2> QED BY <2>1, <2>2, <2>3
<1>6. manifest.log < logfile_number_'
  BY <1>1, <1>3
<1> QED BY <1>2, <1>3, <1>4, <1>5, <1>6

\* What the actions do to the numbers, those aside that open a log.
LEMMA NumbersMove ==
    ASSUME FileNumbers, Next, ~OpenRecover, \A w \in Writers : ~RoomSwitch(w)
    PROVE  /\ logfile_number_' = logfile_number_ /\ opens' = opens
           /\ walFiles' \subseteq walFiles
           /\ nextFile' \in Nat /\ nextFile' >= nextFile
           /\ edit'.log \in {edit.log, logNumber, logfile_number_}
           /\ edit'.next \in {edit.next, nextFile}
           /\ logNumber' \in {logNumber, edit.log}
           /\ manifest'.log \in {manifest.log, edit.log}
           /\ manifest'.next \in {manifest.next, edit.next}
           /\ phase' \notin {"closed", "corrupt"} => phase \notin {"closed", "corrupt"}
<1> USE DEF memVars, verVars, flagVars, queueVars, walVars, manVars, bgVars, engineVars,
            histVars, budgets, FileNumbers
<1>1. CASE \E w \in Writers, op \in Ops : Write(w, op)
  BY <1>1 DEF Write
<1>2. CASE \E w \in Writers : WriterStep(w)
  <2>1. PICK w \in Writers : WriterStep(w)
    BY <1>2
  <2>2. /\ UNCHANGED <<logfile_number_, nextFile, logNumber, walFiles, edit, manifest, phase>>
        /\ opens' = opens
    <3>1. CASE RoomError(w) \/ RoomSlowdown(w) \/ RoomReady(w) \/ RoomWait(w)
               \/ RoomSwitchFails(w)
      BY <3>1 DEF RoomError, RoomSlowdown, RoomReady, RoomWait, RoomSwitchFails
    <3>2. CASE AddRecord(w) \/ AddRecordFails(w) \/ SyncLog(w) \/ SyncLogFails(w)
      BY <3>2 DEF AddRecord, AddRecordFails, SyncLog, SyncLogFails
    <3>3. CASE InsertInto(w) \/ Publish(w) \/ Return(w) \/ AwaitFlush(w)
      BY <3>3 DEF InsertInto, Publish, Return, AwaitFlush
    <3> QED BY <2>1, <3>1, <3>2, <3>3 DEF WriterStep
  <2> QED BY <2>2
<1>3. CASE BackgroundStep
  <2>1. CASE BackgroundNothing \/ StartFlush \/ OpenOutput
    BY <2>1 DEF BackgroundNothing, StartFlush, OpenOutput, Running, Working
  <2>2. CASE FlushTableBuilt \/ MergeDone \/ StartMerge
    BY <2>2 DEF FlushTableBuilt, MergeDone, StartMerge, Running, Working, Edit
  <2>3. CASE ManifestWritten
    BY <2>3 DEF ManifestWritten, Apply
  <2>4. CASE BackgroundFails
    <3>1. manifest' = manifest \/ manifest' = Apply(manifest, edit)
      BY <2>4 DEF BackgroundFails
    <3>2. UNCHANGED <<logfile_number_, nextFile, logNumber, walFiles, edit, phase, opens>>
      BY <2>4 DEF BackgroundFails
    <3>3. manifest'.log \in {manifest.log, edit.log} /\ manifest'.next \in {manifest.next, edit.next}
      BY <3>1 DEF Apply
    <3> QED BY <3>2, <3>3
  <2>5. CASE FlushInstalled \/ MergeInstalled
    <3>1. walFiles' \subseteq walFiles
      BY <2>5 DEF FlushInstalled, MergeInstalled, DeleteObsoleteLogs
    <3>2. UNCHANGED <<logfile_number_, nextFile, edit, manifest, phase, opens>>
      BY <2>5 DEF FlushInstalled, MergeInstalled
    <3>3. logNumber' = edit.log
      BY <2>5 DEF FlushInstalled, MergeInstalled, InstallEdit
    <3> QED BY <3>1, <3>2, <3>3
  <2> QED BY <1>3, <2>1, <2>2, <2>3, <2>4, <2>5 DEF BackgroundStep
<1>4. CASE SuspendCompaction \/ ResumeCompaction \/ Close
  BY <1>4 DEF SuspendCompaction, ResumeCompaction, Close
<1>5. CASE Closed \/ ProcessCrash \/ MachineCrash
  BY <1>5 DEF Closed, ProcessCrash, MachineCrash, Forget
<1>6. CASE OpenCorrupt \/ OpenApply
  BY <1>6 DEF OpenCorrupt, OpenApply, Apply
<1>7. CASE OpenFinish
  <2>1. walFiles' \subseteq walFiles
    BY <1>7 DEF OpenFinish, DeleteObsoleteLogs
  <2>2. UNCHANGED <<logfile_number_, nextFile, edit, manifest, opens>> /\ phase = "applied"
    BY <1>7 DEF OpenFinish
  <2>3. logNumber' = edit.log
    BY <1>7 DEF OpenFinish, InstallEdit
  <2> QED BY <2>1, <2>2, <2>3
<1> QED BY <1>1, <1>2, <1>3, <1>4, <1>5, <1>6, <1>7 DEF Next, OpenStep

LEMMA FileNumbersStep ==
    ASSUME FileNumbers, [Next]_vars
    PROVE  /\ FileNumbers'
           /\ opens' > opens \/ logfile_number_' # logfile_number_
                => logfile_number_' \notin walFiles
<1> USE DEF memVars, verVars, flagVars, bgVars, walVars, manVars, budgets
<1>1. CASE UNCHANGED vars
  BY <1>1 DEF vars, engineVars, FileNumbers
<1>2. CASE OpenRecover
  <2>1. PICK n \in Nat : /\ logfile_number_' = n /\ nextFile' = n + 1
                         /\ \A f \in walFiles : f < n
    BY <1>2, RecoveredLog
  <2>2. /\ walFiles' = walFiles \cup {n}
        /\ edit'.log = n /\ edit'.next = n + 1
        /\ logNumber' = manifest.log /\ manifest' = manifest /\ opens' = opens + 1
    BY <1>2, <2>1 DEF OpenRecover, Edit
  <2>3. \A f \in walFiles' : f \in Nat /\ f < n + 1
    BY <2>1, <2>2 DEF FileNumbers
  <2>4. n \notin walFiles
    BY <2>1 DEF FileNumbers
  <2>5. FileNumbers'
    BY <2>1, <2>2, <2>3 DEF FileNumbers
  <2> QED BY <2>1, <2>4, <2>5
<1>3. CASE \E w \in Writers : RoomSwitch(w)
  <2>1. /\ phase = "open" /\ phase' = phase
        /\ logfile_number_' = nextFile /\ nextFile' = nextFile + 1
        /\ walFiles' = walFiles \cup {nextFile}
        /\ UNCHANGED <<logNumber, edit, manifest, opens>>
    BY <1>3 DEF RoomSwitch, MustSwitch, InRoom
  <2> QED BY <2>1 DEF FileNumbers
<1>4. CASE Next /\ ~OpenRecover /\ ~\E w \in Writers : RoomSwitch(w)
  <2>1. \A w \in Writers : ~RoomSwitch(w)
    BY <1>4
  <2>2. opens' = opens /\ logfile_number_' = logfile_number_
    BY <1>4, <2>1, NumbersMove
  <2>3. FileNumbers'
    <3>1. ASSUME NEW f \in walFiles', phase' \notin {"closed", "corrupt"}
          PROVE  f < nextFile'
      <4>1. f \in walFiles /\ phase \notin {"closed", "corrupt"}
            /\ nextFile' \in Nat /\ nextFile' >= nextFile
        BY <1>4, <2>1, <3>1, NumbersMove
      <4>2. f < nextFile /\ f \in Nat /\ nextFile \in Nat
        BY <4>1 DEF FileNumbers
      <4> QED BY <4>1, <4>2
    <3> QED BY <1>4, <2>1, <3>1, NumbersMove DEF FileNumbers
  <2>4. ~(opens' > opens)
    BY <2>2 DEF FileNumbers
  <2> QED BY <2>2, <2>3, <2>4
<1> QED BY <1>1, <1>2, <1>3, <1>4
\* In every reachable state the numbers are in order, whatever failed or crashed.
THEOREM FileNumbersInvariant == Spec => []FileNumbers
<1>1. Init => FileNumbers
  BY DEF Init, FileNumbers, EmptyManifest, Edit
<1>2. FileNumbers /\ [Next]_vars => FileNumbers'
  BY FileNumbersStep
<1> QED BY <1>1, <1>2, PTL DEF Spec

\* No log is ever created over one that recovery would still read: neither by the
\* switch of memtables nor by an Open() after any sequence of failures and crashes.
THEOREM NoLogIsOverwritten == Spec => NewLogIsNew
<1>1. FileNumbers /\ [Next]_vars
        => [opens' > opens \/ logfile_number_' # logfile_number_
              => logfile_number_' \notin walFiles]_vars
  BY FileNumbersStep
<1> QED BY <1>1, FileNumbersInvariant, PTL DEF Spec, NewLogIsNew

----------------------------------------------------------------------------
(* Waiting for the background thread.                                      *)

\* Unless compactions are suspended, a memtable that is to be flushed keeps a
\* background call scheduled, until an error, which wakes all who wait.
WakeInv ==
    /\ suspends = 0 /\ ~suspending_ /\ bg \in Background
    /\ phase # "closing" => ~shutting_
    /\ phase \notin {"open", "closing"} => ~has_imm_
    /\ phase = "open" /\ has_imm_ /\ ~bg_error_ => Scheduled
    /\ bg_error_ => \A w \in Writers : wr[w].pc \notin {"bgwait", "flushblocked"}

\* Signalling bg_cv_ leaves nobody waiting on it.
LEMMA SignalWakes ==
    ASSUME NEW ws \in [Writers -> Writer]
    PROVE  \A w \in Writers : SignalAll(ws)[w].pc \notin {"bgwait", "flushblocked"}
BY DEF SignalAll, Writer

\* ... nor does the queue move anybody there.
LEMMA DequeueWaits ==
    ASSUME NEW ws \in [Writers -> Writer], NEW n, NEW st \in {"ok", "error", "sync_error"},
           \A w \in Writers : ws[w].pc \notin {"bgwait", "flushblocked"}
    PROVE  \A w \in Writers : Dequeue(ws, n, st)[w].pc \notin {"bgwait", "flushblocked"}
<1> SUFFICES ASSUME NEW w \in Writers
             PROVE  Dequeue(ws, n, st)[w].pc \notin {"bgwait", "flushblocked"}
  OBVIOUS
<1>1. CASE w \in {writers_[i] : i \in 1..n}
  BY <1>1, DequeueEffect
<1>2. CASE w \notin {writers_[i] : i \in 1..n}
  BY <1>2, DequeueEffect
<1> QED BY <1>1, <1>2

LEMMA WriterStepKeepsWake ==
    ASSUME QueueInv, WakeInv, NEW w \in Writers, WriterStep(w)
    PROVE  WakeInv'
<1> USE DEF memVars, verVars, flagVars, bgVars, walVars, manVars, engineVars, histVars, budgets
<1>1. /\ wr \in [Writers -> Writer] /\ bg \in Background /\ suspends = 0
  BY DEF QueueInv, WakeInv
<1>2. ASSUME UNCHANGED <<bg, phase, has_imm_, bg_error_, suspending_, shutting_, suspends>>,
             bg_error_ => \A u \in Writers : wr'[u].pc \notin {"bgwait", "flushblocked"}
      PROVE  WakeInv'
  BY <1>2 DEF WakeInv, Scheduled
<1>3. CASE RoomError(w) \/ RoomSwitchFails(w)
  BY <1>1, <1>2, <1>3, DequeueWaits DEF RoomError, RoomSwitchFails, WakeInv
<1>4. CASE RoomSlowdown(w) \/ RoomWait(w)
  BY <1>1, <1>2, <1>4 DEF RoomSlowdown, RoomWait, NotDelayed, WakeInv
<1>5. CASE RoomReady(w)
  BY <1>1, <1>2, <1>5 DEF RoomReady, NotDelayed
<1>6. CASE RoomSwitch(w)
  <2>1. phase = "open" /\ ~bg_error_ /\ ~shutting_ /\ bg' \in Background
    BY <1>1, <1>6 DEF RoomSwitch, MustSwitch, InRoom, NotDelayed, WakeInv, Background,
                      MaybeScheduleCompaction
  <2>2. Scheduled'
    BY <1>1, <1>6, <2>1 DEF RoomSwitch, MaybeScheduleCompaction, Scheduled, Background
  <2> QED BY <1>6, <2>1, <2>2 DEF RoomSwitch, WakeInv
<1>7. CASE AddRecord(w) \/ AddRecordFails(w) \/ SyncLog(w) \/ SyncLogFails(w) \/ InsertInto(w)
  <2>1. PICK p \in {"sync", "insert", "publish"}, s \in {wr[w].status, "error", "sync_error"} :
          wr' = [wr EXCEPT ![w] = [@ EXCEPT !.pc = p, !.status = s]]
    <3>1. wr[w] \in Writer
      BY <1>1
    <3> QED BY <1>7, <3>1 DEF AddRecord, AddRecordFails, SyncLog, SyncLogFails, InsertInto, Writer
  <2>2. \A u \in Writers : wr'[u].pc = wr[u].pc \/ wr'[u].pc = p
    BY <1>1, <2>1 DEF Writer
  <2>3. bg_error_ => \A u \in Writers : wr'[u].pc \notin {"bgwait", "flushblocked"}
    BY <2>2 DEF WakeInv
  <2>4. UNCHANGED <<bg, phase, has_imm_, bg_error_, suspending_, shutting_, suspends>>
    BY <1>7 DEF AddRecord, AddRecordFails, SyncLog, SyncLogFails, InsertInto
  <2> QED BY <1>2, <2>3, <2>4
<1>8. CASE Publish(w)
  <2> DEFINE woken == IF wr[w].status = "sync_error" /\ ~bg_error_ THEN SignalAll(wr) ELSE wr
             st == IF wr[w].status = "ok" THEN "ok" ELSE "error"
  <2>1. /\ bg_error_' = (bg_error_ \/ wr[w].status = "sync_error")
        /\ wr' = Dequeue(woken, group, st)
        /\ UNCHANGED <<bg, phase, has_imm_, suspending_, shutting_, suspends>>
    BY <1>8 DEF Publish
  <2>2. woken \in [Writers -> Writer] /\ st \in {"ok", "error", "sync_error"}
    BY <1>1, SignalKeepsQueue
  <2>3. bg_error_' => \A u \in Writers : woken[u].pc \notin {"bgwait", "flushblocked"}
    BY <1>1, <2>1, SignalWakes DEF WakeInv
  <2> HIDE DEF woken, st
  <2>4. bg_error_' => \A u \in Writers : wr'[u].pc \notin {"bgwait", "flushblocked"}
    BY <2>1, <2>2, <2>3, DequeueWaits
  <2> QED BY <2>1, <2>4 DEF WakeInv, Scheduled
<1>9. CASE Return(w) \/ AwaitFlush(w)
  <2>1. UNCHANGED <<bg, phase, has_imm_, bg_error_, suspending_, shutting_, suspends>>
    BY <1>9 DEF Return, AwaitFlush
  <2>2. PICK p \in {"flushwait", "flushblocked", "idle"} :
          /\ \A u \in Writers : wr'[u].pc = wr[u].pc \/ wr'[u].pc = p
          /\ p = "flushblocked" => ~bg_error_
    <3>1. PICK r \in Writer : /\ wr' = [wr EXCEPT ![w] = r]
                              /\ r.pc \in {"flushwait", "flushblocked", "idle"}
                              /\ r.pc = "flushblocked" => ~bg_error_
      <4> DEFINE idle == [wr[w] EXCEPT !.pc = "idle", !.op = NoOp]
                 flush(p) == [wr[w] EXCEPT !.pc = p]
      <4>1. /\ idle \in Writer /\ idle.pc = "idle"
            /\ \A p \in {"flushwait", "flushblocked"} : flush(p) \in Writer /\ flush(p).pc = p
        BY <1>1 DEF Writer
      <4>2. \/ wr' = [wr EXCEPT ![w] = idle]
            \/ wr' = [wr EXCEPT ![w] = flush("flushwait")]
            \/ wr' = [wr EXCEPT ![w] = flush("flushblocked")] /\ ~bg_error_
        BY <1>9 DEF Return, AwaitFlush, Answer
      <4> HIDE DEF idle, flush
      <4> QED BY <4>1, <4>2
    <3> QED BY <1>1, <3>1
  <2> QED BY <1>2, <2>1, <2>2 DEF WakeInv
<1> QED BY <1>3, <1>4, <1>5, <1>6, <1>7, <1>8, <1>9 DEF WriterStep

LEMMA BackgroundKeepsWake ==
    ASSUME QueueInv, WakeInv, BackgroundStep
    PROVE  WakeInv'
<1> USE DEF memVars, verVars, flagVars, bgVars, walVars, manVars, engineVars, histVars, budgets,
            queueVars
<1>1. /\ wr \in [Writers -> Writer] /\ bg \in Background /\ suspends = 0
  BY DEF QueueInv, WakeInv
<1>2. \A w \in Writers : SignalAll(wr)[w].pc \notin {"bgwait", "flushblocked"}
  BY <1>1, SignalWakes
<1>3. ASSUME NEW files, UNCHANGED <<phase, suspending_, shutting_, suspends>>, Working,
             EndBackgroundCall(wr, has_imm_', files, bg_error_')
      PROVE  WakeInv'
  <2>1. /\ wr' = SignalAll(wr) /\ bg' \in Background
        /\ ~suspending_ /\ ~shutting_ /\ ~bg_error_' /\ has_imm_' => bg'.pc = "queued"
    BY <1>3 DEF EndBackgroundCall, Background
  <2> QED BY <1>1, <1>2, <1>3, <2>1 DEF WakeInv, Working, Scheduled
<1>4. CASE BackgroundNothing
  <2>1. /\ UNCHANGED <<phase, suspending_, shutting_, suspends, bg_error_, has_imm_>> /\ Working
        /\ EndBackgroundCall(wr, has_imm_, l0, bg_error_)
    BY <1>4 DEF BackgroundNothing, Running
  <2> QED BY <1>3, <2>1
<1>5. CASE StartFlush \/ FlushTableBuilt \/ StartMerge \/ OpenOutput \/ MergeDone \/ ManifestWritten
  <2>1. /\ UNCHANGED <<phase, suspending_, shutting_, suspends, bg_error_, has_imm_, wr>>
        /\ Working
    BY <1>5 DEF StartFlush, FlushTableBuilt, StartMerge, OpenOutput, MergeDone, ManifestWritten, Running
  <2>2. bg' \in Background /\ bg'.pc # "idle"
    <3>1. CASE StartFlush \/ FlushTableBuilt \/ MergeDone
      BY <1>1, <3>1 DEF StartFlush, FlushTableBuilt, MergeDone, Background
    <3>2. CASE OpenOutput \/ ManifestWritten
      BY <1>1, <3>2 DEF OpenOutput, ManifestWritten, Background
    <3>3. CASE StartMerge
      <4>1. CASE \E k \in 1..l0 : bg' = [pc |-> "merge", merging |-> TRUE, inputs |-> k,
                                       outputs |-> 0]
        BY <4>1 DEF Background
      <4>2. CASE bg' = [pc |-> "mergelog", merging |-> FALSE, inputs |-> 1, outputs |-> 0]
        BY <4>2 DEF Background
      <4> QED BY <3>3, <4>1, <4>2 DEF StartMerge
    <3> QED BY <1>5, <3>1, <3>2, <3>3
  <2> QED BY <2>1, <2>2 DEF WakeInv, Scheduled
<1>6. CASE FlushInstalled
  <2>1. /\ UNCHANGED <<phase, suspending_, shutting_, suspends, bg_error_>> /\ Working
        /\ has_imm_' = FALSE
    BY <1>6 DEF FlushInstalled, Running
  <2>2. CASE bg.merging
    <3>1. bg' \in Background /\ wr' = SignalAll(wr)
      BY <1>1, <1>6, <2>2 DEF FlushInstalled, Background
    <3> QED BY <1>2, <2>1, <3>1 DEF WakeInv
  <2>3. CASE ~bg.merging
    BY <1>3, <1>6, <2>1, <2>3 DEF FlushInstalled
  <2> QED BY <2>2, <2>3
<1>7. CASE MergeInstalled
  <2>1. /\ UNCHANGED <<phase, suspending_, shutting_, suspends, bg_error_, has_imm_>> /\ Working
        /\ EndBackgroundCall(wr, has_imm_, l0', bg_error_)
    BY <1>7 DEF MergeInstalled, Running
  <2> QED BY <1>3, <2>1
<1>8. CASE BackgroundFails
  <2>1. /\ UNCHANGED <<phase, suspending_, shutting_, suspends, has_imm_>> /\ Working
        /\ bg_error_' = TRUE
    BY <1>8 DEF BackgroundFails, Running
  <2>2. CASE bg' = [bg EXCEPT !.pc = "merge"] /\ wr' = SignalAll(wr)
    <3>1. bg' \in Background
      BY <1>1, <2>2 DEF Background
    <3> QED BY <1>2, <2>1, <2>2, <3>1 DEF WakeInv, Working
  <2>3. CASE EndBackgroundCall(wr, has_imm_, l0, TRUE)
    BY <1>3, <2>1, <2>3
  <2> QED BY <1>8, <2>2, <2>3 DEF BackgroundFails
<1> QED BY <1>4, <1>5, <1>6, <1>7, <1>8 DEF BackgroundStep

LEMMA WakeStep ==
    ASSUME MaxSuspends = 0, QueueInv, WakeInv, [Next]_vars
    PROVE  WakeInv'
<1> USE DEF memVars, verVars, flagVars, bgVars, walVars, manVars, engineVars, histVars, budgets,
            queueVars
<1>1. wr \in [Writers -> Writer] /\ suspends = 0
  BY DEF QueueInv, WakeInv
<1>2. CASE UNCHANGED vars
  BY <1>2 DEF vars, WakeInv, Scheduled
<1>3. ASSUME NEW w \in Writers, NEW op \in Ops, Write(w, op)
      PROVE  WakeInv'
  BY <1>1, <1>3 DEF Write, WakeInv, Scheduled
<1>4. ASSUME NEW w \in Writers, WriterStep(w)
      PROVE  WakeInv'
  BY <1>4, WriterStepKeepsWake
<1>5. CASE BackgroundStep
  BY <1>5, BackgroundKeepsWake
<1>6. CASE SuspendCompaction
  BY <1>1, <1>6 DEF SuspendCompaction
<1>7. CASE ResumeCompaction \/ Close
  BY <1>7 DEF ResumeCompaction, Close, WakeInv, Scheduled
<1>8. CASE Closed \/ ProcessCrash \/ MachineCrash
  <2>1. Forget /\ phase' = "closed" /\ suspends' = suspends
    BY <1>8 DEF Closed, ProcessCrash, MachineCrash
  <2> QED BY <1>1, <2>1 DEF Forget, WakeInv, Background
<1>9. CASE OpenRecover \/ OpenCorrupt \/ OpenApply
  BY <1>9 DEF OpenRecover, OpenCorrupt, OpenApply, WakeInv
<1>10. CASE OpenFinish
  <2>1. bg' \in Background
    BY <1>10 DEF OpenFinish, WakeInv, Background, MaybeScheduleCompaction
  <2> QED BY <1>10, <2>1 DEF OpenFinish, WakeInv
<1> QED BY <1>2, <1>3, <1>4, <1>5, <1>6, <1>7, <1>8, <1>9, <1>10 DEF Next, OpenStep

\* If nobody suspends compactions, a writer that waits on bg_cv_ because of imm_
\* always has a background call that will wake it: with any number of writers, and
\* failures and crashes at any point.
THEOREM WaitersHaveACompaction == MaxSuspends = 0 => (Spec => []WaitsForACompaction)
<1> SUFFICES ASSUME MaxSuspends = 0 PROVE Spec => []WaitsForACompaction
  OBVIOUS
<1>1. Init => WakeInv
  BY DEF Init, WakeInv, Background
<1>2. WakeInv /\ QueueInv /\ QueueInv' /\ [Next]_vars => WakeInv'
  BY WakeStep
<1>3. WakeInv => WaitsForACompaction
  BY DEF WakeInv, WaitsForACompaction
<1> QED BY <1>1, <1>2, <1>3, QueueInvariant, PTL DEF Spec

----------------------------------------------------------------------------
(* Sequence numbers.                                                       *)

\* the group that the leader has begun to log
Logging == writers_ # <<>> /\ wr[Head(writers_)].pc \in {"sync", "insert", "publish"}
Flight  == IF Logging THEN GroupEntries ELSE {}

\* An edit that is on its way to the MANIFEST, or from there to the version
EditPending ==
    \/ phase \in {"recovered", "applied"}
    \/ bg.pc \in {"flushlog", "flushinstall", "mergelog", "mergeinstall"}

\* Every entry that is in a file or in memory, or may get there
Everything ==
    Contents(wal) \cup manifest.tables \cup (IF EditPending THEN edit.added ELSE {})
        \cup mem_ \cup imm_ \cup Flight

EntriesInv ==
    /\ Everything \subseteq Entry
    /\ wal \subseteq LogEntry /\ \A e \in wal : e.file \in walFiles
    /\ bg \in Background
    /\ ~Working => /\ bg.pc = "idle" /\ mem_ = {} /\ imm_ = {} /\ writers_ = <<>>
    /\ ~has_imm_ => imm_ = {}
    /\ tables \subseteq manifest.tables
    /\ phase = "applied" \/ bg.pc \in {"flushinstall", "mergeinstall"}
         => edit.added \subseteq manifest.tables

\* One number, one batch; and who was called after an answer is numbered after it.
DistinctInv ==
    \A d, e \in Everything : /\ d.seq = e.seq <=> d.op = e.op
                             /\ d.op \in before[e.op] => d.seq < e.seq

\* A batch is logged once: it is new, or pending in one call, or finished, and in
\* the queue it is in no file or memory before its group is logged.
CallsInv ==
    /\ result \in [Ops -> {"new", "pending", "ok", "error", "sync_error", "lost"}]
    /\ before \in [Ops -> SUBSET acked]
    /\ acked \subseteq {op \in Ops : result[op] = "ok"}
    /\ \A op \in Ops : result[op] = "new" => op \notin OpsOf(Everything)
    /\ \A w \in Writers : /\ wr[w].pc # "idle" => wr[w].op \in Ops
                          /\ wr[w].op \in Ops => result[wr[w].op] = "pending"
    /\ \A v, w \in Writers : wr[v].op = wr[w].op /\ wr[v].op \in Ops => v = w
    /\ \A i \in 1..Len(writers_) :
         i > group \/ ~Logging => wr[writers_[i]].op \notin OpsOf(Everything)

\* What bounds the numbers in use: lastSequence while the DB is open, and what the
\* next recovery finds in the MANIFEST and in the logs when it is not.
BoundsInv ==
    /\ lastSequence \in Nat /\ manifest.seq \in Nat /\ edit.seq \in Nat
    /\ \E n \in Nat : \A e \in wal : e.seq <= n
    /\ \A x \in manifest.tables : x.seq <= manifest.seq
    /\ \A e \in wal : e.file < manifest.log => e.seq <= manifest.seq
    /\ phase \notin {"closed", "corrupt"} =>
         /\ \A x \in Everything : x.seq <= lastSequence \/ x \in Flight
         /\ \A x \in imm_ : x.seq <= lastSequence
         /\ \A e \in wal : e.file < logfile_number_ => e.seq <= lastSequence
         /\ manifest.seq <= lastSequence
         /\ manifest.log <= logfile_number_ /\ logNumber <= logfile_number_
         /\ logfile_number_ < nextFile /\ logfile_number_ \in walFiles
    /\ EditPending =>
         /\ edit.log <= logfile_number_
         /\ manifest.seq <= edit.seq /\ edit.seq <= lastSequence
         /\ \A x \in edit.added : x.seq <= edit.seq
         /\ \A e \in wal : e.file < edit.log => e.seq <= edit.seq

OrderInv == EntriesInv /\ DistinctInv /\ CallsInv /\ BoundsInv

\* Every set of naturals that is not empty has a least member,
LEMMA LeastOf ==
    ASSUME NEW T \in SUBSET Nat, T # {}
    PROVE  \E x \in T : \A y \in T : x <= y
<1>1. PICK x \in T : \A y \in T : ~(<<y, x>> \in OpToRel(<, Nat))
  BY NatLessThanWellFounded, WFMin
<1>2. OpToRel(<, Nat) = {ss \in Nat \X Nat : ss[1] < ss[2]}
  BY Zenon DEF OpToRel
<1>3. ASSUME NEW y \in T
      PROVE  x <= y
  <2>1. ~(<<y, x>> \in {ss \in Nat \X Nat : ss[1] < ss[2]})
    BY <1>1, <1>2, Zenon
  <2>2. <<y, x>> \in Nat \X Nat /\ (y < x => <<y, x>>[1] < <<y, x>>[2])
    OBVIOUS
  <2>3. ~(y < x)
    BY <2>1, <2>2
  <2> QED BY <2>3
<1> QED BY <1>3

\* ... and a greatest one if it is bounded: the CHOOSE of LastRecovered() finds it.
LEMMA GreatestOf ==
    ASSUME NEW S \in SUBSET Nat, S # {}, NEW n \in Nat, \A s \in S : s <= n
    PROVE  \E m \in S : \A s \in S : s <= m
<1> DEFINE T == {k \in Nat : \A s \in S : s <= k}
<1>1. PICK m \in T : \A k \in T : m <= k
  BY LeastOf
<1>2. CASE m \in S
  BY <1>1, <1>2
<1>3. CASE m \notin S
  <2>1. \A s \in S : s <= m - 1 /\ m - 1 \in Nat
    BY <1>1, <1>3
  <2>2. m - 1 \in T
    BY <2>1
  <2> QED BY <1>1, <2>2
<1> QED BY <1>2, <1>3

\* Of the places that are counted the later has the higher number.
LEMMA CountGrows ==
    ASSUME NEW P, NEW i \in Nat, NEW j \in Nat, i <= j
    PROVE  /\ Cardinality({k \in 1..i : k \in P}) \in Nat
           /\ Cardinality({k \in 1..j : k \in P}) \in Nat
           /\ Cardinality({k \in 1..i : k \in P}) <= Cardinality({k \in 1..j : k \in P})
           /\ i < j /\ j \in P => Cardinality({k \in 1..i : k \in P}) # Cardinality({k \in 1..j : k \in P})
<1> DEFINE A == {k \in 1..i : k \in P}
           B == {k \in 1..j : k \in P}
<1>1. IsFiniteSet(1..i) /\ IsFiniteSet(1..j)
  BY FS_Interval
<1>2. IsFiniteSet(A) /\ IsFiniteSet(B) /\ A \subseteq B
  BY <1>1, FS_Subset
<1>3. i < j /\ j \in P => j \in B /\ j \notin A
  OBVIOUS
<1>4. /\ Cardinality(A) <= Cardinality(B)
      /\ i < j /\ j \in P => Cardinality(A) # Cardinality(B)
  BY <1>2, <1>3, FS_Subset
<1>5. Cardinality(A) \in Nat /\ Cardinality(B) \in Nat
  BY <1>2, FS_CardinalityType
<1> QED BY <1>4, <1>5

\* The group takes the numbers that follow lastSequence, each batch its own.
LEMMA GroupNumbers ==
    ASSUME QueueInv, CallsInv, lastSequence \in Nat, group \in 1..Len(writers_)
    PROVE  /\ Count(group) \in Nat
           /\ GroupEntries \subseteq Entry
           /\ \A x \in GroupEntries : /\ lastSequence < x.seq
                                      /\ x.seq <= lastSequence + Count(group)
                                      /\ x.op \in Ops /\ result[x.op] = "pending"
                                      /\ \E i \in 1..group : x.op = wr[writers_[i]].op
           /\ \A x, y \in GroupEntries : x.seq = y.seq <=> x.op = y.op
<1> DEFINE P == {i \in 1..Len(writers_) : wr[writers_[i]].op \notin NullOps}
<1>1. /\ \A i \in 1..Len(writers_) : writers_[i] \in Writers
      /\ Len(writers_) \in Nat /\ group \in Nat /\ group <= Len(writers_)
  BY DEF QueueInv
<1> DEFINE upTo(i) == Cardinality({k \in 1..i : k \in P})
<1>0. \A i, j \in Nat : i <= j => /\ upTo(i) \in Nat /\ upTo(j) \in Nat
                                  /\ upTo(i) <= upTo(j)
                                  /\ i < j /\ j \in P => upTo(i) # upTo(j)
  <2> HIDE DEF P
  <2> QED BY CountGrows
<1>2. \A i \in 1..group : Count(i) = upTo(i)
  <2> SUFFICES ASSUME NEW i \in 1..group
               PROVE  Count(i) = upTo(i)
    OBVIOUS
  <2>1. {k \in 1..i : wr[writers_[k]].op \notin NullOps} = {k \in 1..i : k \in P}
    BY <1>1
  <2> QED BY <2>1 DEF Count
<1> DEFINE I == {i \in 1..group : i \in P}
           n(i) == lastSequence + Count(i)
           x(i) == [seq |-> n(i), op |-> wr[writers_[i]].op]
<1>3. GroupEntries = {x(i) : i \in I}
  <2>1. {j \in 1..group : wr[writers_[j]].op \notin NullOps} = I
    BY <1>1
  <2> QED BY <2>1 DEF GroupEntries
<1>4. \A i, j \in 1..group :
        /\ Count(i) \in Nat
        /\ i <= j => Count(i) <= Count(j)
        /\ i < j /\ j \in P => Count(i) # Count(j)
  <2> SUFFICES ASSUME NEW i \in 1..group, NEW j \in 1..group
               PROVE  /\ Count(i) \in Nat
                      /\ i <= j => Count(i) <= Count(j)
                      /\ i < j /\ j \in P => Count(i) # Count(j)
    OBVIOUS
  <2>1. i \in Nat /\ j \in Nat /\ i <= i /\ Count(i) = upTo(i) /\ Count(j) = upTo(j)
    BY <1>1, <1>2
  <2> HIDE DEF upTo, P
  <2>2. upTo(i) \in Nat
    BY <1>0, <2>1
  <2>3. CASE i <= j
    <3>1. upTo(i) <= upTo(j) /\ (i < j /\ j \in P => upTo(i) # upTo(j))
      BY <1>0, <2>1, <2>3
    <3> QED BY <2>1, <2>2, <3>1
  <2>4. CASE ~(i <= j)
    <3>1. ~(i < j)
      BY <2>1, <2>4
    <3> QED BY <2>1, <2>2, <2>4, <3>1
  <2> QED BY <2>3, <2>4
<1>5. \A i \in I : Count(i) >= 1
  <2> SUFFICES ASSUME NEW i \in I PROVE Count(i) >= 1
    OBVIOUS
  <2>1. i \in Nat /\ 0 \in Nat /\ 0 < i /\ i \in P /\ Count(i) = upTo(i)
    BY <1>1, <1>2
  <2>2. upTo(0) = 0
    <3>1. {k \in 1..0 : k \in P} = {}
      OBVIOUS
    <3> QED BY <3>1, FS_EmptySet
  <2> HIDE DEF P, upTo
  <2>3. upTo(0) # upTo(i) /\ upTo(0) <= upTo(i) /\ upTo(i) \in Nat
    BY <1>0, <2>1
  <2> QED BY <2>1, <2>2, <2>3
<1>6. \A i \in I : /\ wr[writers_[i]].op \in Ops
                   /\ result[wr[writers_[i]].op] = "pending"
  <2> SUFFICES ASSUME NEW i \in I
               PROVE  /\ wr[writers_[i]].op \in Ops
                      /\ result[wr[writers_[i]].op] = "pending"
    OBVIOUS
  <2>1. i \in 1..Len(writers_) /\ writers_[i] \in Writers
    BY <1>1
  <2>2. wr[writers_[i]].pc # "idle"
    <3>1. CASE i = 1
      <4>1. writers_ # <<>> /\ Head(writers_) = writers_[1]
        BY <2>1 DEF QueueInv
      <4> QED BY <2>1, <3>1, <4>1 DEF QueueInv, Leading
    <3>2. CASE i # 1
      <4>1. i \in 2..Len(writers_)
        BY <2>1, <3>2
      <4> QED BY <2>1, <4>1 DEF QueueInv
    <3> QED BY <3>1, <3>2
  <2> QED BY <2>1, <2>2 DEF CallsInv
<1>7. \A i, j \in I : wr[writers_[i]].op = wr[writers_[j]].op => i = j
  <2> SUFFICES ASSUME NEW i \in I, NEW j \in I, wr[writers_[i]].op = wr[writers_[j]].op
               PROVE  i = j
    OBVIOUS
  <2>1. /\ i \in 1..Len(writers_) /\ j \in 1..Len(writers_)
        /\ writers_[i] \in Writers /\ writers_[j] \in Writers
    BY <1>1
  <2>2. writers_[i] = writers_[j]
    BY <1>6, <2>1 DEF CallsInv
  <2> QED BY <2>1, <2>2 DEF QueueInv
<1>8. \A i, j \in I : Count(i) = Count(j) => i = j
  <2> SUFFICES ASSUME NEW i \in I, NEW j \in I, i # j
               PROVE  Count(i) # Count(j)
    OBVIOUS
  <2>1. i \in 1..group /\ j \in 1..group /\ i \in P /\ j \in P /\ (i < j \/ j < i)
    BY <1>1
  <2> QED BY <1>4, <2>1
<1>9. \A i \in I : n(i) \in Nat /\ lastSequence < n(i) /\ n(i) <= lastSequence + Count(group)
  <2> SUFFICES ASSUME NEW i \in I
               PROVE  n(i) \in Nat /\ lastSequence < n(i) /\ n(i) <= lastSequence + Count(group)
    OBVIOUS
  <2>1. /\ i \in 1..group /\ group \in 1..group /\ i <= group
    BY <1>1
  <2>2. Count(i) \in Nat /\ Count(i) >= 1 /\ Count(i) <= Count(group) /\ Count(group) \in Nat
    BY <1>4, <1>5, <2>1
  <2> QED BY <2>2
<1> HIDE DEF I, P, n
<1>10. \A i \in I : x(i) \in Entry
  BY <1>6, <1>9 DEF Entry
<1>11. \A i, j \in I : n(i) = n(j) <=> Count(i) = Count(j)
  BY <1>4 DEF n, I
<1> QED BY <1>3, <1>4, <1>6, <1>7, <1>8, <1>9, <1>10, <1>11 DEF I

\* A step that adds no entry keeps the entries distinct.
LEMMA Shrink ==
    ASSUME DistinctInv, Everything' \subseteq Everything, before' = before
    PROVE  DistinctInv'
BY DEF DistinctInv

\* The group that is being written stays what it is while the calls that are in the
\* queue stay there.
LEMMA FlightSame ==
    ASSUME QueueInv, writers_' = writers_, group' = group, lastSequence' = lastSequence,
           \A w \in Writers :
             /\ wr'[w].op = wr[w].op
             /\ wr'[w].pc \in {"sync", "insert", "publish"}
                  <=> wr[w].pc \in {"sync", "insert", "publish"}
    PROVE  /\ Logging' <=> Logging
           /\ Flight' = Flight
<1>1. /\ writers_ # <<>> => Head(writers_) \in Writers
      /\ group \in Nat /\ \A i \in 1..group : i <= Len(writers_) => writers_[i] \in Writers
  BY DEF QueueInv
<1>2. Logging' <=> Logging
  <2> DEFINE h == Head(writers_)
  <2>1. /\ Logging <=> writers_ # <<>> /\ wr[h].pc \in {"sync", "insert", "publish"}
        /\ Logging' <=> writers_ # <<>> /\ wr'[h].pc \in {"sync", "insert", "publish"}
        /\ writers_ # <<>> => h \in Writers
    BY <1>1 DEF Logging
  <2> HIDE DEF h
  <2> QED BY <2>1
<1>3. Logging => GroupEntries' = GroupEntries
  <2>1. Logging => group \in 1..Len(writers_)
    <3> DEFINE h == Head(writers_)
    <3>1. Logging => h \in Writers /\ wr[h].pc \in {"sync", "insert", "publish"}
      BY <1>1 DEF Logging
    <3> HIDE DEF h
    <3> QED BY <3>1 DEF QueueInv
  <2>2. Logging => \A i \in 1..group : writers_[i] \in Writers
    BY <2>1 DEF QueueInv
  <2> QED BY <1>1, <2>2, GroupSame
<1> QED BY <1>2, <1>3 DEF Flight

\* The calls that have not been logged keep away from the entries while they move
\* up in the queue.
LEMMA CallsQueue ==
    ASSUME QueueInv, CallsInv, Everything' \subseteq Everything,
           UNCHANGED <<result, acked, before>>,
           \A w \in Writers : /\ wr'[w].op = wr[w].op
                              /\ wr'[w].pc # "idle" => wr[w].pc # "idle",
           \A i \in 1..Len(writers_') : i > group' \/ ~Logging' =>
             \E j \in 1..Len(writers_) : /\ j > group \/ ~Logging
                                         /\ writers_[j] = writers_'[i]
    PROVE  CallsInv'
<1>1. OpsOf(Everything)' \subseteq OpsOf(Everything)
  BY DEF OpsOf
<1>2. ASSUME NEW i \in 1..Len(writers_'), i > group' \/ ~Logging'
      PROVE  wr'[writers_'[i]].op \notin OpsOf(Everything)'
  <2>1. PICK j \in 1..Len(writers_) : /\ j > group \/ ~Logging
                                      /\ writers_[j] = writers_'[i]
    BY <1>2
  <2>2. writers_[j] \in Writers
    BY DEF QueueInv
  <2>3. wr[writers_[j]].op \notin OpsOf(Everything)
    BY <2>1 DEF CallsInv
  <2> QED BY <1>1, <2>1, <2>2, <2>3
<1>3. \A op \in Ops : result'[op] = "new" => op \notin OpsOf(Everything)'
  BY <1>1 DEF CallsInv
<1>4. \A w \in Writers : /\ wr'[w].pc # "idle" => wr'[w].op \in Ops
                         /\ wr'[w].op \in Ops => result'[wr'[w].op] = "pending"
  BY DEF CallsInv
<1>5. \A v, w \in Writers : wr'[v].op = wr'[w].op /\ wr'[v].op \in Ops => v = w
  BY DEF CallsInv
<1>6. /\ result' \in [Ops -> {"new", "pending", "ok", "error", "sync_error", "lost"}]
      /\ before' \in [Ops -> SUBSET acked']
      /\ acked' \subseteq {op \in Ops : result'[op] = "ok"}
  BY DEF CallsInv
<1> QED BY <1>2, <1>3, <1>4, <1>5, <1>6 DEF CallsInv

LEMMA CallsSame ==
    ASSUME QueueInv, CallsInv, Everything' \subseteq Everything,
           UNCHANGED <<result, acked, before, writers_>>,
           \A w \in Writers : /\ wr'[w].op = wr[w].op
                              /\ wr'[w].pc # "idle" => wr[w].pc # "idle",
           Logging => Logging' /\ group' = group
    PROVE  CallsInv'
<1>1. \A i \in 1..Len(writers_') : i > group' \/ ~Logging' =>
        \E j \in 1..Len(writers_) : /\ j > group \/ ~Logging
                                    /\ writers_[j] = writers_'[i]
  OBVIOUS
<1> QED BY <1>1, CallsQueue

\* Steps that leave files, memtables and the edit under way alone.
LEMMA Frame ==
    ASSUME EntriesInv, BoundsInv, FileNumbers,
           UNCHANGED <<mem_, imm_, has_imm_, logfile_number_>>,
           UNCHANGED <<lastSequence, logNumber, tables, edit, walFiles, wal, manifest>>,
           nextFile' \in Nat, nextFile' >= nextFile,
           phase' = phase \/ (phase = "open" /\ phase' = "closing"),
           bg' \in Background, EditPending' => EditPending,
           bg'.pc \in {"flushinstall", "mergeinstall"} => bg'.pc = bg.pc,
           Working \/ (bg' = bg /\ writers_' = writers_),
           Flight' = Flight
    PROVE  Everything' \subseteq Everything /\ EntriesInv' /\ BoundsInv'
<1>1. Everything' \subseteq Everything
  BY DEF Everything, Contents, Content
<1>2. EntriesInv'
  BY <1>1 DEF EntriesInv, Working
<1>3. ASSUME phase' \notin {"closed", "corrupt"}
      PROVE  /\ \A x \in Everything' : x.seq <= lastSequence \/ x \in Flight'
             /\ \A x \in imm_ : x.seq <= lastSequence
             /\ \A e \in wal : e.file < logfile_number_ => e.seq <= lastSequence
             /\ manifest.seq <= lastSequence
             /\ manifest.log <= logfile_number_ /\ logNumber <= logfile_number_
             /\ logfile_number_ < nextFile' /\ logfile_number_ \in walFiles
  BY <1>1, <1>3 DEF BoundsInv, FileNumbers
<1>4. BoundsInv'
  BY <1>3 DEF BoundsInv
<1> QED BY <1>1, <1>2, <1>4

\* A call of Write() joins the queue: it is after all that was acknowledged.
LEMMA WriteOrder ==
    ASSUME QueueInv, FileNumbers, OrderInv, NEW w \in Writers, NEW op \in Ops, Write(w, op)
    PROVE  OrderInv'
<1> USE DEF engineVars, memVars, verVars, flagVars, bgVars, walVars, manVars
<1>1. /\ EntriesInv /\ DistinctInv /\ CallsInv /\ BoundsInv
      /\ wr \in [Writers -> Writer] /\ writers_ \in Seq(Writers) /\ group \in Nat
      /\ Len(writers_) \in Nat /\ Working /\ bg \in Background /\ nextFile \in Nat
  BY DEF OrderInv, QueueInv, Write, Working, EntriesInv, FileNumbers
<1>2. /\ wr[w].pc = "idle" /\ result[op] = "new"
      /\ result' = [result EXCEPT ![op] = "pending"]
      /\ before' = [before EXCEPT ![op] = acked]
      /\ writers_' = Append(writers_, w) /\ group' = group /\ acked' = acked
      /\ UNCHANGED engineVars
  BY DEF Write
<1>3. /\ \A u \in Writers : u # w => wr'[u] = wr[u]
      /\ wr'[w].op = op /\ wr'[w].pc \in {"room", "queue"}
  BY <1>1 DEF Write
<1>4. \A i \in 1..Len(writers_) : writers_[i] \in Writers /\ wr[writers_[i]].pc # "idle"
  <2> SUFFICES ASSUME NEW i \in 1..Len(writers_)
               PROVE  writers_[i] \in Writers /\ wr[writers_[i]].pc # "idle"
    OBVIOUS
  <2>1. writers_[i] \in Writers
    BY <1>1
  <2>2. CASE i = 1
    <3>1. writers_ # <<>> /\ Head(writers_) = writers_[1]
      BY <1>1
    <3> QED BY <2>1, <2>2, <3>1 DEF QueueInv, Leading
  <2>3. CASE i # 1
    <3>1. i \in 2..Len(writers_)
      BY <1>1, <2>3
    <3> QED BY <2>1, <3>1 DEF QueueInv
  <2> QED BY <2>1, <2>2, <2>3
<1>5. /\ Len(writers_') = Len(writers_) + 1
      /\ \A i \in 1..Len(writers_) : writers_'[i] = writers_[i] /\ writers_'[i] # w
      /\ writers_'[Len(writers_) + 1] = w
  BY <1>1, <1>2, <1>4
<1>6. /\ Logging' <=> Logging
      /\ Flight' = Flight
  <2>1. CASE writers_ = <<>>
    <3>1. Head(writers_') = w
      BY <1>1, <1>2, <2>1
    <3>2. ~Logging /\ ~Logging'
      BY <1>3, <2>1, <3>1 DEF Logging
    <3> QED BY <3>2 DEF Flight
  <2>2. CASE writers_ # <<>>
    <3>1. /\ Head(writers_') = Head(writers_) /\ writers_' # <<>>
          /\ Head(writers_) = writers_[1] /\ 1 \in 1..Len(writers_)
      BY <1>1, <1>2, <2>2
    <3>2. Head(writers_) \in Writers /\ wr'[Head(writers_)] = wr[Head(writers_)]
      BY <1>3, <1>4, <1>5, <3>1
    <3>3. Logging' <=> Logging
      BY <3>1, <3>2, <2>2 DEF Logging
    <3>4. Logging => group \in 1..Len(writers_)
      BY <3>2 DEF Logging, QueueInv
    <3>5. Logging => \A i \in 1..group : /\ writers_'[i] = writers_[i]
                                         /\ wr'[writers_[i]].op = wr[writers_[i]].op
      BY <1>1, <1>3, <1>4, <1>5, <3>4
    <3>6. Logging => GroupEntries' = GroupEntries
      BY <1>1, <1>2, <3>5, GroupSame
    <3> QED BY <3>3, <3>6 DEF Flight
  <2> QED BY <2>1, <2>2
<1>7. Everything' \subseteq Everything /\ EntriesInv' /\ BoundsInv'
  <2>1. /\ UNCHANGED <<mem_, imm_, has_imm_, logfile_number_>>
        /\ UNCHANGED <<lastSequence, logNumber, tables, edit, walFiles, wal, manifest>>
        /\ nextFile' \in Nat /\ nextFile' >= nextFile /\ phase' = phase /\ bg' = bg
    BY <1>1, <1>2
  <2>2. EditPending' => EditPending
    BY <2>1 DEF EditPending
  <2>3. /\ bg' \in Background /\ Working
        /\ bg'.pc \in {"flushinstall", "mergeinstall"} => bg'.pc = bg.pc
    BY <1>1, <2>1
  <2> QED BY <1>1, <1>6, <2>1, <2>2, <2>3, Frame
<1>8. /\ op \notin OpsOf(Everything) /\ OpsOf(Everything)' \subseteq OpsOf(Everything)
      /\ op \notin acked
  <2>2. op \notin OpsOf(Everything)
    BY <1>1, <1>2 DEF CallsInv
  <2>3. OpsOf(Everything)' \subseteq OpsOf(Everything)
    BY <1>7 DEF OpsOf
  <2> QED BY <1>1, <1>2, <2>2, <2>3 DEF CallsInv
<1>9. DistinctInv'
  <2> SUFFICES ASSUME NEW d \in Everything, NEW e \in Everything
               PROVE  /\ d.seq = e.seq <=> d.op = e.op
                      /\ d.op \in before'[e.op] => d.seq < e.seq
    BY <1>7 DEF DistinctInv
  <2>1. e.op # op /\ e.op \in Ops
    BY <1>1, <1>8 DEF OpsOf, EntriesInv, Entry
  <2>2. before'[e.op] = before[e.op]
    BY <1>1, <1>2, <2>1 DEF CallsInv
  <2> QED BY <1>1, <2>2 DEF DistinctInv
<1>10. CallsInv'
  <2>1. /\ result' \in [Ops -> {"new", "pending", "ok", "error", "sync_error", "lost"}]
        /\ before' \in [Ops -> SUBSET acked']
        /\ acked' \subseteq {o \in Ops : result'[o] = "ok"}
        /\ \A o \in Ops : result'[o] = "new" => o \notin OpsOf(Everything)'
    BY <1>1, <1>2, <1>8 DEF CallsInv
  <2>2. \A u \in Writers : /\ wr'[u].pc # "idle" => wr'[u].op \in Ops
                           /\ wr'[u].op \in Ops => result'[wr'[u].op] = "pending"
    BY <1>1, <1>2, <1>3 DEF CallsInv
  <2>3. \A u \in Writers : u # w => wr'[u].op # op
    BY <1>1, <1>2, <1>3 DEF CallsInv
  <2>4. \A u, v \in Writers : wr'[u].op = wr'[v].op /\ wr'[u].op \in Ops => u = v
    BY <1>1, <1>3, <2>3 DEF CallsInv
  <2>5. ASSUME NEW i \in 1..Len(writers_'), i > group' \/ ~Logging'
        PROVE  wr'[writers_'[i]].op \notin OpsOf(Everything)'
    <3>1. CASE i = Len(writers_) + 1
      BY <1>3, <1>5, <1>8, <3>1
    <3>2. CASE i # Len(writers_) + 1
      <4>1. i \in 1..Len(writers_) /\ (i > group \/ ~Logging)
        BY <1>1, <1>2, <1>5, <1>6, <2>5, <3>2
      <4>2. wr'[writers_'[i]].op = wr[writers_[i]].op
        BY <1>3, <1>4, <1>5, <4>1
      <4> QED BY <1>1, <1>8, <4>1, <4>2 DEF CallsInv
    <3> QED BY <3>1, <3>2
  <2> QED BY <2>1, <2>2, <2>4, <2>5 DEF CallsInv
<1> QED BY <1>7, <1>9, <1>10 DEF OrderInv

\* The steps of MakeRoomForWrite(), the switch of memtables aside: the writer leaves
\* the queue, waits, or begins to lead a group.
LEMMA RoomOrder ==
    ASSUME QueueInv, FileNumbers, OrderInv, NEW w \in Writers,
           \/ RoomError(w) \/ RoomSlowdown(w) \/ RoomReady(w) \/ RoomWait(w)
           \/ RoomSwitchFails(w)
    PROVE  OrderInv'
<1> USE DEF engineVars, memVars, verVars, flagVars, bgVars, walVars, manVars, histVars
<1>1. /\ EntriesInv /\ DistinctInv /\ CallsInv /\ BoundsInv
      /\ wr \in [Writers -> Writer] /\ writers_ \in Seq(Writers) /\ group \in Nat
      /\ Len(writers_) \in Nat /\ bg \in Background /\ nextFile \in Nat
  BY DEF OrderInv, QueueInv, EntriesInv, FileNumbers
<1>2. /\ InRoom(w) /\ wr[w].pc = "room" /\ Working
      /\ UNCHANGED engineVars /\ UNCHANGED histVars
  BY DEF RoomError, RoomSlowdown, RoomReady, RoomWait, RoomSwitchFails, MustSwitch, InRoom, Working
<1>3. /\ writers_ # <<>> /\ Head(writers_) = w /\ writers_[1] = w
      /\ \A u \in Writers : wr[u].pc \notin {"log", "sync", "insert", "publish"}
  BY <1>2, OneWrites DEF Leading
<1>4. ~Logging /\ Flight = {}
  BY <1>2, <1>3 DEF Logging, Flight
<1>5. \/ /\ \E st \in {"ok", "error"} : wr' = Dequeue(wr, 1, st)
         /\ writers_' = Tail(writers_)
      \/ /\ \E r \in Writer : wr' = [wr EXCEPT ![w] = r] /\ r.op = wr[w].op
                              /\ r.pc \in {"room", "log", "bgwait"}
         /\ writers_' = writers_
  <2> DEFINE r(p, d) == [wr[w] EXCEPT !.pc = p, !.delay = d]
  <2>1. \A p \in {"room", "log", "bgwait"}, d \in BOOLEAN :
          r(p, d) \in Writer /\ r(p, d).op = wr[w].op /\ r(p, d).pc = p
    BY <1>1 DEF Writer
  <2>2. wr[w] \in Writer
    BY <1>1
  <2>3. CASE RoomError(w) \/ RoomSwitchFails(w)
    BY <2>3 DEF RoomError, RoomSwitchFails
  <2>4. CASE RoomSlowdown(w)
    <3>1. wr' = [wr EXCEPT ![w] = r("room", FALSE)] /\ writers_' = writers_
      BY <1>1, <1>2, <2>2, <2>4 DEF RoomSlowdown, Writer
    <3> QED BY <2>1, <3>1
  <2>5. CASE RoomWait(w)
    <3>1. wr' = [wr EXCEPT ![w] = r("bgwait", wr[w].delay)] /\ writers_' = writers_
          /\ wr[w].delay \in BOOLEAN
      BY <1>1, <2>2, <2>5 DEF RoomWait, Writer
    <3> HIDE DEF r
    <3> QED BY <2>1, <3>1
  <2>6. CASE RoomReady(w)
    <3>1. \/ wr' = Dequeue(wr, 1, "ok") /\ writers_' = Tail(writers_)
          \/ wr' = [wr EXCEPT ![w] = r("log", wr[w].delay)] /\ writers_' = writers_
      BY <1>1, <2>2, <2>6 DEF RoomReady, Writer
    <3>2. wr[w].delay \in BOOLEAN
      BY <2>2 DEF Writer
    <3> HIDE DEF r
    <3> QED BY <2>1, <3>1, <3>2
  <2> QED BY <2>3, <2>4, <2>5, <2>6
<1>6. /\ \A u \in Writers : /\ wr'[u].op = wr[u].op
                            /\ wr'[u].pc # "idle" => wr[u].pc # "idle"
                            /\ wr'[u].pc \notin {"sync", "insert", "publish"}
      /\ writers_' \in Seq(Writers)
      /\ \A i \in 1..Len(writers_') :
           \E j \in 1..Len(writers_) : writers_[j] = writers_'[i]
  <2>1. CASE /\ \E st \in {"ok", "error"} : wr' = Dequeue(wr, 1, st)
             /\ writers_' = Tail(writers_)
    <3>1. PICK st \in {"ok", "error"} : wr' = Dequeue(wr, 1, st)
      BY <2>1
    <3>2. st \in {"ok", "error", "sync_error"}
      OBVIOUS
    <3>3. /\ \A i \in 1..1 : writers_[i] = w
          /\ \A i \in {1 + 1} \cap 1..Len(writers_) :
               writers_[i] \in Writers /\ wr[writers_[i]].pc # "idle"
      BY <1>1, <1>3 DEF QueueInv
    <3>4. ASSUME NEW u \in Writers
          PROVE  /\ wr'[u].op = wr[u].op
                 /\ wr'[u].pc # "idle" => wr[u].pc # "idle"
                 /\ wr'[u].pc \notin {"sync", "insert", "publish"}
      <4>1. LET d == wr'[u]
            IN  /\ d.op = wr[u].op
                /\ u \in {writers_[i] : i \in 1..1} => d.pc = "done" /\ d.status = st
                /\ u \notin {writers_[i] : i \in 1..1} =>
                     /\ d.status = wr[u].status
                     /\ d.pc = IF u \in {writers_[i] : i \in {1 + 1} \cap 1..Len(writers_)}
                               THEN "room" ELSE wr[u].pc
        BY <1>1, <3>1, <3>2, DequeueEffect
      <4>2. CASE u \in {writers_[i] : i \in 1..1}
        BY <1>2, <3>3, <4>1, <4>2
      <4>3. CASE u \notin {writers_[i] : i \in 1..1}
        BY <1>3, <3>3, <4>1, <4>3
      <4> QED BY <4>2, <4>3
    <3>5. /\ writers_' \in Seq(Writers) /\ Len(writers_') = Len(writers_) - 1
          /\ \A i \in 1..Len(writers_') : /\ writers_'[i] = writers_[i + 1]
                                          /\ i + 1 \in 1..Len(writers_)
      BY <1>1, <1>3, <2>1
    <3> QED BY <3>4, <3>5
  <2>2. CASE /\ \E r \in Writer : wr' = [wr EXCEPT ![w] = r] /\ r.op = wr[w].op
                                  /\ r.pc \in {"room", "log", "bgwait"}
             /\ writers_' = writers_
    BY <1>1, <1>2, <1>3, <2>2
  <2> QED BY <1>5, <2>1, <2>2
<1>7. ~Logging' /\ Flight' = {}
  <2>1. writers_' # <<>> => Head(writers_') \in Writers
    BY <1>6
  <2> DEFINE h == Head(writers_')
  <2>2. Logging' <=> writers_' # <<>> /\ wr'[h].pc \in {"sync", "insert", "publish"}
    BY DEF Logging
  <2>3. writers_' # <<>> => h \in Writers
    BY <2>1
  <2> HIDE DEF h
  <2>4. ~Logging'
    BY <1>6, <2>2, <2>3
  <2> QED BY <2>4 DEF Flight
<1>8. Everything' \subseteq Everything /\ EntriesInv' /\ BoundsInv'
  <2>1. /\ UNCHANGED <<mem_, imm_, has_imm_, logfile_number_>>
        /\ UNCHANGED <<lastSequence, logNumber, tables, edit, walFiles, wal, manifest>>
        /\ nextFile' \in Nat /\ nextFile' >= nextFile /\ phase' = phase /\ bg' = bg
    BY <1>1, <1>2
  <2>2. EditPending' => EditPending
    BY <2>1 DEF EditPending
  <2>3. /\ bg' \in Background /\ Working /\ Flight' = Flight
        /\ bg'.pc \in {"flushinstall", "mergeinstall"} => bg'.pc = bg.pc
    BY <1>1, <1>2, <1>4, <1>7, <2>1
  <2> QED BY <1>1, <2>1, <2>2, <2>3, Frame
<1>9. CallsInv'
  BY <1>1, <1>2, <1>4, <1>6, <1>8, CallsQueue
<1>10. DistinctInv'
  BY <1>1, <1>2, <1>8, Shrink
<1> QED BY <1>8, <1>9, <1>10 DEF OrderInv

\* While the leader logs and inserts, only its own state moves.
LEMMA LoggingStep ==
    ASSUME QueueInv, NEW w \in Writers,
           AddRecord(w) \/ AddRecordFails(w) \/ SyncLog(w) \/ SyncLogFails(w) \/ InsertInto(w)
    PROVE  /\ wr'[w].pc \in {"sync", "insert", "publish"} /\ wr'[w].op = wr[w].op
           /\ \A u \in Writers : u # w => wr'[u] = wr[u]
<1>1. wr \in [Writers -> Writer] /\ wr[w] \in Writer
  BY DEF QueueInv
<1>2. PICK p \in {"sync", "insert", "publish"}, s \in {wr[w].status, "error", "sync_error"} :
        wr' = [wr EXCEPT ![w] = [@ EXCEPT !.pc = p, !.status = s]]
  BY <1>1 DEF AddRecord, AddRecordFails, SyncLog, SyncLogFails, InsertInto, Writer
<1> QED BY <1>1, <1>2 DEF Writer

\* AddRecord(), whether it succeeds or fails half way: the entries of the group get
\* numbers above all those in use.
LEMMA AddRecordOrder ==
    ASSUME QueueInv, FileNumbers, OrderInv, NEW w \in Writers,
           AddRecord(w) \/ AddRecordFails(w)
    PROVE  OrderInv'
<1> USE DEF memVars, verVars, flagVars, bgVars, walVars, manVars, histVars
<1>1. /\ EntriesInv /\ DistinctInv /\ CallsInv /\ BoundsInv
      /\ wr \in [Writers -> Writer] /\ writers_ \in Seq(Writers) /\ group \in Nat
      /\ Len(writers_) \in Nat /\ logfile_number_ \in Nat /\ manifest.log \in Nat
      /\ edit.log \in Nat /\ lastSequence \in Nat
  BY DEF OrderInv, QueueInv, FileNumbers, BoundsInv
<1>2. /\ Leads(w, "log") /\ phase = "open" /\ wr[w].pc = "log"
      /\ UNCHANGED <<mem_, imm_, has_imm_, logfile_number_, lastSequence, nextFile, logNumber,
                     tables, phase, bg, edit, walFiles, manifest>>
      /\ UNCHANGED <<result, acked, before, writers_, group>>
      /\ wal' \in {wal, wal \cup GroupRecord}
  BY DEF AddRecord, AddRecordFails, Leads
<1>3. /\ writers_ # <<>> /\ Head(writers_) = w /\ writers_[1] = w
      /\ group \in 1..Len(writers_)
  BY <1>2, OneWrites DEF Leading, QueueInv
<1>4. \A u \in Writers : wr'[u].op = wr[u].op /\ (wr'[u].pc # "idle" => wr[u].pc # "idle")
  BY <1>2, LoggingStep
<1>5. wr'[w].pc \in {"sync", "insert", "publish"}
  BY LoggingStep
<1>6. ~Logging /\ Logging' /\ Flight = {}
  <2>1. Head(writers_') = w /\ writers_' # <<>>
    BY <1>2, <1>3
  <2> QED BY <1>2, <1>3, <1>5, <2>1 DEF Logging, Flight
<1>7. GroupEntries' = GroupEntries
  <2>1. \A i \in 1..group : writers_[i] \in Writers
    BY <1>1, <1>3
  <2> QED BY <1>1, <1>2, <1>4, <2>1, GroupSame
<1>8. Flight' = GroupEntries
  BY <1>6, <1>7 DEF Flight
<1>9. /\ Count(group) \in Nat /\ GroupEntries \subseteq Entry
      /\ \A x \in GroupEntries : /\ lastSequence < x.seq
                                 /\ x.seq <= lastSequence + Count(group)
                                 /\ x.op \in Ops /\ result[x.op] = "pending"
                                 /\ \E i \in 1..group : x.op = wr[writers_[i]].op
      /\ \A x, y \in GroupEntries : x.seq = y.seq <=> x.op = y.op
  BY <1>1, <1>3, GroupNumbers
<1> DEFINE last == lastSequence + Count(group)
<1>10. last \in Nat /\ lastSequence <= last
  BY <1>1, <1>9
<1> HIDE DEF last
<1>11. \A e \in GroupRecord : /\ Content(e) \in GroupEntries /\ e.seq = Content(e).seq
                              /\ e.file = logfile_number_ /\ e \in LogEntry
  <2> SUFFICES ASSUME NEW x \in GroupEntries
               PROVE  LET e == [file |-> logfile_number_, first |-> lastSequence + 1,
                                seq |-> x.seq, op |-> x.op]
                      IN  /\ Content(e) \in GroupEntries /\ e.seq = Content(e).seq
                          /\ e.file = logfile_number_ /\ e \in LogEntry
    BY DEF GroupRecord
  <2>1. x \in Entry
    BY <1>9
  <2>2. x = [seq |-> x.seq, op |-> x.op] /\ x.seq \in Nat /\ x.op \in Ops
    BY <2>1 DEF Entry
  <2>3. lastSequence + 1 \in Nat
    BY <1>1
  <2> QED BY <1>1, <2>2, <2>3 DEF Content, LogEntry
<1>12. Everything' \subseteq Everything \cup GroupEntries
  <2>1. Contents(wal)' \subseteq Contents(wal) \cup GroupEntries
    BY <1>2, <1>11 DEF Contents, Content
  <2>2. EditPending' <=> EditPending
    BY <1>2 DEF EditPending
  <2> QED BY <1>2, <1>8, <2>1, <2>2 DEF Everything
<1>13. \A x \in Everything : /\ x \in Entry /\ x.seq \in Nat /\ x.op \in Ops
                             /\ x.seq <= lastSequence
  BY <1>1, <1>2, <1>6 DEF EntriesInv, BoundsInv, Entry
<1>14. EntriesInv'
  <2>1. /\ wal' \subseteq LogEntry
        /\ \A e \in wal' : e.file \in walFiles
    BY <1>1, <1>2, <1>11 DEF EntriesInv, BoundsInv
  <2> QED BY <1>1, <1>2, <1>9, <1>12, <2>1 DEF EntriesInv, Working
<1>15. DistinctInv'
  <2> SUFFICES ASSUME NEW d \in Everything \cup GroupEntries,
                      NEW e \in Everything \cup GroupEntries
               PROVE  /\ d.seq = e.seq <=> d.op = e.op
                      /\ d.op \in before[e.op] => d.seq < e.seq
    BY <1>2, <1>12 DEF DistinctInv
  <2>1. \A x \in GroupEntries : x.op \notin OpsOf(Everything)
    <3> SUFFICES ASSUME NEW x \in GroupEntries PROVE x.op \notin OpsOf(Everything)
      OBVIOUS
    <3>1. PICK i \in 1..group : x.op = wr[writers_[i]].op
      BY <1>9
    <3>2. i \in 1..Len(writers_)
      BY <1>1, <1>3
    <3> QED BY <1>1, <1>6, <3>1, <3>2 DEF CallsInv
  <2>2. \A x \in GroupEntries, y \in Entry : x.op \notin before[y.op]
    BY <1>1, <1>9 DEF CallsInv, Entry
  <2>3. CASE d \in Everything /\ e \in Everything
    BY <1>1, <2>3 DEF DistinctInv
  <2>4. CASE d \in GroupEntries /\ e \in GroupEntries
    BY <1>9, <2>2, <2>4
  <2>5. CASE d \in GroupEntries /\ e \in Everything
    <3>1. d.op # e.op
      BY <2>1, <2>5 DEF OpsOf
    <3>2. e.seq <= lastSequence /\ lastSequence < d.seq /\ e.seq \in Nat /\ d.seq \in Nat
      BY <1>9, <1>13, <2>5 DEF Entry
    <3>3. d.op \notin before[e.op]
      BY <1>13, <2>2, <2>5
    <3> QED BY <1>1, <3>1, <3>2, <3>3
  <2>6. CASE d \in Everything /\ e \in GroupEntries
    <3>1. d.op # e.op
      BY <2>1, <2>6 DEF OpsOf
    <3>2. d.seq <= lastSequence /\ lastSequence < e.seq /\ e.seq \in Nat /\ d.seq \in Nat
      BY <1>9, <1>13, <2>6 DEF Entry
    <3> QED BY <1>1, <3>1, <3>2
  <2> QED BY <2>3, <2>4, <2>5, <2>6
<1>16. CallsInv'
  <2>1. OpsOf(Everything)' \subseteq OpsOf(Everything) \cup OpsOf(GroupEntries)
    BY <1>12 DEF OpsOf
  <2>2. \A o \in Ops : result'[o] = "new" => o \notin OpsOf(Everything)'
    <3>1. \A o \in OpsOf(GroupEntries) : result[o] = "pending"
      BY <1>9 DEF OpsOf
    <3>2. \A o \in Ops : result[o] = "new" => o \notin OpsOf(Everything)
      BY <1>1 DEF CallsInv
    <3> QED BY <1>2, <2>1, <3>1, <3>2
  <2>3. ASSUME NEW i \in 1..Len(writers_), i > group
        PROVE  wr'[writers_[i]].op \notin OpsOf(Everything)'
    <3>1. writers_[i] \in Writers /\ wr'[writers_[i]].op = wr[writers_[i]].op
      BY <1>1, <1>4
    <3>2. wr[writers_[i]].op \notin OpsOf(Everything)
      BY <1>1, <1>6 DEF CallsInv
    <3>3. ASSUME NEW x \in GroupEntries
          PROVE  x.op # wr[writers_[i]].op
      <4>1. PICK j \in 1..group : x.op = wr[writers_[j]].op
        BY <1>9
      <4>2. /\ j \in 1..Len(writers_) /\ j # i /\ writers_[j] \in Writers
            /\ x.op \in Ops
        BY <1>1, <1>3, <1>9, <2>3
      <4>3. writers_[j] # writers_[i]
        BY <4>2 DEF QueueInv
      <4> QED BY <1>1, <3>1, <4>1, <4>2, <4>3 DEF CallsInv
    <3> QED BY <2>1, <3>1, <3>2, <3>3 DEF OpsOf
  <2>4. \A u \in Writers : /\ wr'[u].pc # "idle" => wr'[u].op \in Ops
                           /\ wr'[u].op \in Ops => result'[wr'[u].op] = "pending"
    BY <1>1, <1>2, <1>4 DEF CallsInv
  <2>5. \A u, v \in Writers : wr'[u].op = wr'[v].op /\ wr'[u].op \in Ops => u = v
    BY <1>1, <1>4 DEF CallsInv
  <2>6. /\ result' \in [Ops -> {"new", "pending", "ok", "error", "sync_error", "lost"}]
        /\ before' \in [Ops -> SUBSET acked']
        /\ acked' \subseteq {o \in Ops : result'[o] = "ok"}
    BY <1>1, <1>2 DEF CallsInv
  <2> QED BY <1>2, <1>6, <2>2, <2>3, <2>4, <2>5, <2>6 DEF CallsInv
<1>17. BoundsInv'
  <2>1. PICK n \in Nat : \A e \in wal : e.seq <= n
    BY <1>1 DEF BoundsInv
  <2>2. \E m \in Nat : \A e \in wal' : e.seq <= m
    <3>1. \A e \in wal : e.seq \in Nat
      BY <1>1 DEF EntriesInv, LogEntry
    <3>2. \A e \in GroupRecord : e.seq \in Nat /\ e.seq <= last
      BY <1>9, <1>11 DEF last, Entry, LogEntry
    <3>3. n + last \in Nat /\ \A e \in wal \cup GroupRecord : e.seq <= n + last
      BY <1>10, <2>1, <3>1, <3>2
    <3> QED BY <1>2, <3>3
  <2>3. \A e \in wal' : e \in wal \/ e.file = logfile_number_
    BY <1>2, <1>11
  <2>4. /\ \A e \in wal' : e.file < manifest.log => e.seq <= manifest.seq
        /\ \A e \in wal' : e.file < logfile_number_ => e.seq <= lastSequence
        /\ EditPending => \A e \in wal' : e.file < edit.log => e.seq <= edit.seq
    BY <1>1, <1>2, <2>3 DEF BoundsInv
  <2>5. \A x \in Everything' : x.seq <= lastSequence \/ x \in Flight'
    BY <1>8, <1>12, <1>13
  <2>6. EditPending' <=> EditPending
    BY <1>2 DEF EditPending
  <2> QED BY <1>1, <1>2, <2>2, <2>4, <2>5, <2>6 DEF BoundsInv
<1> QED BY <1>14, <1>15, <1>16, <1>17 DEF OrderInv

\* The log is synced, or that fails, and the group goes into the memtable.
LEMMA InsertOrder ==
    ASSUME QueueInv, FileNumbers, OrderInv, NEW w \in Writers,
           SyncLog(w) \/ SyncLogFails(w) \/ InsertInto(w)
    PROVE  OrderInv'
<1> USE DEF memVars, verVars, flagVars, bgVars, walVars, manVars, histVars, engineVars
<1>1. /\ EntriesInv /\ DistinctInv /\ CallsInv /\ BoundsInv
      /\ wr \in [Writers -> Writer]
  BY DEF OrderInv, QueueInv
<1>2. /\ phase = "open" /\ Head(writers_) = w /\ wr[w].pc \in {"sync", "insert"}
      /\ UNCHANGED <<imm_, has_imm_, logfile_number_, lastSequence, nextFile, logNumber,
                     tables, phase, bg, edit, walFiles, wal, manifest>>
      /\ UNCHANGED <<result, acked, before, writers_, group>>
      /\ mem_' \in {mem_, mem_ \cup GroupEntries}
  BY DEF SyncLog, SyncLogFails, InsertInto, Leads
<1>3. writers_ # <<>>
  BY <1>2, OneWrites DEF Leading
<1>4. /\ wr'[w].pc \in {"sync", "insert", "publish"} /\ wr'[w].op = wr[w].op
      /\ \A u \in Writers : u # w => wr'[u] = wr[u]
  BY <1>1, <1>2, LoggingStep
<1>5. /\ Logging' <=> Logging
      /\ Flight' = Flight
  BY <1>2, <1>4, FlightSame
<1>6. Logging /\ Flight = GroupEntries
  BY <1>2, <1>3 DEF Logging, Flight
<1>7. Everything' \subseteq Everything
  <2>1. EditPending' <=> EditPending
    BY <1>2 DEF EditPending
  <2> QED BY <1>2, <1>5, <1>6, <2>1 DEF Everything, Contents, Content
<1>8. EntriesInv'
  BY <1>1, <1>2, <1>7 DEF EntriesInv, Working
<1>9. BoundsInv'
  <2>1. EditPending' <=> EditPending
    BY <1>2 DEF EditPending
  <2> QED BY <1>1, <1>2, <1>5, <1>7, <2>1 DEF BoundsInv
<1>10. CallsInv'
  <2>1. \A u \in Writers : /\ wr'[u].op = wr[u].op
                           /\ wr'[u].pc # "idle" => wr[u].pc # "idle"
    BY <1>2, <1>4
  <2> QED BY <1>1, <1>2, <1>5, <1>7, <2>1, CallsSame
<1>11. DistinctInv'
  BY <1>1, <1>2, <1>7, Shrink
<1> QED BY <1>8, <1>9, <1>10, <1>11 DEF OrderInv

\* The numbers of the group are taken, whether the write succeeded or not, and its
\* writers leave the queue.
LEMMA PublishOrder ==
    ASSUME QueueInv, FileNumbers, OrderInv, NEW w \in Writers, Publish(w)
    PROVE  OrderInv'
<1> USE DEF memVars, verVars, flagVars, bgVars, walVars, manVars, histVars
<1>1. /\ EntriesInv /\ DistinctInv /\ CallsInv /\ BoundsInv
      /\ wr \in [Writers -> Writer] /\ writers_ \in Seq(Writers) /\ group \in Nat
      /\ Len(writers_) \in Nat /\ lastSequence \in Nat
      /\ manifest.seq \in Nat /\ edit.seq \in Nat
  BY DEF OrderInv, QueueInv, BoundsInv
<1>2. /\ phase = "open" /\ Head(writers_) = w /\ wr[w].pc = "publish"
      /\ UNCHANGED <<mem_, imm_, has_imm_, logfile_number_, nextFile, logNumber,
                     tables, phase, bg, edit, walFiles, wal, manifest>>
      /\ UNCHANGED <<result, acked, before>>
      /\ lastSequence' = lastSequence + Count(group)
      /\ writers_' = SubSeq(writers_, group + 1, Len(writers_)) /\ group' = 0
  BY DEF Publish, Leads
<1>3. /\ writers_ # <<>> /\ writers_[1] = w /\ group \in 1..Len(writers_)
      /\ \A u \in Writers : u # w => wr[u].pc \notin {"room", "log", "sync", "insert", "publish"}
  BY <1>2, OneWrites DEF Leading, QueueInv
<1>4. Logging /\ Flight = GroupEntries
  BY <1>2, <1>3 DEF Logging, Flight
<1>5. /\ Count(group) \in Nat
      /\ \A x \in GroupEntries : x.seq <= lastSequence + Count(group)
  BY <1>1, <1>3, GroupNumbers
<1>6. PICK last \in Nat : /\ lastSequence' = last /\ lastSequence <= last
                          /\ \A x \in Flight : x.seq <= last
  BY <1>1, <1>2, <1>4, <1>5
<1>7. PICK ws \in [Writers -> Writer], st \in {"ok", "error"} :
        /\ wr' = Dequeue(ws, group, st)
        /\ \A u \in Writers : /\ ws[u].op = wr[u].op
                              /\ ws[u].pc = wr[u].pc
                                   \/ (ws[u].pc \in {"room", "flushwait"} /\ wr[u].pc # "idle")
  <2> DEFINE woken == IF wr[w].status = "sync_error" /\ ~bg_error_ THEN SignalAll(wr) ELSE wr
             st == IF wr[w].status = "ok" THEN "ok" ELSE "error"
  <2>1. wr' = Dequeue(woken, group, st) /\ st \in {"ok", "error"}
    BY DEF Publish
  <2>2. /\ SignalAll(wr) \in [Writers -> Writer]
        /\ \A u \in Writers : SignalAll(wr)[u].op = wr[u].op
    BY <1>1, SignalKeepsQueue
  <2>3. \A u \in Writers : SignalAll(wr)[u].pc = wr[u].pc
          \/ (SignalAll(wr)[u].pc \in {"room", "flushwait"} /\ wr[u].pc # "idle")
    BY <1>1 DEF SignalAll, Writer
  <2>4. /\ woken \in [Writers -> Writer]
        /\ \A u \in Writers : /\ woken[u].op = wr[u].op
                              /\ woken[u].pc = wr[u].pc
                                   \/ (woken[u].pc \in {"room", "flushwait"} /\ wr[u].pc # "idle")
    BY <1>1, <2>2, <2>3
  <2> HIDE DEF woken, st
  <2> QED BY <2>1, <2>4
<1>8. /\ \A i \in 1..Len(writers_) : writers_[i] \in Writers /\ wr[writers_[i]].pc # "idle"
      /\ \A i \in 1..group : i \in 1..Len(writers_)
  <2>1. ASSUME NEW i \in 1..Len(writers_)
        PROVE  writers_[i] \in Writers /\ wr[writers_[i]].pc # "idle"
    <3>1. writers_[i] \in Writers
      BY <1>1
    <3>2. CASE i = 1
      BY <1>2, <1>3, <3>1, <3>2
    <3>3. CASE i # 1
      <4>1. i \in 2..Len(writers_)
        BY <1>1, <3>3
      <4> QED BY <3>1, <4>1 DEF QueueInv
    <3> QED BY <3>1, <3>2, <3>3
  <2> QED BY <1>1, <1>3, <2>1
<1>9. \A u \in Writers : /\ wr'[u].op = wr[u].op
                         /\ wr'[u].pc # "idle" => wr[u].pc # "idle"
                         /\ wr'[u].pc \notin {"sync", "insert", "publish"}
  <2> SUFFICES ASSUME NEW u \in Writers
               PROVE  /\ wr'[u].op = wr[u].op
                      /\ wr'[u].pc # "idle" => wr[u].pc # "idle"
                      /\ wr'[u].pc \notin {"sync", "insert", "publish"}
    OBVIOUS
  <2>1. st \in {"ok", "error", "sync_error"}
    OBVIOUS
  <2>2. LET d == wr'[u]
        IN  /\ d.op = ws[u].op
            /\ u \in {writers_[i] : i \in 1..group} => d.pc = "done" /\ d.status = st
            /\ u \notin {writers_[i] : i \in 1..group} =>
                 /\ d.status = ws[u].status
                 /\ d.pc = IF u \in {writers_[i] : i \in {group + 1} \cap 1..Len(writers_)}
                           THEN "room" ELSE ws[u].pc
    BY <1>7, <2>1, DequeueEffect
  <2>3. CASE u \in {writers_[i] : i \in 1..group}
    BY <1>7, <1>8, <2>2, <2>3
  <2>4. CASE u \notin {writers_[i] : i \in 1..group}
    <3>1. u # w
      BY <1>1, <1>3, <2>4
    <3>2. u \in {writers_[i] : i \in {group + 1} \cap 1..Len(writers_)} => wr[u].pc # "idle"
      BY <1>8
    <3> QED BY <1>3, <1>7, <2>2, <2>4, <3>1, <3>2
  <2> QED BY <2>3, <2>4
<1>10. /\ writers_' \in Seq(Writers)
       /\ \A i \in 1..Len(writers_') : \E j \in 1..Len(writers_) :
            j > group /\ writers_[j] = writers_'[i]
  <2>1. /\ writers_' \in Seq(Writers) /\ Len(writers_') = Len(writers_) - group
        /\ \A i \in 1..Len(writers_') : /\ writers_'[i] = writers_[i + group]
                                        /\ i + group \in 1..Len(writers_)
                                        /\ i + group > group
    BY <1>1, <1>2, <1>3
  <2> QED BY <2>1
<1>11. ~Logging' /\ Flight' = {}
  <2> DEFINE h == Head(writers_')
  <2>1. /\ Logging' <=> writers_' # <<>> /\ wr'[h].pc \in {"sync", "insert", "publish"}
        /\ writers_' # <<>> => h \in Writers
    BY <1>10 DEF Logging
  <2> HIDE DEF h
  <2>2. ~Logging'
    BY <1>9, <2>1
  <2> QED BY <2>2 DEF Flight
<1>12. EditPending' <=> EditPending
  BY <1>2 DEF EditPending
<1>13. Everything' \subseteq Everything
  BY <1>2, <1>11, <1>12 DEF Everything, Contents, Content
<1>14. EntriesInv'
  BY <1>1, <1>2, <1>13 DEF EntriesInv, Working
<1>15. BoundsInv'
  <2>1. \A x \in Everything' : x.seq <= last
    <3> SUFFICES ASSUME NEW x \in Everything PROVE x.seq <= last
      BY <1>13
    <3>1. x.seq \in Nat
      BY <1>1 DEF EntriesInv, Entry
    <3>2. x.seq <= lastSequence \/ x \in Flight
      BY <1>1, <1>2 DEF BoundsInv
    <3> QED BY <1>1, <1>6, <3>1, <3>2
  <2>2. /\ \A x \in imm_ : x.seq <= last
        /\ \A e \in wal : e.file < logfile_number_ => e.seq <= last
    <3>1. \A x \in imm_ : x.seq \in Nat /\ x.seq <= lastSequence
      BY <1>1, <1>2 DEF BoundsInv, EntriesInv, Everything, Entry
    <3>2. \A e \in wal : e.seq \in Nat /\ (e.file < logfile_number_ => e.seq <= lastSequence)
      BY <1>1, <1>2 DEF BoundsInv, EntriesInv, LogEntry
    <3> QED BY <1>1, <1>6, <3>1, <3>2
  <2>3. manifest.seq <= last /\ (EditPending => edit.seq <= last)
    BY <1>1, <1>2, <1>6 DEF BoundsInv
  <2> QED BY <1>1, <1>2, <1>6, <1>12, <2>1, <2>2, <2>3 DEF BoundsInv
<1>16. CallsInv'
  <2>1. \A i \in 1..Len(writers_') : i > group' \/ ~Logging' =>
          \E j \in 1..Len(writers_) : /\ j > group \/ ~Logging
                                      /\ writers_[j] = writers_'[i]
    BY <1>10
  <2> QED BY <1>1, <1>2, <1>9, <1>13, <2>1, CallsQueue
<1>17. DistinctInv'
  BY <1>1, <1>2, <1>13, Shrink
<1> QED BY <1>14, <1>15, <1>16, <1>17 DEF OrderInv

\* The memtable and its log are put aside: what is in a log that is not the current
\* one has been published.
LEMMA SwitchOrder ==
    ASSUME QueueInv, FileNumbers, OrderInv, NEW w \in Writers, RoomSwitch(w)
    PROVE  OrderInv'
<1> USE DEF verVars, flagVars, manVars, histVars
<1>1. /\ EntriesInv /\ DistinctInv /\ CallsInv /\ BoundsInv
      /\ wr \in [Writers -> Writer] /\ wr[w] \in Writer /\ writers_ \in Seq(Writers)
      /\ bg \in Background /\ lastSequence \in Nat
  BY DEF OrderInv, QueueInv, EntriesInv, BoundsInv
<1>2. /\ InRoom(w) /\ phase = "open" /\ wr[w].pc = "room" /\ ~has_imm_
      /\ UNCHANGED <<lastSequence, logNumber, tables, phase, edit, wal, manifest>>
      /\ UNCHANGED <<result, acked, before, writers_, group>>
      /\ logfile_number_' = nextFile /\ nextFile' = nextFile + 1
      /\ walFiles' = walFiles \cup {nextFile}
      /\ imm_' = mem_ /\ has_imm_' = TRUE /\ mem_' = {}
      /\ wr' = [wr EXCEPT ![w].force = FALSE]
      /\ bg' = [bg EXCEPT !.pc = MaybeScheduleCompaction(TRUE, l0, bg_error_)]
  BY DEF RoomSwitch, MustSwitch, InRoom
<1>3. /\ writers_ # <<>> /\ Head(writers_) = w
      /\ imm_ = {}
  BY <1>1, <1>2, OneWrites DEF Leading, EntriesInv
<1>4. PICK n \in Nat : /\ logfile_number_' = n /\ nextFile' = n + 1 /\ n = nextFile
                       /\ walFiles' = walFiles \cup {n}
                       /\ \A f \in walFiles : f \in Nat /\ f < n
  BY <1>2 DEF FileNumbers
<1>5. /\ bg' \in Background
      /\ \A p \in {"flushlog", "flushinstall", "mergelog", "mergeinstall"} :
           bg'.pc = p <=> bg.pc = p
  BY <1>1, <1>2 DEF Background, MaybeScheduleCompaction
<1>6. \A u \in Writers : wr'[u].op = wr[u].op /\ wr'[u].pc = wr[u].pc
  BY <1>1, <1>2 DEF Writer
<1>7. /\ ~Logging /\ Flight = {}
      /\ Flight' = {}
  <2>1. ~Logging
    BY <1>2, <1>3 DEF Logging
  <2>2. ~Logging'
    BY <1>2, <1>3, <1>6 DEF Logging
  <2> QED BY <2>1, <2>2 DEF Flight
<1>8. EditPending' <=> EditPending
  BY <1>2, <1>5 DEF EditPending
<1>9. Everything' \subseteq Everything
  BY <1>2, <1>7, <1>8 DEF Everything, Contents, Content
<1>10. EntriesInv'
  BY <1>1, <1>2, <1>5, <1>9 DEF EntriesInv, Working
<1>11. \A x \in Everything : x.seq <= lastSequence
  BY <1>1, <1>2, <1>7 DEF BoundsInv
<1>12. BoundsInv'
  <2>1. \A e \in wal : e.seq <= lastSequence
    <3>1. \A e \in wal : Content(e) \in Everything /\ Content(e).seq = e.seq
      BY DEF Everything, Contents, Content
    <3> QED BY <1>11, <3>1
  <2>2. /\ manifest.log \in Nat /\ logNumber \in Nat /\ edit.log \in Nat
        /\ logfile_number_ \in Nat /\ logfile_number_ < n
        /\ manifest.log <= logfile_number_ /\ logNumber <= logfile_number_
        /\ EditPending => edit.log <= logfile_number_
    BY <1>1, <1>2, <1>4 DEF FileNumbers, BoundsInv
  <2>3. /\ manifest.log <= n /\ logNumber <= n /\ n < n + 1
        /\ EditPending => edit.log <= n
    BY <2>2
  <2>4. \A x \in mem_ : x.seq <= lastSequence
    BY <1>11 DEF Everything
  <2> QED BY <1>1, <1>2, <1>4, <1>8, <1>9, <1>11, <2>1, <2>3, <2>4 DEF BoundsInv
<1>13. CallsInv'
  BY <1>1, <1>2, <1>6, <1>7, <1>9, CallsSame
<1>14. DistinctInv'
  BY <1>1, <1>2, <1>9, Shrink
<1> QED BY <1>10, <1>12, <1>13, <1>14 DEF OrderInv

\* A call returns, or TEST_CompactMemTable() goes on to wait for the flush.
LEMMA ReturnOrder ==
    ASSUME QueueInv, FileNumbers, OrderInv, NEW w \in Writers, Return(w) \/ AwaitFlush(w)
    PROVE  OrderInv'
<1> USE DEF engineVars, memVars, verVars, flagVars, bgVars, walVars, manVars
<1>1. /\ EntriesInv /\ DistinctInv /\ CallsInv /\ BoundsInv
      /\ wr \in [Writers -> Writer] /\ wr[w] \in Writer /\ bg \in Background /\ nextFile \in Nat
  BY DEF OrderInv, QueueInv, EntriesInv, FileNumbers
<1>2. /\ phase = "open" /\ wr[w].pc \in {"done", "flushwait"} /\ Working
      /\ UNCHANGED <<mutex_, writers_, group, engineVars, before>>
  BY DEF Return, AwaitFlush, Working
<1> DEFINE o == wr[w].op
           Same(r) == /\ wr' = [wr EXCEPT ![w] = r] /\ r \in Writer
                      /\ r.pc \in {"flushwait", "flushblocked"} /\ r.op = o
                      /\ UNCHANGED <<result, acked>>
           Gone(r, st) == /\ wr' = [wr EXCEPT ![w] = r] /\ r \in Writer
                          /\ r.pc = "idle" /\ r.op = NoOp
                          /\ result' = [result EXCEPT ![o] = st]
                          /\ acked' \in {acked, acked \cup {o}}
                          /\ acked' # acked => st = "ok"
<1>3. \/ \E r \in Writer : Same(r)
      \/ \E r \in Writer, st \in {"ok", "error", "sync_error"} : Gone(r, st)
  <2> DEFINE idle == [wr[w] EXCEPT !.pc = "idle", !.op = NoOp]
             flush(p) == [wr[w] EXCEPT !.pc = p]
  <2>1. /\ idle \in Writer /\ idle.pc = "idle" /\ idle.op = NoOp
        /\ \A p \in {"flushwait", "flushblocked"} :
             flush(p) \in Writer /\ flush(p).pc = p /\ flush(p).op = o
        /\ wr[w].status \in {"ok", "error", "sync_error"}
    BY <1>1 DEF Writer
  <2>2. \/ wr' = [wr EXCEPT ![w] = flush("flushwait")] /\ UNCHANGED <<result, acked>>
        \/ wr' = [wr EXCEPT ![w] = flush("flushblocked")] /\ UNCHANGED <<result, acked>>
        \/ \E st \in {wr[w].status, "ok", "error"} :
             /\ wr' = [wr EXCEPT ![w] = idle]
             /\ result' = [result EXCEPT ![o] = st]
             /\ acked' \in {acked, acked \cup {o}}
             /\ acked' # acked => st = "ok"
    BY DEF Return, AwaitFlush, Answer
  <2> HIDE DEF idle, flush, o
  <2>3. CASE wr' = [wr EXCEPT ![w] = flush("flushwait")] /\ UNCHANGED <<result, acked>>
    BY <2>1, <2>3
  <2>4. CASE wr' = [wr EXCEPT ![w] = flush("flushblocked")] /\ UNCHANGED <<result, acked>>
    BY <2>1, <2>4
  <2>5. CASE \E st \in {wr[w].status, "ok", "error"} :
               /\ wr' = [wr EXCEPT ![w] = idle]
               /\ result' = [result EXCEPT ![o] = st]
               /\ acked' \in {acked, acked \cup {o}}
               /\ acked' # acked => st = "ok"
    <3>1. PICK st \in {wr[w].status, "ok", "error"} :
               /\ wr' = [wr EXCEPT ![w] = idle]
               /\ result' = [result EXCEPT ![o] = st]
               /\ acked' \in {acked, acked \cup {o}}
               /\ acked' # acked => st = "ok"
      BY <2>5
    <3>2. st \in {"ok", "error", "sync_error"}
      BY <2>1
    <3> QED BY <2>1, <3>1, <3>2
  <2> QED BY <2>2, <2>3, <2>4, <2>5
<1> HIDE DEF Same, Gone
<1>4. /\ \A u \in Writers : u # w => wr'[u] = wr[u]
      /\ wr'[w].pc \in {"idle", "flushwait", "flushblocked"}
  BY <1>1, <1>3 DEF Same, Gone
<1>5. \A i \in 1..Len(writers_) : writers_[i] \in Writers /\ writers_[i] # w
  <2> SUFFICES ASSUME NEW i \in 1..Len(writers_)
               PROVE  writers_[i] \in Writers /\ writers_[i] # w
    OBVIOUS
  <2>1. writers_ \in Seq(Writers) /\ Len(writers_) \in Nat /\ writers_[i] \in Writers
    BY DEF QueueInv
  <2>2. CASE i = 1
    <3>1. writers_ # <<>> /\ Head(writers_) = writers_[1]
      BY <2>1
    <3> QED BY <1>2, <2>1, <2>2, <3>1 DEF QueueInv, Leading
  <2>3. CASE i # 1
    <3>1. i \in 2..Len(writers_)
      BY <2>1, <2>3
    <3> QED BY <1>2, <2>1, <3>1 DEF QueueInv
  <2> QED BY <2>1, <2>2, <2>3
<1>6. /\ Logging' <=> Logging
      /\ Flight' = Flight
  <2> DEFINE h == Head(writers_)
  <2>1. writers_ # <<>> => h \in Writers /\ h # w
    <3>1. writers_ # <<>> => h = writers_[1] /\ 1 \in 1..Len(writers_)
      BY DEF QueueInv
    <3> QED BY <1>5, <3>1
  <2>2. /\ Logging <=> writers_ # <<>> /\ wr[h].pc \in {"sync", "insert", "publish"}
        /\ Logging' <=> writers_ # <<>> /\ wr'[h].pc \in {"sync", "insert", "publish"}
    BY <1>2 DEF Logging
  <2> HIDE DEF h
  <2>3. Logging' <=> Logging
    BY <1>4, <2>1, <2>2
  <2>4. Logging => group \in 1..Len(writers_)
    BY <2>1, <2>2 DEF QueueInv
  <2>5. Logging => \A i \in 1..group : /\ writers_'[i] = writers_[i]
                                       /\ wr'[writers_[i]].op = wr[writers_[i]].op
    <3>1. group \in Nat /\ Len(writers_) \in Nat
      BY DEF QueueInv
    <3>2. Logging => \A i \in 1..group : i \in 1..Len(writers_)
      BY <2>4, <3>1
    <3> QED BY <1>2, <1>4, <1>5, <3>2
  <2>6. group \in Nat /\ group' = group /\ lastSequence' = lastSequence
    BY <1>2 DEF QueueInv
  <2>7. Logging => GroupEntries' = GroupEntries
    BY <2>5, <2>6, GroupSame
  <2> QED BY <2>3, <2>7 DEF Flight
<1>7. Everything' \subseteq Everything /\ EntriesInv' /\ BoundsInv'
  <2>1. /\ UNCHANGED <<mem_, imm_, has_imm_, logfile_number_>>
        /\ UNCHANGED <<lastSequence, logNumber, tables, edit, walFiles, wal, manifest>>
        /\ nextFile' \in Nat /\ nextFile' >= nextFile /\ phase' = phase /\ bg' = bg
    BY <1>1, <1>2
  <2>2. EditPending' => EditPending
    BY <2>1 DEF EditPending
  <2>3. /\ bg' \in Background /\ Working
        /\ bg'.pc \in {"flushinstall", "mergeinstall"} => bg'.pc = bg.pc
    BY <1>1, <1>2, <2>1
  <2> QED BY <1>1, <1>6, <2>1, <2>2, <2>3, Frame
<1>8. DistinctInv'
  BY <1>1, <1>2, <1>7, Shrink
<1>9. CASE \E r \in Writer : Same(r)
  <2>1. \A u \in Writers : /\ wr'[u].op = wr[u].op
                           /\ wr'[u].pc # "idle" => wr[u].pc # "idle"
    BY <1>1, <1>2, <1>9 DEF Same
  <2>2. CallsInv'
    BY <1>1, <1>2, <1>6, <1>7, <1>9, <2>1, CallsSame DEF Same
  <2> QED BY <1>7, <1>8, <2>2 DEF OrderInv
<1>10. CASE \E r \in Writer, st \in {"ok", "error", "sync_error"} : Gone(r, st)
  <2>1. PICK r \in Writer, st \in {"ok", "error", "sync_error"} : Gone(r, st)
    BY <1>10
  <2>2. wr'[w].op = NoOp /\ NoOp \notin Ops /\ wr'[w].pc = "idle"
    BY <1>1, <2>1, DBImplAssumption DEF Gone
  <2>3. o \in Ops /\ result[o] = "pending"
    BY <1>1, <1>2 DEF CallsInv
  <2>4. /\ result' \in [Ops -> {"new", "pending", "ok", "error", "sync_error", "lost"}]
        /\ \A x \in Ops : x # o => result'[x] = result[x]
        /\ result'[o] = st
    BY <1>1, <2>1, <2>3 DEF Gone, CallsInv
  <2>5. /\ before' \in [Ops -> SUBSET acked']
        /\ acked' \subseteq {x \in Ops : result'[x] = "ok"}
    <3>1. o \notin acked
      BY <1>1, <2>3 DEF CallsInv
    <3>2. \A x \in acked : result'[x] = "ok"
      <4>1. result' = [result EXCEPT ![o] = st]
        BY <2>1 DEF Gone
      <4> QED BY <1>1, <3>1, <4>1 DEF CallsInv
    <3>3. acked \subseteq acked' /\ \A x \in acked' : x \in acked \/ (x = o /\ st = "ok")
      BY <2>1 DEF Gone
    <3> QED BY <1>1, <1>2, <2>4, <3>2, <3>3 DEF CallsInv
  <2>6. OpsOf(Everything)' \subseteq OpsOf(Everything)
    BY <1>7 DEF OpsOf
  <2>7. \A x \in Ops : result'[x] = "new" => x \notin OpsOf(Everything)'
    BY <1>1, <2>3, <2>4, <2>6 DEF CallsInv
  <2>8. \A u \in Writers : /\ wr'[u].pc # "idle" => wr'[u].op \in Ops
                           /\ wr'[u].op \in Ops => result'[wr'[u].op] = "pending"
    <3> SUFFICES ASSUME NEW u \in Writers
                 PROVE  /\ wr'[u].pc # "idle" => wr'[u].op \in Ops
                        /\ wr'[u].op \in Ops => result'[wr'[u].op] = "pending"
      OBVIOUS
    <3>1. CASE u = w
      BY <2>2, <3>1
    <3>2. CASE u # w
      <4>1. wr'[u] = wr[u] /\ (wr[u].op \in Ops => wr[u].op # o)
        BY <1>1, <1>4, <2>3, <3>2 DEF CallsInv
      <4> QED BY <1>1, <2>4, <4>1 DEF CallsInv
    <3> QED BY <3>1, <3>2
  <2>9. \A u, v \in Writers : wr'[u].op = wr'[v].op /\ wr'[u].op \in Ops => u = v
    BY <1>1, <1>4, <2>2 DEF CallsInv
  <2>10. \A i \in 1..Len(writers_') : i > group' \/ ~Logging'
           => wr'[writers_'[i]].op \notin OpsOf(Everything)'
    BY <1>1, <1>2, <1>4, <1>5, <1>6, <2>6 DEF CallsInv
  <2>11. CallsInv'
    BY <2>4, <2>5, <2>7, <2>8, <2>9, <2>10 DEF CallsInv
  <2> QED BY <1>7, <1>8, <2>11 DEF OrderInv
<1> QED BY <1>3, <1>9, <1>10

\* Signals leave the group that is being written alone.
LEMMA SignalFlight ==
    ASSUME QueueInv, wr' = wr \/ wr' = SignalAll(wr),
           UNCHANGED <<writers_, group, lastSequence>>
    PROVE  /\ Flight' = Flight /\ (Logging' <=> Logging)
           /\ \A w \in Writers : /\ wr'[w].op = wr[w].op
                                 /\ wr'[w].pc # "idle" => wr[w].pc # "idle"
<1>1. \A w \in Writers :
        /\ wr'[w].op = wr[w].op
        /\ wr'[w].pc # "idle" => wr[w].pc # "idle"
        /\ wr'[w].pc \in {"sync", "insert", "publish"}
             <=> wr[w].pc \in {"sync", "insert", "publish"}
  <2>1. CASE wr' = wr
    BY <2>1
  <2>2. CASE wr' = SignalAll(wr)
    BY <2>2 DEF SignalAll, QueueInv, Writer
  <2> QED BY <2>1, <2>2
<1> QED BY <1>1, FlightSame

\* A step of the engine that adds no entry leaves the calls as they are.
LEMMA NothingNew ==
    ASSUME QueueInv, OrderInv, wr' = wr \/ wr' = SignalAll(wr),
           UNCHANGED <<writers_, group, lastSequence, result, acked, before>>,
           Everything' \subseteq Everything
    PROVE  DistinctInv' /\ CallsInv'
<1>1. CallsInv'
  BY SignalFlight, CallsSame DEF OrderInv
<1> QED BY <1>1, Shrink DEF OrderInv

\* Steps of the background thread, and of the callers, that neither begin an edit nor
\* write one.
LEMMA QuietOrder ==
    ASSUME QueueInv, FileNumbers, OrderInv, wr' = wr \/ wr' = SignalAll(wr),
           UNCHANGED <<mem_, imm_, has_imm_, logfile_number_>>,
           UNCHANGED <<lastSequence, logNumber, tables, edit, walFiles, wal, manifest>>,
           UNCHANGED <<writers_, group, result, acked, before>>,
           nextFile' = nextFile \/ nextFile' = nextFile + 1,
           phase' = phase \/ (phase = "open" /\ phase' = "closing"), Working,
           \/ bg' = bg
           \/ bg' \in Background /\ bg'.pc \in {"idle", "queued", "table", "merge"}
    PROVE  OrderInv'
<1>1. /\ EntriesInv /\ BoundsInv /\ bg \in Background /\ nextFile \in Nat
  BY DEF OrderInv, EntriesInv, FileNumbers
<1>2. Flight' = Flight
  BY SignalFlight
<1>3. PICK n \in Nat : nextFile' = n /\ n >= nextFile
  BY <1>1
<1>4. /\ bg' \in Background
      /\ bg'.pc \in {"flushlog", "flushinstall", "mergelog", "mergeinstall"} => bg'.pc = bg.pc
  BY <1>1
<1>5. EditPending' => EditPending
  BY <1>4 DEF EditPending, Working
<1>6. Everything' \subseteq Everything /\ EntriesInv' /\ BoundsInv'
  BY <1>1, <1>2, <1>3, <1>4, <1>5, Frame
<1>7. DistinctInv' /\ CallsInv'
  BY <1>6, NothingNew
<1> QED BY <1>6, <1>7 DEF OrderInv

\* The edit of a flush, of a merge or of a trivial move is prepared.
LEMMA EditOrder ==
    ASSUME QueueInv, FileNumbers, OrderInv, wr' = wr, Working,
           UNCHANGED <<mem_, imm_, has_imm_, logfile_number_>>,
           UNCHANGED <<lastSequence, logNumber, tables, walFiles, wal, manifest, nextFile, phase>>,
           UNCHANGED <<writers_, group, result, acked, before>>,
           bg' \in Background, bg.pc \in {"queued", "table", "merge"},
           \/ bg'.pc = "flushlog" /\ edit'.log = logfile_number_ /\ edit'.added = imm_
           \/ bg'.pc = "mergelog" /\ edit'.log = logNumber /\ edit'.added = {},
           edit'.seq = lastSequence
    PROVE  OrderInv'
<1>1. /\ EntriesInv /\ BoundsInv /\ phase \notin {"closed", "corrupt", "recovered", "applied"}
      /\ lastSequence \in Nat /\ logfile_number_ \in Nat /\ logNumber \in Nat
  BY DEF OrderInv, Working, FileNumbers, BoundsInv
<1>2. Flight' = Flight
  BY SignalFlight
<1>3. /\ edit'.added \subseteq imm_ /\ edit'.log \in {logNumber, logfile_number_}
      /\ logNumber <= logfile_number_
  BY <1>1 DEF BoundsInv
<1>4. Everything' \subseteq Everything
  BY <1>2, <1>3 DEF Everything, Contents, Content
<1>5. EntriesInv'
  BY <1>1, <1>4 DEF EntriesInv, Working
<1>6. BoundsInv'
  <2>1. \A e \in wal : e.file < edit'.log => e.seq <= lastSequence
    <3>1. \A e \in wal : e.file \in Nat
      BY <1>1 DEF EntriesInv, LogEntry
    <3>2. \A e \in wal : e.file < logNumber => e.file < logfile_number_
      BY <1>1, <1>3, <3>1
    <3> QED BY <1>1, <1>3, <3>2 DEF BoundsInv
  <2>2. edit'.log <= logfile_number_
    BY <1>1, <1>3
  <2>3. \A x \in edit'.added : x.seq <= lastSequence
    BY <1>1, <1>3 DEF BoundsInv
  <2>4. lastSequence <= lastSequence /\ manifest.seq <= lastSequence
    BY <1>1 DEF BoundsInv
  <2> QED BY <1>1, <1>2, <1>4, <2>1, <2>2, <2>3, <2>4 DEF BoundsInv
<1>7. DistinctInv' /\ CallsInv'
  BY <1>4, NothingNew
<1> QED BY <1>5, <1>6, <1>7 DEF OrderInv

\* The edit becomes part of the MANIFEST: as the next step, or the failure after all
\* of it was written, or in a new MANIFEST of an Open().
LEMMA ManifestOrder ==
    ASSUME QueueInv, FileNumbers, OrderInv, wr' = wr \/ wr' = SignalAll(wr),
           EditPending, manifest' = Apply(manifest, edit),
           UNCHANGED <<mem_, imm_, has_imm_, logfile_number_>>,
           UNCHANGED <<lastSequence, logNumber, tables, edit, walFiles, wal, nextFile>>,
           UNCHANGED <<writers_, group, result, acked, before>>,
           \/ phase' = phase /\ Working
           \/ phase = "recovered" /\ phase' = "applied",
           \/ bg' = bg /\ bg.pc = "idle"
           \/ bg' \in Background
                /\ bg'.pc \in {"idle", "queued", "merge", "flushinstall", "mergeinstall"}
                /\ Working
    PROVE  OrderInv'
<1>1. /\ EntriesInv /\ BoundsInv /\ bg \in Background
  BY DEF OrderInv, EntriesInv
<1>2. Flight' = Flight
  BY SignalFlight
<1>3. /\ manifest'.log = edit.log /\ manifest'.seq = edit.seq /\ manifest'.next = edit.next
      /\ manifest'.tables = manifest.tables \cup edit.added
  BY DEF Apply
<1>4. Everything' \subseteq Everything
  BY <1>2, <1>3 DEF Everything, Contents, Content
<1>5. EntriesInv'
  BY <1>1, <1>3, <1>4 DEF EntriesInv, Working
<1>6. phase \notin {"closed", "corrupt"} /\ phase' \notin {"closed", "corrupt"}
  <2>1. bg.pc # "idle" => Working
    BY <1>1 DEF EntriesInv
  <2> QED BY <2>1 DEF Working, EditPending
<1>7. \A x \in manifest'.tables : x.seq <= edit.seq
  <2>1. \A x \in manifest.tables : x.seq \in Nat /\ x.seq <= manifest.seq
    BY <1>1 DEF BoundsInv, EntriesInv, Everything, Entry
  <2>2. manifest.seq \in Nat /\ edit.seq \in Nat /\ manifest.seq <= edit.seq
    BY <1>1 DEF BoundsInv
  <2>3. \A x \in edit.added : x.seq <= edit.seq
    BY <1>1 DEF BoundsInv
  <2> QED BY <1>3, <2>1, <2>2, <2>3
<1>8. BoundsInv'
  <2>1. /\ edit.seq <= edit.seq /\ edit.seq <= lastSequence /\ edit.log <= logfile_number_
        /\ \A e \in wal : e.file < edit.log => e.seq <= edit.seq
        /\ \A x \in edit.added : x.seq <= edit.seq
    BY <1>1 DEF BoundsInv
  <2> QED BY <1>1, <1>2, <1>3, <1>4, <1>6, <1>7, <2>1 DEF BoundsInv
<1>9. DistinctInv' /\ CallsInv'
  BY <1>4, NothingNew
<1> QED BY <1>5, <1>8, <1>9 DEF OrderInv

\* The edit becomes part of the version in memory, and the logs before it go.
LEMMA InstallOrder ==
    ASSUME QueueInv, FileNumbers, OrderInv, wr' = wr \/ wr' = SignalAll(wr),
           InstallEdit,
           \/ phase' = phase /\ Working /\ bg.pc \in {"flushinstall", "mergeinstall"}
           \/ phase = "applied" /\ phase' = "open",
           UNCHANGED walVars \/ DeleteObsoleteLogs(edit.log),
           mem_' = mem_,
           \/ imm_' = imm_ /\ has_imm_' = has_imm_
           \/ imm_' = {} /\ has_imm_' = FALSE,
           UNCHANGED <<logfile_number_, lastSequence, edit, nextFile, manifest>>,
           UNCHANGED <<writers_, group, result, acked, before>>,
           bg' \in Background, bg'.pc \in {"idle", "queued", "merge"}
    PROVE  OrderInv'
<1>1. /\ EntriesInv /\ BoundsInv /\ bg \in Background /\ edit.log \in Nat /\ logfile_number_ \in Nat
      /\ EditPending /\ phase \notin {"closed", "corrupt"}
  BY DEF OrderInv, EntriesInv, FileNumbers, EditPending, Working
<1>2. Flight' = Flight
  BY SignalFlight
<1>3. /\ tables' = tables \cup edit.added /\ logNumber' = edit.log
      /\ edit.added \subseteq manifest.tables /\ edit.log <= logfile_number_
  BY <1>1 DEF InstallEdit, EntriesInv, BoundsInv
<1>4. /\ wal' \subseteq wal /\ walFiles' \subseteq walFiles
      /\ \A e \in wal' : e.file \in walFiles'
      /\ logfile_number_ \in walFiles'
  <2>1. CASE UNCHANGED walVars
    BY <1>1, <2>1 DEF walVars, EntriesInv, BoundsInv
  <2>2. CASE DeleteObsoleteLogs(edit.log)
    <3>1. logfile_number_ >= edit.log /\ logfile_number_ \in walFiles
      BY <1>1, <1>3 DEF BoundsInv
    <3>2. /\ walFiles' = {f \in walFiles : f >= edit.log}
          /\ wal' = {e \in wal : e.file >= edit.log}
      BY <2>2 DEF DeleteObsoleteLogs
    <3> QED BY <1>1, <3>1, <3>2 DEF EntriesInv
  <2> QED BY <2>1, <2>2
<1>5. ~EditPending' /\ Working' /\ phase' \notin {"closed", "corrupt", "recovered", "applied"}
  BY DEF EditPending, Working
<1>6. imm_' \subseteq imm_ /\ (~has_imm_' => imm_' = {})
  BY <1>1 DEF EntriesInv
<1>7. Everything' \subseteq Everything
  BY <1>2, <1>4, <1>5, <1>6 DEF Everything, Contents, Content
<1>8. EntriesInv'
  BY <1>1, <1>3, <1>4, <1>5, <1>6, <1>7 DEF EntriesInv
<1>9. BoundsInv'
  <2>1. \E n \in Nat : \A e \in wal' : e.seq <= n
    BY <1>1, <1>4 DEF BoundsInv
  <2>2. /\ \A e \in wal' : e.file < manifest.log => e.seq <= manifest.seq
        /\ \A e \in wal' : e.file < logfile_number_ => e.seq <= lastSequence
        /\ \A x \in Everything' : x.seq <= lastSequence \/ x \in Flight'
        /\ \A x \in imm_' : x.seq <= lastSequence
    BY <1>1, <1>2, <1>4, <1>6, <1>7 DEF BoundsInv
  <2> QED BY <1>1, <1>3, <1>4, <1>5, <2>1, <2>2 DEF BoundsInv
<1>10. DistinctInv' /\ CallsInv'
  BY <1>7, NothingNew
<1> QED BY <1>8, <1>9, <1>10 DEF OrderInv

\* What is in memory is gone, and of the logs perhaps a part.
LEMMA ForgetOrder ==
    ASSUME QueueInv, FileNumbers, OrderInv, Forget, phase' = "closed",
           ~Scheduled \/ phase \notin {"closed", "corrupt"},
           UNCHANGED <<walFiles, manifest, acked, before>>,
           wal' \subseteq wal, result' = result \/ result' = Interrupted
    PROVE  OrderInv'
<1>1. /\ EntriesInv /\ BoundsInv /\ DistinctInv /\ CallsInv
  BY DEF OrderInv
<1>2. /\ mem_' = {} /\ imm_' = {} /\ has_imm_' = FALSE /\ writers_' = <<>>
      /\ bg' = [pc |-> "idle", merging |-> FALSE, inputs |-> 0, outputs |-> 0]
      /\ UNCHANGED <<logfile_number_, lastSequence, nextFile, logNumber, tables, edit>>
      /\ \A w \in Writers : wr'[w].pc = "idle" /\ wr'[w].op = NoOp
  BY DEF Forget, verVars
<1>3. ~EditPending' /\ Flight' = {}
  BY <1>2 DEF EditPending, Flight, Logging
<1>4. Everything' \subseteq Everything
  BY <1>2, <1>3 DEF Everything, Contents, Content
<1>5. EntriesInv'
  BY <1>1, <1>2, <1>4 DEF EntriesInv, Background
<1>6. BoundsInv'
  BY <1>1, <1>2, <1>3 DEF BoundsInv
<1>7. CallsInv'
  <2>1. /\ result' \in [Ops -> {"new", "pending", "ok", "error", "sync_error", "lost"}]
        /\ \A op \in Ops : result'[op] = "new" => result[op] = "new"
    BY <1>1 DEF CallsInv, Interrupted
  <2>2. acked \subseteq {op \in Ops : result'[op] = "ok"}
    BY <1>1 DEF CallsInv, Interrupted
  <2>3. OpsOf(Everything)' \subseteq OpsOf(Everything)
    BY <1>4 DEF OpsOf
  <2>4. Len(writers_') = 0 /\ NoOp \notin Ops
    BY <1>2, DBImplAssumption
  <2> QED BY <1>1, <1>2, <2>1, <2>2, <2>3, <2>4 DEF CallsInv
<1>8. DistinctInv'
  BY <1>1, <1>4, Shrink
<1> QED BY <1>5, <1>6, <1>7, <1>8 DEF OrderInv

\* Recovery goes on counting where the MANIFEST and the logs end.
LEMMA RecoverOrder ==
    ASSUME QueueInv, FileNumbers, OrderInv, OpenRecover
    PROVE  OrderInv'
<1>1. /\ EntriesInv /\ BoundsInv /\ DistinctInv /\ CallsInv
      /\ manifest.seq \in Nat /\ manifest.log \in Nat
  BY DEF OrderInv, BoundsInv, FileNumbers
<1> DEFINE found == {e \in wal : e.file \in LiveLogs(walFiles, manifest)}
<1>2. /\ phase = "closed" /\ phase' = "recovered" /\ ~Working
      /\ UNCHANGED <<mem_, imm_, has_imm_, bg, wal, manifest, wr, writers_, group>>
      /\ UNCHANGED <<result, acked, before>>
      /\ lastSequence' = LastRecovered(found)
      /\ edit'.log = logfile_number_' /\ edit'.seq = lastSequence'
      /\ edit'.added = Contents(found)
      /\ tables' = manifest.tables /\ logNumber' = manifest.log
      /\ walFiles' = walFiles \cup {logfile_number_'}
  BY DEF OpenRecover, Working, manVars, histVars, queueVars, Edit
<1>3. PICK number \in Nat : /\ logfile_number_' = number /\ nextFile' = number + 1
                            /\ manifest.log < number
                            /\ \A f \in walFiles : f < number
  BY RecoveredLog
<1>4. PICK last \in Nat : /\ lastSequence' = last
                          /\ manifest.seq <= last
                          /\ \A e \in found : e.seq <= last
  <2> DEFINE seqs == {manifest.seq} \cup {e.seq : e \in found}
  <2>1. seqs \in SUBSET Nat /\ seqs # {}
    BY <1>1 DEF EntriesInv, LogEntry
  <2>2. PICK n \in Nat : \A e \in wal : e.seq <= n
    BY <1>1 DEF BoundsInv
  <2>3. n + manifest.seq \in Nat /\ \A s \in seqs : s <= n + manifest.seq
    BY <1>1, <2>1, <2>2
  <2> HIDE DEF seqs
  <2>4. \E m \in seqs : \A s \in seqs : s <= m
    BY <2>1, <2>3, GreatestOf
  <2>5. PICK m : m = CHOOSE s \in seqs : \A x \in seqs : x <= s
    OBVIOUS
  <2>6. m \in seqs /\ \A s \in seqs : s <= m
    BY <2>4, <2>5
  <2>7. lastSequence' = m
    BY <1>2, <2>5 DEF LastRecovered, seqs
  <2> QED BY <2>1, <2>6, <2>7 DEF seqs
<1>5. \A e \in wal : /\ e.seq <= last
                     /\ e.seq \in Nat /\ e.file \in walFiles /\ e.file \in Nat
  <2> SUFFICES ASSUME NEW e \in wal
               PROVE  /\ e.seq <= last
                      /\ e.seq \in Nat /\ e.file \in walFiles /\ e.file \in Nat
    OBVIOUS
  <2>1. e.seq \in Nat /\ e.file \in walFiles /\ e.file \in Nat
    BY <1>1 DEF EntriesInv, LogEntry
  <2>2. CASE e.file >= manifest.log
    BY <1>4, <2>1, <2>2 DEF LiveLogs
  <2>3. CASE ~(e.file >= manifest.log)
    <3>1. e.seq <= manifest.seq
      BY <1>1, <2>1, <2>3 DEF BoundsInv
    <3> QED BY <1>1, <1>4, <2>1, <3>1
  <2> QED BY <2>1, <2>2, <2>3
<1>6. writers_ = <<>> /\ mem_ = {} /\ imm_ = {} /\ bg.pc = "idle" /\ Flight' = {}
  BY <1>1, <1>2 DEF EntriesInv, Flight, Logging
<1>7. EditPending'
  BY <1>2 DEF EditPending
<1>8. Everything' = Contents(wal) \cup manifest.tables
  <2>1. Contents(wal') = Contents(wal) /\ Contents(found) \subseteq Contents(wal)
    BY <1>2 DEF Contents, Content
  <2>2. Contents(wal)' = Contents(wal')
    BY DEF Contents, Content
  <2> HIDE DEF found
  <2> QED BY <1>2, <1>6, <1>7, <2>1, <2>2 DEF Everything
<1>9. Everything' \subseteq Everything
  BY <1>8 DEF Everything
<1>10. EntriesInv'
  BY <1>1, <1>2, <1>6, <1>9 DEF EntriesInv, Working
<1>11. BoundsInv'
  <2>1. /\ \A x \in Contents(wal) : x.seq <= last
        /\ \A x \in Contents(found) : x.seq <= last
    BY <1>5 DEF Contents, Content
  <2>2. \A x \in manifest.tables : x.seq <= last
    <3>1. \A x \in manifest.tables : x.seq \in Nat /\ x.seq <= manifest.seq
      BY <1>1 DEF BoundsInv, EntriesInv, Everything, Entry
    <3> QED BY <1>1, <1>4, <3>1
  <2>3. \A x \in Everything' : x.seq <= last
    BY <1>8, <2>1, <2>2
  <2>4. /\ manifest.log <= number /\ number < number + 1 /\ last <= last
    BY <1>1, <1>3
  <2> HIDE DEF found
  <2> QED BY <1>1, <1>2, <1>3, <1>4, <1>5, <1>6, <2>1, <2>3, <2>4 DEF BoundsInv
<1>12. CallsInv'
  <2>1. ~Logging /\ ~Logging' /\ \A w \in Writers : wr'[w] = wr[w]
    BY <1>2, <1>6 DEF Logging
  <2> QED BY <1>1, <1>2, <1>9, <2>1, CallsSame
<1>13. DistinctInv'
  BY <1>1, <1>2, <1>9, Shrink
<1> QED BY <1>10, <1>11, <1>12, <1>13 DEF OrderInv

LEMMA WriterStepOrder ==
    ASSUME QueueInv, FileNumbers, OrderInv, NEW w \in Writers, WriterStep(w)
    PROVE  OrderInv'
<1>1. CASE RoomError(w) \/ RoomSlowdown(w) \/ RoomReady(w) \/ RoomWait(w) \/ RoomSwitchFails(w)
  BY <1>1, RoomOrder
<1>2. CASE RoomSwitch(w)
  BY <1>2, SwitchOrder
<1>3. CASE AddRecord(w) \/ AddRecordFails(w)
  BY <1>3, AddRecordOrder
<1>4. CASE SyncLog(w) \/ SyncLogFails(w) \/ InsertInto(w)
  BY <1>4, InsertOrder
<1>5. CASE Publish(w)
  BY <1>5, PublishOrder
<1>6. CASE Return(w) \/ AwaitFlush(w)
  BY <1>6, ReturnOrder
<1> QED BY <1>1, <1>2, <1>3, <1>4, <1>5, <1>6 DEF WriterStep

LEMMA BackgroundOrder ==
    ASSUME QueueInv, FileNumbers, OrderInv, BackgroundStep
    PROVE  OrderInv'
<1> USE DEF memVars, verVars, flagVars, bgVars, walVars, manVars, histVars, queueVars
<1>1. bg \in Background
  BY DEF OrderInv, EntriesInv
<1>2. CASE BackgroundNothing
  <2>1. bg' \in Background /\ bg'.pc \in {"idle", "queued"} /\ wr' = SignalAll(wr)
    BY <1>2, EndOfCall DEF BackgroundNothing
  <2> QED BY <1>2, <2>1, QuietOrder DEF BackgroundNothing, Running
<1>3. CASE StartFlush \/ OpenOutput
  <2>1. bg' \in Background /\ bg'.pc \in {"table", "merge"}
    BY <1>1, <1>3 DEF StartFlush, OpenOutput, Background
  <2> QED BY <1>3, <2>1, QuietOrder DEF StartFlush, OpenOutput, Running
<1>4. CASE FlushTableBuilt
  <2>1. bg' \in Background /\ bg'.pc = "flushlog"
    BY <1>1, <1>4 DEF FlushTableBuilt, Background
  <2>2. edit'.log = logfile_number_ /\ edit'.added = imm_ /\ edit'.seq = lastSequence
    BY <1>4 DEF FlushTableBuilt, Edit
  <2> QED BY <1>4, <2>1, <2>2, EditOrder DEF FlushTableBuilt, Running
<1>5. CASE StartMerge
  <2>1. CASE /\ \E k \in 1..l0 : bg' = [pc |-> "merge", merging |-> TRUE, inputs |-> k,
                                       outputs |-> 0]
             /\ UNCHANGED edit
    <3>1. bg' \in Background /\ bg'.pc = "merge"
      BY <2>1 DEF Background
    <3> QED BY <1>5, <2>1, <3>1, QuietOrder DEF StartMerge, Running
  <2>2. CASE /\ bg' = [pc |-> "mergelog", merging |-> FALSE, inputs |-> 1, outputs |-> 0]
             /\ edit' = Edit(logNumber, lastSequence, nextFile, {}, 0, 1)
    <3>1. /\ bg' \in Background /\ bg'.pc = "mergelog" /\ bg.pc = "queued"
          /\ edit'.log = logNumber /\ edit'.added = {} /\ edit'.seq = lastSequence
      BY <1>5, <2>2 DEF Background, StartMerge, Edit
    <3> QED BY <1>5, <3>1, EditOrder DEF StartMerge, Running
  <2> QED BY <1>5, <2>1, <2>2 DEF StartMerge
<1>6. CASE MergeDone
  <2>1. /\ bg' \in Background /\ bg'.pc = "mergelog" /\ bg.pc = "merge"
        /\ edit'.log = logNumber /\ edit'.added = {} /\ edit'.seq = lastSequence
    BY <1>1, <1>6 DEF MergeDone, Background, Edit
  <2> QED BY <1>6, <2>1, EditOrder DEF MergeDone, Running
<1>7. CASE ManifestWritten
  <2>1. bg' \in Background /\ bg'.pc \in {"flushinstall", "mergeinstall"}
    BY <1>1, <1>7 DEF ManifestWritten, Background
  <2>2. EditPending /\ Working /\ manifest' = Apply(manifest, edit)
    BY <1>7 DEF ManifestWritten, EditPending
  <2> QED BY <1>7, <2>1, <2>2, ManifestOrder DEF ManifestWritten
<1>8. CASE FlushInstalled \/ MergeInstalled
  <2>1. /\ bg' \in Background /\ bg'.pc \in {"idle", "queued", "merge"}
        /\ wr' = SignalAll(wr)
    <3>1. CASE FlushInstalled /\ bg.merging
      BY <1>1, <3>1 DEF FlushInstalled, Background
    <3>2. CASE FlushInstalled /\ ~bg.merging
      <4>1. EndBackgroundCall(wr, FALSE, l0', bg_error_)
        BY <3>2 DEF FlushInstalled
      <4> QED BY <4>1, EndOfCall
    <3>3. CASE MergeInstalled
      <4>1. EndBackgroundCall(wr, has_imm_, l0', bg_error_)
        BY <3>3 DEF MergeInstalled
      <4> QED BY <4>1, EndOfCall
    <3> QED BY <1>8, <3>1, <3>2, <3>3
  <2>2. /\ Working /\ bg.pc \in {"flushinstall", "mergeinstall"} /\ phase' = phase
        /\ InstallEdit
        /\ UNCHANGED walVars \/ DeleteObsoleteLogs(edit.log)
        /\ mem_' = mem_
        /\ \/ imm_' = imm_ /\ has_imm_' = has_imm_
           \/ imm_' = {} /\ has_imm_' = FALSE
    BY <1>8 DEF FlushInstalled, MergeInstalled, Running
  <2>3. /\ UNCHANGED <<logfile_number_, lastSequence, edit, nextFile, manifest>>
        /\ UNCHANGED <<writers_, group, result, acked, before>>
    BY <1>8 DEF FlushInstalled, MergeInstalled
  <2> QED BY <2>1, <2>2, <2>3, InstallOrder
<1>9. CASE BackgroundFails
  <2>1. /\ bg' \in Background /\ bg'.pc \in {"idle", "queued", "merge"}
        /\ wr' = SignalAll(wr)
    <3>1. CASE bg' = [bg EXCEPT !.pc = "merge"] /\ wr' = SignalAll(wr)
      BY <1>1, <3>1 DEF Background
    <3>2. CASE EndBackgroundCall(wr, has_imm_, l0, TRUE)
      BY <3>2, EndOfCall
    <3> QED BY <1>9, <3>1, <3>2 DEF BackgroundFails
  <2>2. /\ Working /\ phase' = phase
        /\ UNCHANGED <<mem_, imm_, has_imm_, logfile_number_>>
        /\ UNCHANGED <<lastSequence, logNumber, tables, edit, walFiles, wal, nextFile>>
        /\ UNCHANGED <<writers_, group, result, acked, before>>
    BY <1>9 DEF BackgroundFails, Running
  <2>3. \/ manifest' = manifest
        \/ manifest' = Apply(manifest, edit) /\ EditPending
    BY <1>9 DEF BackgroundFails, EditPending
  <2>4. CASE manifest' = manifest
    BY <2>1, <2>2, <2>4, QuietOrder
  <2>5. CASE manifest' = Apply(manifest, edit) /\ EditPending
    BY <2>1, <2>2, <2>5, ManifestOrder
  <2> QED BY <2>3, <2>4, <2>5
<1> QED BY <1>2, <1>3, <1>4, <1>5, <1>6, <1>7, <1>8, <1>9 DEF BackgroundStep

LEMMA OrderStep ==
    ASSUME QueueInv, FileNumbers, OrderInv, [Next]_vars
    PROVE  OrderInv'
<1> USE DEF memVars, verVars, flagVars, bgVars, walVars, manVars, histVars, queueVars
<1>1. CASE UNCHANGED vars
  <2>1. /\ Everything' = Everything /\ (Logging' <=> Logging) /\ Flight' = Flight
        /\ (EditPending' <=> EditPending)
    BY <1>1 DEF vars, engineVars, Everything, Logging, Flight, GroupEntries, Count, EditPending,
                Contents, Content
  <2>2. EntriesInv' /\ DistinctInv'
    BY <1>1, <2>1 DEF vars, engineVars, OrderInv, EntriesInv, DistinctInv, Working
  <2>3. CallsInv'
    BY <1>1, <2>1, CallsSame DEF vars, OrderInv
  <2>4. BoundsInv'
    BY <1>1, <2>1 DEF vars, engineVars, OrderInv, BoundsInv
  <2> QED BY <2>2, <2>3, <2>4 DEF OrderInv
<1>2. CASE \E w \in Writers, op \in Ops : Write(w, op)
  BY <1>2, WriteOrder
<1>3. CASE \E w \in Writers : WriterStep(w)
  BY <1>3, WriterStepOrder
<1>4. CASE BackgroundStep
  BY <1>4, BackgroundOrder
<1>5. CASE SuspendCompaction \/ ResumeCompaction \/ Close
  <2>1. /\ Working /\ bg' = bg /\ wr' = wr /\ nextFile' = nextFile
        /\ phase' = phase \/ (phase = "open" /\ phase' = "closing")
    BY <1>5 DEF SuspendCompaction, ResumeCompaction, Close, Working
  <2>2. /\ UNCHANGED <<mem_, imm_, has_imm_, logfile_number_>>
        /\ UNCHANGED <<lastSequence, logNumber, tables, edit, walFiles, wal, manifest>>
        /\ UNCHANGED <<writers_, group, result, acked, before>>
    BY <1>5 DEF SuspendCompaction, ResumeCompaction, Close
  <2> QED BY <2>1, <2>2, QuietOrder
<1>6. CASE Closed \/ ProcessCrash \/ MachineCrash
  <2>1. /\ Forget /\ phase' = "closed"
        /\ ~Scheduled \/ phase \notin {"closed", "corrupt"}
        /\ UNCHANGED <<walFiles, manifest, acked, before>>
        /\ wal' \subseteq wal /\ (result' = result \/ result' = Interrupted)
    BY <1>6 DEF Closed, ProcessCrash, MachineCrash
  <2> QED BY <2>1, ForgetOrder
<1>7. CASE OpenRecover
  BY <1>7, RecoverOrder
<1>8. CASE OpenCorrupt
  <2>1. /\ phase = "closed" /\ phase' = "corrupt" /\ wr' = wr
        /\ UNCHANGED <<mem_, imm_, has_imm_, logfile_number_, bg>>
        /\ UNCHANGED <<lastSequence, logNumber, tables, edit, walFiles, wal, manifest>>
        /\ UNCHANGED <<writers_, group, result, acked, before>>
    BY <1>8 DEF OpenCorrupt
  <2>2. /\ Flight' = Flight
        /\ EditPending' => EditPending
    BY <2>1, SignalFlight DEF EditPending
  <2>3. Everything' \subseteq Everything
    BY <2>1, <2>2 DEF Everything, Contents, Content
  <2>4. EntriesInv' /\ BoundsInv'
    BY <2>1, <2>2, <2>3 DEF OrderInv, EntriesInv, BoundsInv, Working
  <2> QED BY <2>1, <2>3, <2>4, NothingNew DEF OrderInv
<1>9. CASE OpenApply
  <2>1. bg.pc = "idle" /\ EditPending
    BY <1>9 DEF OpenApply, OrderInv, EntriesInv, Working, EditPending
  <2> QED BY <1>9, <2>1, ManifestOrder DEF OpenApply
<1>10. CASE OpenFinish
  <2>1. bg' \in Background /\ bg'.pc \in {"idle", "queued", "merge"}
    BY <1>10 DEF OpenFinish, OrderInv, EntriesInv, Working, Background, MaybeScheduleCompaction
  <2> QED BY <1>10, <2>1, InstallOrder DEF OpenFinish
<1> QED BY <1>1, <1>2, <1>3, <1>4, <1>5, <1>6, <1>7, <1>8, <1>9, <1>10 DEF Next, OpenStep

LEMMA OrderInit == Init => OrderInv
<1> SUFFICES ASSUME Init PROVE OrderInv
  OBVIOUS
<1>1. Everything = {} /\ ~EditPending /\ ~Logging
  BY DEF Init, Everything, EditPending, Contents, Flight, Logging, EmptyManifest
<1>2. EntriesInv /\ DistinctInv
  BY <1>1 DEF Init, EntriesInv, DistinctInv, Working, Background, EmptyManifest
<1>3. CallsInv
  BY <1>1, DBImplAssumption DEF Init, CallsInv, OpsOf
<1>4. BoundsInv
  BY <1>1 DEF Init, BoundsInv, EmptyManifest, Edit
<1> QED BY <1>2, <1>3, <1>4 DEF OrderInv

\* Every entry of files and memory has a number of its own, within the bounds that
\* lastSequence or the next recovery knows.
THEOREM OrderInvariant == Spec => []OrderInv
<1>1. QueueInv /\ FileNumbers /\ OrderInv /\ [Next]_vars => OrderInv'
  BY OrderStep
<1> QED BY <1>1, OrderInit, QueueInvariant, FileNumbersInvariant, PTL DEF Spec

\* The entries of files and memory keep the order in which the calls were made, over
\* failures, crashes and recoveries; and no number is used twice.
THEOREM SequencesInOrder == Spec => []SequenceOrder
<1>1. OrderInv => SequenceOrder
  <2> SUFFICES ASSUME OrderInv PROVE SequenceOrder
    OBVIOUS
  <2>1. OnDisk \subseteq Everything
    BY DEF OnDisk, Held, Everything, Contents
  <2>2. InMemory \subseteq Everything
    BY DEF InMemory, Everything, OrderInv, EntriesInv
  <2> QED BY <2>1, <2>2 DEF SequenceOrder, OrderInv, DistinctInv
<1> QED BY <1>1, OrderInvariant, PTL

----------------------------------------------------------------------------
(* That the engine of DBImpl implements DurableStore, through all file     *)
(* errors and all crashes: what was acknowledged is readable, what was     *)
(* acknowledged to a sync write is durable, and readers see whole groups.  *)

\* Batches whose call has its answer, or is about to return it
Done == {op \in Ops \ NullOps :
            \E w \in Writers : wr[w].pc = "done" /\ wr[w].status = "ok" /\ wr[w].op = op}
Settled == acked \cup Done

\* What a crash leaves of the logs, and which batches it must not lose
Lasting == IF MachineCrashes THEN durable ELSE wal
Safe    == IF MachineCrashes THEN SyncOps ELSE Ops
Kept    == manifest.tables \cup Contents({e \in Lasting : e.file >= manifest.log})

----------------------------------------------------------------------------
(* The inductive invariant, in parts that different steps disturb.         *)

\* A pending call has its caller, and an answer is what the caller got.
HoldersInv ==
    /\ \A op \in Ops : result[op] = "pending"
                         => \E w \in Writers : wr[w].pc # "idle" /\ wr[w].op = op
    /\ \A op \in Ops : result[op] = "ok" => op \in acked \cup NullOps
    /\ \A op \in Ops : result[op] # "sync_error"
    /\ promised \subseteq acked \cap SyncOps
    /\ \A w \in Writers :
         /\ wr[w].pc = "done" => wr[w].status # "sync_error"
         /\ wr[w].pc \in {"flushwait", "flushblocked"} => wr[w].op \in NullOps
         /\ phase # "open" => wr[w].pc = "idle"

\* Write(NULL) writes nothing.
NullInv == \A x \in Contents(wal) \cup manifest.tables \cup edit.added \cup mem_ \cup imm_ :
             x.op \notin NullOps

\* What the leader has done with its group so far
LeaderInv ==
    \A w \in Writers :
      /\ wr[w].pc \in {"log", "sync", "insert", "publish"} =>
           \A i \in 1..group : wr[writers_[i]].op \in SyncOps => wr[w].op \in SyncOps
      /\ wr[w].pc \in {"sync", "insert"} \/ (wr[w].pc = "publish" /\ wr[w].status = "ok")
           => GroupRecord \subseteq wal
      /\ wr[w].pc = "insert" \/ (wr[w].pc = "publish" /\ wr[w].status = "ok")
           => (wr[w].op \in SyncOps => GroupRecord \subseteq durable)
      /\ wr[w].pc = "publish" /\ wr[w].status = "ok" => GroupEntries \subseteq mem_

\* What was settled and is in a file is in memory; what is in memory is in the
\* files, the memtable in the current log and in no older one.
MemoryInv ==
    Working =>
      /\ \A x \in Contents(wal) \cup manifest.tables : x.op \in Settled => x \in InMemory
      /\ Done \subseteq OpsOf(InMemory)
      /\ mem_ \subseteq Contents({e \in wal : e.file = logfile_number_})
      /\ imm_ \subseteq OnDisk
      /\ \A e \in wal : Content(e) \in mem_ => e.file >= logfile_number_

\* An edit carries what the version lacks, and names the log from which on the rest
\* is logged.
EditInv ==
    /\ bg.pc \in {"table", "flushlog", "flushinstall"} => has_imm_
    /\ bg.pc \in {"flushlog", "flushinstall"} => edit.added = imm_
    /\ bg.pc \in {"mergelog", "mergeinstall"} => edit.added = {}
    /\ bg.pc = "flushlog" => edit.log = logfile_number_
    /\ bg.pc = "mergelog" => edit.log = logNumber
    /\ bg.pc \in {"flushinstall", "mergeinstall"} \/ phase = "applied"
         => edit.log = manifest.log
    /\ Working => logNumber <= manifest.log
    /\ phase \in {"recovered", "applied"} => \A e \in wal : e.file < edit.log
    /\ phase = "recovered" =>
         /\ edit.added = Contents({e \in wal : e.file >= manifest.log})
         /\ tables = manifest.tables
    /\ phase = "applied" => manifest.tables = tables \cup edit.added

\* What a crash must not lose is where it cannot lose it.
LastInv ==
    /\ durable \subseteq wal
    /\ Settled \cap Safe \subseteq OpsOf(Kept)

StoreInv == HoldersInv /\ NullInv /\ LeaderInv /\ MemoryInv /\ EditInv /\ LastInv

----------------------------------------------------------------------------
(* The calls.                                                              *)

\* How a step of the writers, other than the return of a call, moves each of them
LEMMA WritersMove ==
    ASSUME QueueInv, HoldersInv, NEW w \in Writers,
           WriterStep(w), ~Return(w), ~AwaitFlush(w)
    PROVE  \A u \in Writers :
             /\ wr'[u].op = wr[u].op
             /\ wr[u].pc # "idle" => wr'[u].pc # "idle"
             /\ wr'[u].pc \in {"flushwait", "flushblocked"}
                  => wr[u].pc \in {"flushwait", "flushblocked"}
             /\ wr'[u].pc = "done" =>
                  \/ wr[u].pc = "done" /\ wr'[u].status = wr[u].status
                  \/ wr'[u].status = "error"
                  \/ wr'[u].status = "ok" /\ wr[u].op \in NullOps
                  \/ /\ wr'[u].status = "ok" /\ Publish(w) /\ wr[w].status = "ok"
                     /\ u \in {writers_[i] : i \in 1..group}
<1> DEFINE Moves(u) ==
             /\ wr'[u].op = wr[u].op
             /\ wr[u].pc # "idle" => wr'[u].pc # "idle"
             /\ wr'[u].pc \in {"flushwait", "flushblocked"}
                  => wr[u].pc \in {"flushwait", "flushblocked"}
             /\ wr'[u].pc = "done" =>
                  \/ wr[u].pc = "done" /\ wr'[u].status = wr[u].status
                  \/ wr'[u].status = "error"
                  \/ wr'[u].status = "ok" /\ wr[u].op \in NullOps
                  \/ /\ wr'[u].status = "ok" /\ Publish(w) /\ wr[w].status = "ok"
                     /\ u \in {writers_[i] : i \in 1..group}
<1>1. wr \in [Writers -> Writer] /\ wr[w] \in Writer
  BY DEF QueueInv
<1>2. ASSUME NEW ws \in [Writers -> Writer], NEW n, NEW st \in {"ok", "error"},
             wr' = Dequeue(ws, n, st), NEW u \in Writers
      PROVE  /\ wr'[u].op = ws[u].op
             /\ \/ /\ u \in {writers_[i] : i \in 1..n}
                   /\ wr'[u].pc = "done" /\ wr'[u].status = st
                \/ wr'[u].pc = "room"
                \/ wr'[u].pc = ws[u].pc /\ wr'[u].status = ws[u].status
  <2>1. st \in {"ok", "error", "sync_error"}
    OBVIOUS
  <2>2. LET d == Dequeue(ws, n, st)[u]
        IN  /\ d.op = ws[u].op
            /\ u \in {writers_[i] : i \in 1..n} => d.pc = "done" /\ d.status = st
            /\ u \notin {writers_[i] : i \in 1..n} =>
                 /\ d.status = ws[u].status
                 /\ d.pc = IF u \in {writers_[i] : i \in {n + 1} \cap 1..Len(writers_)}
                           THEN "room" ELSE ws[u].pc
    BY <2>1, DequeueEffect
  <2> QED BY <1>2, <2>2
<1>3. CASE RoomError(w) \/ RoomSwitchFails(w)
  <2>1. wr' = Dequeue(wr, 1, "error") /\ "error" \in {"ok", "error"}
    BY <1>3 DEF RoomError, RoomSwitchFails
  <2>2. \A u \in Writers : /\ wr'[u].op = wr[u].op
             /\ \/ /\ u \in {writers_[i] : i \in 1..1}
                   /\ wr'[u].pc = "done" /\ wr'[u].status = "error"
                \/ wr'[u].pc = "room"
                \/ wr'[u].pc = wr[u].pc /\ wr'[u].status = wr[u].status
    BY <1>1, <1>2, <2>1
  <2> QED BY <2>2
<1>4. CASE RoomReady(w) /\ wr[w].op \in NullOps
  <2>1. wr' = Dequeue(wr, 1, "ok") /\ "ok" \in {"ok", "error"}
    BY <1>4 DEF RoomReady
  <2>2. \A u \in Writers : /\ wr'[u].op = wr[u].op
             /\ \/ /\ u \in {writers_[i] : i \in 1..1}
                   /\ wr'[u].pc = "done" /\ wr'[u].status = "ok"
                \/ wr'[u].pc = "room"
                \/ wr'[u].pc = wr[u].pc /\ wr'[u].status = wr[u].status
    BY <1>1, <1>2, <2>1
  <2>3. writers_[1] = w /\ \A i \in 1..1 : i = 1
    <3>1. wr[w].pc \in Leading
      BY <1>4 DEF RoomReady, InRoom, Leading
    <3> QED BY <3>1, OneWrites
  <2> QED BY <1>4, <2>2, <2>3
<1>5. CASE Publish(w)
  <2> DEFINE woken == IF wr[w].status = "sync_error" /\ ~bg_error_ THEN SignalAll(wr) ELSE wr
             st == IF wr[w].status = "ok" THEN "ok" ELSE "error"
  <2>1. wr' = Dequeue(woken, group, st) /\ st \in {"ok", "error"}
        /\ (st = "ok" => wr[w].status = "ok")
    BY <1>5 DEF Publish
  <2>2. /\ SignalAll(wr) \in [Writers -> Writer]
        /\ \A u \in Writers : SignalAll(wr)[u].op = wr[u].op
                              /\ SignalAll(wr)[u].status = wr[u].status
    BY <1>1, SignalKeepsQueue
  <2>3. \A u \in Writers : \/ SignalAll(wr)[u].pc = wr[u].pc
                           \/ SignalAll(wr)[u].pc = "room"
                           \/ SignalAll(wr)[u].pc = "flushwait" /\ wr[u].pc = "flushblocked"
    BY <1>1 DEF SignalAll, Writer
  <2>4. /\ woken \in [Writers -> Writer]
        /\ \A u \in Writers : /\ woken[u].op = wr[u].op /\ woken[u].status = wr[u].status
                              /\ \/ woken[u].pc = wr[u].pc
                                 \/ woken[u].pc = "room"
                                 \/ woken[u].pc = "flushwait" /\ wr[u].pc = "flushblocked"
    BY <1>1, <2>2, <2>3
  <2> HIDE DEF woken, st
  <2>5. \A u \in Writers : /\ wr'[u].op = woken[u].op
             /\ \/ /\ u \in {writers_[i] : i \in 1..group}
                   /\ wr'[u].pc = "done" /\ wr'[u].status = st
                \/ wr'[u].pc = "room"
                \/ wr'[u].pc = woken[u].pc /\ wr'[u].status = woken[u].status
    BY <1>2, <2>1, <2>4
  <2> SUFFICES ASSUME NEW u \in Writers PROVE Moves(u)
    OBVIOUS
  <2>6. CASE /\ u \in {writers_[i] : i \in 1..group}
             /\ wr'[u].pc = "done" /\ wr'[u].status = st
    BY <1>5, <2>1, <2>4, <2>5, <2>6
  <2>7. CASE wr'[u].pc = "room"
    BY <2>4, <2>5, <2>7
  <2>8. CASE wr'[u].pc = woken[u].pc /\ wr'[u].status = woken[u].status
    BY <2>4, <2>5, <2>8
  <2> QED BY <2>5, <2>6, <2>7, <2>8
<1>6. CASE \/ RoomSlowdown(w) \/ RoomWait(w) \/ RoomSwitch(w)
           \/ RoomReady(w) /\ wr[w].op \notin NullOps
  <2>1. \E p \in {"room", "bgwait", "log"} :
          /\ wr'[w].op = wr[w].op /\ wr'[w].pc = p
          /\ \A u \in Writers : u # w => wr'[u] = wr[u]
    <3>1. CASE RoomSlowdown(w)
      <4>1. wr' = [wr EXCEPT ![w].delay = FALSE] /\ wr[w].pc = "room"
        BY <3>1 DEF RoomSlowdown, InRoom
      <4> QED BY <1>1, <4>1 DEF Writer
    <3>2. CASE RoomWait(w)
      <4>1. wr' = [wr EXCEPT ![w].pc = "bgwait"]
        BY <3>2 DEF RoomWait
      <4> QED BY <1>1, <4>1 DEF Writer
    <3>3. CASE RoomSwitch(w)
      <4>1. wr' = [wr EXCEPT ![w].force = FALSE] /\ wr[w].pc = "room"
        BY <3>3 DEF RoomSwitch, MustSwitch, InRoom
      <4> QED BY <1>1, <4>1 DEF Writer
    <3>4. CASE RoomReady(w) /\ wr[w].op \notin NullOps
      <4>1. wr' = [wr EXCEPT ![w].pc = "log"]
        BY <3>4 DEF RoomReady
      <4> QED BY <1>1, <4>1 DEF Writer
    <3> QED BY <1>6, <3>1, <3>2, <3>3, <3>4
  <2> QED BY <2>1
<1>7. CASE AddRecord(w) \/ AddRecordFails(w) \/ SyncLog(w) \/ SyncLogFails(w) \/ InsertInto(w)
  BY <1>7, LoggingStep
<1> QED BY <1>3, <1>4, <1>5, <1>6, <1>7 DEF WriterStep

\* The answers that a step settles are those of the group that Publish() finishes.
LEMMA SettledMoves ==
    ASSUME QueueInv, HoldersInv, NEW w \in Writers,
           WriterStep(w), ~Return(w), ~AwaitFlush(w)
    PROVE  /\ Done' \subseteq Done \cup OpsOf(GroupEntries)
           /\ ~Publish(w) \/ wr[w].status # "ok" => Done' \subseteq Done
<1> SUFFICES ASSUME NEW op \in Done'
             PROVE  \/ op \in Done
                    \/ op \in OpsOf(GroupEntries) /\ Publish(w) /\ wr[w].status = "ok"
  OBVIOUS
<1>1. PICK u \in Writers : wr'[u].pc = "done" /\ wr'[u].status = "ok" /\ wr'[u].op = op
  BY DEF Done
<1>2. op \in Ops \ NullOps
  BY DEF Done
<1>3. /\ wr[u].op = op
      /\ \/ wr[u].pc = "done" /\ wr[u].status = "ok"
         \/ Publish(w) /\ wr[w].status = "ok" /\ u \in {writers_[i] : i \in 1..group}
  BY <1>1, <1>2, WritersMove
<1>4. CASE wr[u].pc = "done" /\ wr[u].status = "ok"
  BY <1>2, <1>3, <1>4 DEF Done
<1>5. CASE Publish(w) /\ wr[w].status = "ok" /\ u \in {writers_[i] : i \in 1..group}
  <2>1. PICK i \in 1..group : writers_[i] = u
    BY <1>5
  <2>2. [seq |-> lastSequence + Count(i), op |-> wr[writers_[i]].op] \in GroupEntries
    BY <1>2, <1>3, <2>1 DEF GroupEntries
  <2> QED BY <1>3, <1>5, <2>1, <2>2 DEF OpsOf
<1> QED BY <1>3, <1>4, <1>5

\* What the return of a call, or the wait of TEST_CompactMemTable(), changes
LEMMA AnswerMoves ==
    ASSUME QueueInv, HoldersInv, CallsInv, NEW w \in Writers, Return(w) \/ AwaitFlush(w)
    PROVE  /\ \A u \in Writers : u # w => wr'[u] = wr[u]
           /\ \/ /\ UNCHANGED <<result, acked, promised>>
                 /\ wr[w].op \in NullOps /\ wr'[w].op = wr[w].op
                 /\ wr'[w].pc \in {"flushwait", "flushblocked"}
              \/ \E r \in {"ok", "error"} :
                   /\ wr'[w].pc = "idle" /\ wr'[w].op = NoOp
                   /\ result' = [result EXCEPT ![wr[w].op] = r]
                   /\ r = "ok" => wr[w].op \in Done \cup NullOps
                   /\ acked' = IF r = "ok" /\ wr[w].op \notin NullOps
                               THEN acked \cup {wr[w].op} ELSE acked
                   /\ promised' = IF r = "ok" /\ wr[w].op \in SyncOps \ NullOps
                                  THEN promised \cup {wr[w].op} ELSE promised
<1>1. wr \in [Writers -> Writer] /\ wr[w] \in Writer
  BY DEF QueueInv
<1>2. CASE Return(w) /\ wr[w].op \in NullOps /\ wr[w].status = "ok"
  <2>1. wr' = [wr EXCEPT ![w].pc = "flushwait"] /\ UNCHANGED <<result, acked, promised>>
    BY <1>2 DEF Return
  <2> QED BY <1>1, <1>2, <2>1 DEF Writer
<1>3. CASE AwaitFlush(w) /\ has_imm_ /\ ~bg_error_
  <2>1. wr' = [wr EXCEPT ![w].pc = "flushblocked"] /\ UNCHANGED <<result, acked, promised>>
    BY <1>3 DEF AwaitFlush
  <2>2. wr[w].op \in NullOps
    BY <1>3 DEF AwaitFlush, HoldersInv
  <2> QED BY <1>1, <2>1, <2>2 DEF Writer
<1>4. ASSUME NEW r, Answer(w, r)
      PROVE  /\ \A u \in Writers : u # w => wr'[u] = wr[u]
             /\ wr'[w].pc = "idle" /\ wr'[w].op = NoOp
             /\ result' = [result EXCEPT ![wr[w].op] = r]
             /\ acked' = IF r = "ok" /\ wr[w].op \notin NullOps
                         THEN acked \cup {wr[w].op} ELSE acked
             /\ promised' = IF r = "ok" /\ wr[w].op \in SyncOps \ NullOps
                            THEN promised \cup {wr[w].op} ELSE promised
  BY <1>1, <1>4 DEF Answer, Writer
<1>5. CASE Return(w) /\ ~(wr[w].op \in NullOps /\ wr[w].status = "ok")
  <2>1. Answer(w, wr[w].status) /\ wr[w].pc = "done"
    BY <1>5 DEF Return
  <2>2. wr[w].status \in {"ok", "error"}
    BY <1>1, <2>1 DEF HoldersInv, Writer
  <2>3. wr[w].op \in Ops
    BY <2>1 DEF CallsInv
  <2>4. wr[w].status = "ok" => wr[w].op \in Done \cup NullOps
    BY <2>1, <2>3 DEF Done
  <2> QED BY <1>4, <2>1, <2>2, <2>4
<1>6. CASE AwaitFlush(w) /\ ~(has_imm_ /\ ~bg_error_)
  <2>1. PICK r \in {"ok", "error"} : Answer(w, r)
    BY <1>6 DEF AwaitFlush
  <2>2. wr[w].op \in NullOps
    BY <1>6 DEF AwaitFlush, HoldersInv
  <2> QED BY <1>4, <2>1, <2>2
<1> QED BY <1>2, <1>3, <1>5, <1>6

LEMMA HoldersSame ==
    ASSUME HoldersInv, UNCHANGED <<result, acked, promised>>,
           phase = "open" => phase' = "open" \/ \A w \in Writers : wr[w].pc = "idle",
           \A w \in Writers :
             /\ wr'[w].op = wr[w].op
             /\ wr'[w].pc = "idle" <=> wr[w].pc = "idle"
             /\ wr'[w].pc \in {"flushwait", "flushblocked"}
                  => wr[w].pc \in {"flushwait", "flushblocked"}
             /\ wr'[w].pc = "done" => wr'[w].status # "sync_error"
    PROVE  HoldersInv'
<1>1. \A op \in Ops : result'[op] = "pending"
                        => \E w \in Writers : wr'[w].pc # "idle" /\ wr'[w].op = op
  BY DEF HoldersInv
<1>2. /\ \A op \in Ops : result'[op] = "ok" => op \in acked' \cup NullOps
      /\ \A op \in Ops : result'[op] # "sync_error"
      /\ promised' \subseteq acked' \cap SyncOps
  BY DEF HoldersInv
<1>3. \A w \in Writers :
         /\ wr'[w].pc = "done" => wr'[w].status # "sync_error"
         /\ wr'[w].pc \in {"flushwait", "flushblocked"} => wr'[w].op \in NullOps
         /\ phase' # "open" => wr'[w].pc = "idle"
  BY DEF HoldersInv
<1> QED BY <1>1, <1>2, <1>3 DEF HoldersInv

\* A signal neither ends a call nor begins one.
LEMMA SignalHolders ==
    ASSUME QueueInv, wr' = wr \/ wr' = SignalAll(wr), NEW w \in Writers
    PROVE  /\ wr'[w].op = wr[w].op /\ wr'[w].status = wr[w].status
           /\ \A p \in {"idle", "done", "log", "sync", "insert", "publish"} :
                wr'[w].pc = p <=> wr[w].pc = p
           /\ wr'[w].pc \in {"flushwait", "flushblocked"}
                => wr[w].pc \in {"flushwait", "flushblocked"}
<1>1. CASE wr' = wr
  BY <1>1
<1>2. CASE wr' = SignalAll(wr)
  BY <1>2 DEF SignalAll, QueueInv, Writer
<1> QED BY <1>1, <1>2

\* A step of the background thread signals at most.
LEMMA BackgroundSignals ==
    ASSUME BackgroundStep
    PROVE  /\ wr' = wr \/ wr' = SignalAll(wr)
           /\ UNCHANGED <<mutex_, writers_, group, phase, lastSequence>>
           /\ UNCHANGED <<result, acked, promised, before>>
<1> USE DEF histVars, flagVars, verVars, queueVars
<1>1. CASE BackgroundNothing
  <2>1. wr' = SignalAll(wr)
    BY <1>1 DEF BackgroundNothing, EndBackgroundCall
  <2> QED BY <1>1, <2>1 DEF BackgroundNothing
<1>2. CASE StartFlush \/ FlushTableBuilt \/ ManifestWritten \/ StartMerge \/ OpenOutput \/ MergeDone
  BY <1>2 DEF StartFlush, FlushTableBuilt, ManifestWritten, StartMerge, OpenOutput, MergeDone
<1>3. CASE FlushInstalled
  <2>1. wr' = SignalAll(wr)
    BY <1>3 DEF FlushInstalled, EndBackgroundCall
  <2> QED BY <1>3, <2>1 DEF FlushInstalled
<1>4. CASE MergeInstalled
  <2>1. wr' = SignalAll(wr)
    BY <1>4 DEF MergeInstalled, EndBackgroundCall
  <2> QED BY <1>4, <2>1 DEF MergeInstalled
<1>5. CASE BackgroundFails
  <2>1. wr' = SignalAll(wr)
    BY <1>5 DEF BackgroundFails, EndBackgroundCall
  <2> QED BY <1>5, <2>1 DEF BackgroundFails
<1> QED BY <1>1, <1>2, <1>3, <1>4, <1>5 DEF BackgroundStep

LEMMA HoldersStep ==
    ASSUME QueueInv, CallsInv, HoldersInv, [Next]_vars
    PROVE  HoldersInv'
<1> USE DEF histVars
<1>1. ASSUME wr' = wr \/ wr' = SignalAll(wr), UNCHANGED <<result, acked, promised>>,
             phase = "open" => phase' = "open" \/ \A w \in Writers : wr[w].pc = "idle"
      PROVE  HoldersInv'
  <2>1. \A w \in Writers :
           /\ wr'[w].op = wr[w].op
           /\ wr'[w].pc = "idle" <=> wr[w].pc = "idle"
           /\ wr'[w].pc \in {"flushwait", "flushblocked"}
                => wr[w].pc \in {"flushwait", "flushblocked"}
           /\ wr'[w].pc = "done" => wr'[w].status # "sync_error"
    BY <1>1, SignalHolders DEF HoldersInv
  <2> QED BY <1>1, <2>1, HoldersSame
<1>2. CASE UNCHANGED vars
  BY <1>1, <1>2 DEF vars, engineVars, flagVars, queueVars
<1>3. CASE BackgroundStep
  BY <1>1, <1>3, BackgroundSignals
<1>4. CASE SuspendCompaction \/ ResumeCompaction \/ Close
  BY <1>1, <1>4 DEF SuspendCompaction, ResumeCompaction, Close, queueVars
<1>5. CASE OpenStep
  BY <1>1, <1>5 DEF OpenStep, OpenRecover, OpenCorrupt, OpenApply, OpenFinish, queueVars
<1>6. ASSUME NEW w \in Writers, NEW op \in Ops, Write(w, op)
      PROVE  HoldersInv'
  <2>1. /\ wr \in [Writers -> Writer] /\ phase = "open" /\ phase' = "open" /\ wr[w].pc = "idle"
        /\ result' = [result EXCEPT ![op] = "pending"] /\ UNCHANGED <<acked, promised>>
        /\ result[op] = "new" /\ result \in [Ops -> {"new", "pending", "ok", "error", "sync_error", "lost"}]
    BY <1>6 DEF Write, QueueInv, engineVars, flagVars, CallsInv
  <2>2. /\ \A u \in Writers : u # w => wr'[u] = wr[u]
        /\ wr'[w].op = op /\ wr'[w].pc \in {"room", "queue"}
    BY <1>6, <2>1 DEF Write
  <2>3. \A o \in Ops : result'[o] = "pending"
                         => \E u \in Writers : wr'[u].pc # "idle" /\ wr'[u].op = o
    <3> SUFFICES ASSUME NEW o \in Ops, result'[o] = "pending", o # op
                 PROVE  \E u \in Writers : wr'[u].pc # "idle" /\ wr'[u].op = o
      BY <2>2
    <3>1. PICK u \in Writers : wr[u].pc # "idle" /\ wr[u].op = o
      BY <2>1 DEF HoldersInv
    <3>2. u # w
      BY <2>1, <3>1
    <3> QED BY <2>2, <3>1, <3>2
  <2> QED BY <2>1, <2>2, <2>3 DEF HoldersInv
<1>7. ASSUME NEW w \in Writers, WriterStep(w), ~Return(w), ~AwaitFlush(w)
      PROVE  HoldersInv'
  <2>1. UNCHANGED <<result, acked, promised>> /\ phase = "open" /\ phase' = "open"
    BY <1>7 DEF WriterStep, RoomError, RoomSlowdown, RoomReady, RoomWait, RoomSwitch,
         RoomSwitchFails, MustSwitch, InRoom, AddRecord, AddRecordFails, SyncLog, SyncLogFails,
         InsertInto, Publish, Leads, engineVars, flagVars
  <2>2. \A u \in Writers :
           /\ wr'[u].op = wr[u].op
           /\ wr[u].pc # "idle" => wr'[u].pc # "idle"
           /\ wr'[u].pc \in {"flushwait", "flushblocked"}
                => wr[u].pc \in {"flushwait", "flushblocked"}
           /\ wr'[u].pc = "done" =>
                wr'[u].status \in {"ok", "error"}
                  \/ (wr[u].pc = "done" /\ wr'[u].status = wr[u].status)
    BY <1>7, WritersMove
  <2>3. \A o \in Ops : result'[o] = "pending"
                         => \E u \in Writers : wr'[u].pc # "idle" /\ wr'[u].op = o
    BY <2>1, <2>2 DEF HoldersInv
  <2>4. \A u \in Writers :
           /\ wr'[u].pc = "done" => wr'[u].status # "sync_error"
           /\ wr'[u].pc \in {"flushwait", "flushblocked"} => wr'[u].op \in NullOps
    BY <2>2 DEF HoldersInv
  <2> QED BY <2>1, <2>3, <2>4 DEF HoldersInv
<1>8. ASSUME NEW w \in Writers, Return(w) \/ AwaitFlush(w)
      PROVE  HoldersInv'
  <2>1. /\ phase = "open" /\ phase' = "open" /\ wr[w].pc \in {"done", "flushwait"}
    BY <1>8 DEF Return, AwaitFlush, engineVars, flagVars
  <2>2. /\ wr[w].op \in Ops /\ result[wr[w].op] = "pending"
        /\ result \in [Ops -> {"new", "pending", "ok", "error", "sync_error", "lost"}]
        /\ NoOp \notin Ops
    BY <2>1, DBImplAssumption DEF CallsInv
  <2>3. \A u \in Writers : u # w => wr'[u] = wr[u]
    BY <1>8, AnswerMoves
  <2>4. CASE /\ UNCHANGED <<result, acked, promised>>
             /\ wr[w].op \in NullOps /\ wr'[w].op = wr[w].op
             /\ wr'[w].pc \in {"flushwait", "flushblocked"}
    <3>1. \A o \in Ops : result'[o] = "pending"
                           => \E u \in Writers : wr'[u].pc # "idle" /\ wr'[u].op = o
      <4> SUFFICES ASSUME NEW o \in Ops, result[o] = "pending"
                   PROVE  \E u \in Writers : wr'[u].pc # "idle" /\ wr'[u].op = o
        BY <2>4
      <4>1. PICK u \in Writers : wr[u].pc # "idle" /\ wr[u].op = o
        BY DEF HoldersInv
      <4>2. wr'[u].pc # "idle" /\ wr'[u].op = o
        BY <2>3, <2>4, <4>1
      <4> QED BY <4>2
    <3>2. \A u \in Writers :
             /\ wr'[u].pc = "done" => wr'[u].status # "sync_error"
             /\ wr'[u].pc \in {"flushwait", "flushblocked"} => wr'[u].op \in NullOps
      BY <2>3, <2>4 DEF HoldersInv
    <3> QED BY <2>1, <2>4, <3>1, <3>2 DEF HoldersInv
  <2>5. ASSUME NEW r \in {"ok", "error"},
               /\ wr'[w].pc = "idle" /\ wr'[w].op = NoOp
               /\ result' = [result EXCEPT ![wr[w].op] = r]
               /\ acked' = IF r = "ok" /\ wr[w].op \notin NullOps
                           THEN acked \cup {wr[w].op} ELSE acked
               /\ promised' = IF r = "ok" /\ wr[w].op \in SyncOps \ NullOps
                              THEN promised \cup {wr[w].op} ELSE promised
        PROVE  HoldersInv'
    <3>1. \A o \in Ops : result'[o] = "pending"
                           => \E u \in Writers : wr'[u].pc # "idle" /\ wr'[u].op = o
      <4> SUFFICES ASSUME NEW o \in Ops, result'[o] = "pending"
                   PROVE  \E u \in Writers : wr'[u].pc # "idle" /\ wr'[u].op = o
        OBVIOUS
      <4>1. o # wr[w].op /\ result[o] = "pending"
        BY <2>2, <2>5
      <4>2. PICK u \in Writers : wr[u].pc # "idle" /\ wr[u].op = o
        BY <4>1 DEF HoldersInv
      <4>3. u # w
        BY <4>1, <4>2
      <4> QED BY <2>3, <4>2, <4>3
    <3>2. \A o \in Ops : result'[o] = "ok" => o \in acked' \cup NullOps
      BY <2>2, <2>5 DEF HoldersInv
    <3>3. \A o \in Ops : result'[o] # "sync_error"
      BY <2>2, <2>5 DEF HoldersInv
    <3>4. promised' \subseteq acked' \cap SyncOps
      BY <2>5 DEF HoldersInv
    <3>5. \A u \in Writers :
             /\ wr'[u].pc = "done" => wr'[u].status # "sync_error"
             /\ wr'[u].pc \in {"flushwait", "flushblocked"} => wr'[u].op \in NullOps
      BY <2>3, <2>5 DEF HoldersInv
    <3> QED BY <2>1, <3>1, <3>2, <3>3, <3>4, <3>5 DEF HoldersInv
  <2> QED BY <1>8, <2>4, <2>5, AnswerMoves
<1>9. CASE Closed \/ ProcessCrash \/ MachineCrash
  <2>1. /\ \A w \in Writers : wr'[w].pc = "idle"
        /\ UNCHANGED <<acked, promised>>
        /\ result' = Interrupted \/ (phase = "closing" /\ result' = result)
    BY <1>9 DEF Closed, ProcessCrash, MachineCrash, Forget
  <2>2. result \in [Ops -> {"new", "pending", "ok", "error", "sync_error", "lost"}]
    BY DEF CallsInv
  <2>3. \A o \in Ops : result'[o] # "pending"
    BY <2>1, <2>2 DEF Interrupted, HoldersInv
  <2>4. \A o \in Ops : result'[o] \in {"ok", "sync_error"} => result'[o] = result[o]
    BY <2>1, <2>2 DEF Interrupted
  <2> QED BY <2>1, <2>3, <2>4 DEF HoldersInv
<1> QED BY <1>2, <1>3, <1>4, <1>5, <1>6, <1>7, <1>8, <1>9 DEF Next

----------------------------------------------------------------------------
(* Write(NULL), and the leader.                                            *)

\* A record of the log holds the entries of the group, under the current log number.
LEMMA RecordIsGroup ==
    /\ \A e \in GroupRecord : Content(e) \in GroupEntries /\ e.file = logfile_number_
    /\ \A x \in GroupEntries : \E e \in GroupRecord : Content(e) = x
<1>1. \A x \in GroupEntries : x = [seq |-> x.seq, op |-> x.op]
  BY DEF GroupEntries
<1>2. ASSUME NEW x \in GroupEntries
      PROVE  LET e == [file |-> logfile_number_, first |-> lastSequence + 1,
                       seq |-> x.seq, op |-> x.op]
             IN  e \in GroupRecord /\ Content(e) = x /\ e.file = logfile_number_
  BY <1>1 DEF GroupRecord, Content
<1>3. \A e \in GroupRecord : \E x \in GroupEntries :
        e = [file |-> logfile_number_, first |-> lastSequence + 1, seq |-> x.seq, op |-> x.op]
  BY DEF GroupRecord
<1>4. \A e \in GroupRecord : Content(e) \in GroupEntries /\ e.file = logfile_number_
  <2> SUFFICES ASSUME NEW e \in GroupRecord
               PROVE  Content(e) \in GroupEntries /\ e.file = logfile_number_
    OBVIOUS
  <2>1. PICK x \in GroupEntries :
          e = [file |-> logfile_number_, first |-> lastSequence + 1, seq |-> x.seq, op |-> x.op]
    BY <1>3
  <2> QED BY <1>2, <2>1
<1> QED BY <1>2, <1>4

\* Where the entries of files and memory come from
LEMMA DataMoves ==
    ASSUME [Next]_vars
    PROVE  /\ wal' \subseteq wal \cup GroupRecord
           /\ manifest'.tables \subseteq manifest.tables \cup edit.added
           /\ edit'.added \subseteq edit.added \cup imm_ \cup Contents(wal)
           /\ imm_' \subseteq imm_ \cup mem_
           /\ mem_' \subseteq mem_ \cup GroupEntries
<1> USE DEF engineVars, memVars, verVars, flagVars, bgVars, walVars, manVars
<1>0. Apply(manifest, edit).tables = manifest.tables \cup edit.added
  BY DEF Apply
<1>1. CASE UNCHANGED vars
  BY <1>1 DEF vars
<1>2. CASE \E w \in Writers, op \in Ops : Write(w, op)
  BY <1>2 DEF Write
<1>3. ASSUME NEW w \in Writers, WriterStep(w)
      PROVE  /\ wal' \subseteq wal \cup GroupRecord
             /\ manifest'.tables \subseteq manifest.tables \cup edit.added
             /\ edit'.added \subseteq edit.added \cup imm_ \cup Contents(wal)
             /\ imm_' \subseteq imm_ \cup mem_
             /\ mem_' \subseteq mem_ \cup GroupEntries
  <2>1. CASE RoomError(w) \/ RoomSlowdown(w) \/ RoomReady(w) \/ RoomWait(w) \/ RoomSwitch(w)
             \/ RoomSwitchFails(w)
    BY <2>1 DEF RoomError, RoomSlowdown, RoomReady, RoomWait, RoomSwitch, RoomSwitchFails
  <2>2. CASE AddRecord(w) \/ AddRecordFails(w)
    BY <2>2 DEF AddRecord, AddRecordFails
  <2>3. CASE SyncLog(w) \/ SyncLogFails(w) \/ InsertInto(w) \/ Publish(w)
    BY <2>3 DEF SyncLog, SyncLogFails, InsertInto, Publish
  <2>4. CASE Return(w) \/ AwaitFlush(w)
    BY <2>4 DEF Return, AwaitFlush
  <2> QED BY <1>3, <2>1, <2>2, <2>3, <2>4 DEF WriterStep
<1>4. CASE BackgroundStep
  <2>1. CASE BackgroundNothing \/ StartFlush \/ OpenOutput
    BY <2>1 DEF BackgroundNothing, StartFlush, OpenOutput
  <2>2. CASE FlushTableBuilt \/ StartMerge \/ MergeDone
    BY <2>2 DEF FlushTableBuilt, StartMerge, MergeDone, Edit
  <2>3. CASE ManifestWritten
    BY <1>0, <2>3 DEF ManifestWritten
  <2>5. CASE BackgroundFails
    <3>1. manifest' = manifest \/ manifest' = Apply(manifest, edit)
      BY <2>5 DEF BackgroundFails
    <3> QED BY <1>0, <2>5, <3>1 DEF BackgroundFails
  <2>4. CASE FlushInstalled \/ MergeInstalled
    BY <2>4 DEF FlushInstalled, MergeInstalled, DeleteObsoleteLogs
  <2> QED BY <1>4, <2>1, <2>2, <2>3, <2>4, <2>5 DEF BackgroundStep
<1>5. CASE SuspendCompaction \/ ResumeCompaction \/ Close
  BY <1>5 DEF SuspendCompaction, ResumeCompaction, Close
<1>6. CASE Closed \/ ProcessCrash \/ MachineCrash
  BY <1>6 DEF Closed, ProcessCrash, MachineCrash, Forget
<1>7. CASE OpenRecover
  <2> DEFINE found == {e \in wal : e.file \in LiveLogs(walFiles, manifest)}
  <2>1. edit'.added = Contents(found) /\ Contents(found) \subseteq Contents(wal)
    BY <1>7 DEF OpenRecover, Edit, Contents
  <2> HIDE DEF found
  <2> QED BY <1>7, <2>1 DEF OpenRecover
<1>8. CASE OpenCorrupt \/ OpenApply \/ OpenFinish
  <2>1. CASE OpenCorrupt \/ OpenFinish
    BY <2>1 DEF OpenCorrupt, OpenFinish, DeleteObsoleteLogs
  <2>2. CASE OpenApply
    BY <1>0, <2>2 DEF OpenApply
  <2> QED BY <1>8, <2>1, <2>2
<1> QED BY <1>1, <1>2, <1>3, <1>4, <1>5, <1>6, <1>7, <1>8 DEF Next, OpenStep

LEMMA NullStep ==
    ASSUME NullInv, [Next]_vars
    PROVE  NullInv'
<1>1. \A x \in GroupEntries : x.op \notin NullOps
  BY DEF GroupEntries
<1>2. Contents(wal)' \subseteq Contents(wal) \cup GroupEntries
  BY DataMoves, RecordIsGroup DEF Contents, Content
<1> QED BY <1>1, <1>2, DataMoves DEF NullInv

\* Steps that leave the group and what is known of it alone.
LEMMA LeaderSame ==
    ASSUME QueueInv, LeaderInv, group' = group,
           lastSequence' = lastSequence, logfile_number_' = logfile_number_,
           \A i \in 1..Len(writers_) : writers_'[i] = writers_[i],
           \A w \in Writers :
             wr'[w].pc \in {"log", "sync", "insert", "publish"}
               => wr'[w].pc = wr[w].pc /\ wr'[w].status = wr[w].status /\ wr'[w].op = wr[w].op,
           \A i \in 1..Len(writers_) : wr'[writers_[i]].op = wr[writers_[i]].op,
           \A e \in wal : e.file = logfile_number_ => e \in wal',
           \A e \in durable : e.file = logfile_number_ => e \in durable',
           mem_ \subseteq mem_'
    PROVE  LeaderInv'
<1> SUFFICES ASSUME NEW w \in Writers,
                    wr'[w].pc \in {"log", "sync", "insert", "publish"}
             PROVE
      /\ \A i \in 1..group' : wr'[writers_'[i]].op \in SyncOps => wr'[w].op \in SyncOps
      /\ wr'[w].pc \in {"sync", "insert"} \/ (wr'[w].pc = "publish" /\ wr'[w].status = "ok")
           => GroupRecord' \subseteq wal'
      /\ wr'[w].pc = "insert" \/ (wr'[w].pc = "publish" /\ wr'[w].status = "ok")
           => (wr'[w].op \in SyncOps => GroupRecord' \subseteq durable')
      /\ wr'[w].pc = "publish" /\ wr'[w].status = "ok" => GroupEntries' \subseteq mem_'
  BY DEF LeaderInv
<1>1. /\ wr'[w].pc = wr[w].pc /\ wr'[w].status = wr[w].status /\ wr'[w].op = wr[w].op
      /\ group \in 1..Len(writers_) /\ group \in Nat /\ Len(writers_) \in Nat
  BY DEF QueueInv
<1>2. \A i \in 1..group : /\ writers_'[i] = writers_[i]
                          /\ wr'[writers_[i]].op = wr[writers_[i]].op
  BY <1>1
<1>3. GroupEntries' = GroupEntries
  BY <1>1, <1>2, GroupSame
<1>4. GroupRecord' = GroupRecord
  BY <1>3 DEF GroupRecord
<1>5. /\ GroupRecord \subseteq wal => GroupRecord \subseteq wal'
      /\ GroupRecord \subseteq durable => GroupRecord \subseteq durable'
  BY RecordIsGroup
<1>6. \A i \in 1..group' : wr'[writers_'[i]].op \in SyncOps => wr'[w].op \in SyncOps
  BY <1>1, <1>2 DEF LeaderInv
<1> QED BY <1>1, <1>3, <1>4, <1>5, <1>6 DEF LeaderInv

\* The number of the log that an edit names is not above that of the current one.
LEMMA InstallKeepsLog ==
    ASSUME OrderInv, EditInv, FileNumbers, FlushInstalled \/ MergeInstalled
    PROVE  /\ edit.log = manifest.log /\ manifest.log <= logfile_number_ /\ manifest.log \in Nat
           /\ \/ UNCHANGED walVars
              \/ /\ wal' = {e \in wal : e.file >= manifest.log}
                 /\ durable' = {e \in durable : e.file >= manifest.log}
<1>1. Working /\ bg.pc \in {"flushinstall", "mergeinstall"}
  BY DEF FlushInstalled, MergeInstalled, Running
<1>2. edit.log = manifest.log
  BY <1>1 DEF EditInv
<1>3. manifest.log <= logfile_number_ /\ manifest.log \in Nat
  BY <1>1 DEF OrderInv, BoundsInv, Working, FileNumbers
<1>4. \/ UNCHANGED walVars
      \/ DeleteObsoleteLogs(edit.log)
  BY DEF FlushInstalled, MergeInstalled
<1> QED BY <1>2, <1>3, <1>4 DEF DeleteObsoleteLogs

\* The background thread leaves the group and its record alone.
LEMMA BackgroundLeader ==
    ASSUME QueueInv, FileNumbers, OrderInv, EditInv, LeaderInv, BackgroundStep
    PROVE  LeaderInv'
<1> USE DEF memVars, verVars, flagVars, bgVars, walVars, manVars, histVars, queueVars
<1>1. /\ wr' = wr \/ wr' = SignalAll(wr)
      /\ UNCHANGED <<writers_, group, lastSequence>>
  BY BackgroundSignals
<1>2. logfile_number_' = logfile_number_ /\ mem_' = mem_
  BY DEF BackgroundStep, BackgroundNothing, StartFlush, FlushTableBuilt,
         ManifestWritten, FlushInstalled, StartMerge, OpenOutput, MergeDone, MergeInstalled,
         BackgroundFails
<1>3. /\ \A e \in wal : e.file = logfile_number_ => e \in wal'
      /\ \A e \in durable : e.file = logfile_number_ => e \in durable'
  <2>1. CASE FlushInstalled \/ MergeInstalled
    <3>1. /\ manifest.log <= logfile_number_ /\ manifest.log \in Nat /\ logfile_number_ \in Nat
          /\ \/ UNCHANGED walVars
             \/ /\ wal' = {e \in wal : e.file >= manifest.log}
                /\ durable' = {e \in durable : e.file >= manifest.log}
      BY <2>1, InstallKeepsLog DEF FileNumbers
    <3> QED BY <3>1
  <2>2. CASE ~(FlushInstalled \/ MergeInstalled)
    BY <2>2 DEF BackgroundStep, BackgroundNothing, StartFlush, FlushTableBuilt,
         ManifestWritten, StartMerge, OpenOutput, MergeDone, BackgroundFails
  <2> QED BY <2>1, <2>2
<1>4. \A w \in Writers :
        /\ wr'[w].op = wr[w].op /\ wr'[w].status = wr[w].status
        /\ wr'[w].pc \in {"log", "sync", "insert", "publish"} => wr'[w].pc = wr[w].pc
  BY <1>1, SignalHolders
<1>5. \A i \in 1..Len(writers_) : /\ writers_'[i] = writers_[i]
                                  /\ wr'[writers_[i]].op = wr[writers_[i]].op
  BY <1>1, <1>4 DEF QueueInv
<1> QED BY <1>1, <1>2, <1>3, <1>4, <1>5, LeaderSame

\* No writer leads.
LEMMA NoLeader ==
    ASSUME \A w \in Writers : wr'[w].pc \notin {"log", "sync", "insert", "publish"}
    PROVE  LeaderInv'
BY DEF LeaderInv

\* MakeRoomForWrite() ends with a group in which no batch asks for more than its leader.
LEMMA RoomLeader ==
    ASSUME QueueInv, HoldersInv, LeaderInv, NEW w \in Writers,
           \/ RoomError(w) \/ RoomSlowdown(w) \/ RoomReady(w) \/ RoomWait(w)
           \/ RoomSwitch(w) \/ RoomSwitchFails(w)
    PROVE  LeaderInv'
<1>1. /\ wr[w].pc = "room" /\ wr \in [Writers -> Writer] /\ wr[w] \in Writer
      /\ writers_ \in Seq(Writers)
  BY DEF RoomError, RoomSlowdown, RoomReady, RoomWait, RoomSwitch, RoomSwitchFails,
         MustSwitch, InRoom, QueueInv
<1>2. /\ writers_[1] = w /\ writers_ # <<>>
      /\ \A u \in Writers : wr[u].pc \notin {"log", "sync", "insert", "publish"}
  BY <1>1, OneWrites DEF Leading
<1>3. CASE /\ \E st \in {"ok", "error"} : wr' = Dequeue(wr, 1, st)
  <2>1. PICK st \in {"ok", "error", "sync_error"} : wr' = Dequeue(wr, 1, st)
    BY <1>3
  <2>2. \A u \in Writers :
          LET d == wr'[u]
          IN  /\ u \in {writers_[i] : i \in 1..1} => d.pc = "done"
              /\ u \notin {writers_[i] : i \in 1..1} => d.pc = "room" \/ d.pc = wr[u].pc
    <3>1. \A u \in Writers :
            LET d == Dequeue(wr, 1, st)[u]
            IN  /\ d.op = wr[u].op
                /\ u \in {writers_[i] : i \in 1..1} => d.pc = "done" /\ d.status = st
                /\ u \notin {writers_[i] : i \in 1..1} =>
                     /\ d.status = wr[u].status
                     /\ d.pc = IF u \in {writers_[i] : i \in {1 + 1} \cap 1..Len(writers_)}
                               THEN "room" ELSE wr[u].pc
      BY <1>1, DequeueEffect
    <3> QED BY <2>1, <3>1
  <2>3. \A u \in Writers : wr'[u].pc \notin {"log", "sync", "insert", "publish"}
    BY <1>2, <2>2
  <2> QED BY <2>3, NoLeader
<1>4. CASE RoomSlowdown(w) \/ RoomWait(w) \/ RoomSwitch(w)
  <2>1. \/ wr' = [wr EXCEPT ![w].delay = FALSE]
        \/ wr' = [wr EXCEPT ![w].pc = "bgwait"]
        \/ wr' = [wr EXCEPT ![w].force = FALSE]
    BY <1>4 DEF RoomSlowdown, RoomWait, RoomSwitch
  <2>2. \A u \in Writers : wr'[u].pc \in {wr[u].pc, "bgwait"}
    BY <1>1, <2>1 DEF Writer
  <2>3. \A u \in Writers : wr'[u].pc \notin {"log", "sync", "insert", "publish"}
    BY <1>2, <2>2
  <2> QED BY <2>3, NoLeader
<1>5. CASE RoomReady(w) /\ wr[w].op \notin NullOps
  <2>1. /\ wr' = [wr EXCEPT ![w].pc = "log"] /\ writers_' = writers_
        /\ group' \in 1..Len(writers_) /\ BatchGroup(group')
    BY <1>5 DEF RoomReady
  <2>2. /\ wr'[w].op = wr[w].op /\ wr'[w].pc = "log"
        /\ \A u \in Writers : u # w => wr'[u] = wr[u]
    BY <1>1, <2>1 DEF Writer
  <2>3. PICK n \in 1..Len(writers_) : group' = n /\ BatchGroup(n)
    BY <2>1
  <2>4. \A i \in 1..n : wr'[writers_[i]].op \in SyncOps => wr'[w].op \in SyncOps
    <3> SUFFICES ASSUME NEW i \in 1..n, wr'[writers_[i]].op \in SyncOps
                 PROVE  wr'[w].op \in SyncOps
      OBVIOUS
    <3>1. i = 1 \/ i \in 2..n
      OBVIOUS
    <3>2. i \in 1..Len(writers_) /\ writers_[i] \in Writers
      BY <1>1, <2>3
    <3>3. wr[writers_[i]].op \in SyncOps
      BY <2>2, <3>2
    <3> QED BY <1>2, <2>2, <2>3, <3>1, <3>3 DEF BatchGroup, MayJoin
  <2>5. \A u \in Writers : wr'[u].pc \notin {"sync", "insert", "publish"}
                           /\ (wr'[u].pc = "log" => u = w)
    BY <1>2, <2>2
  <2> QED BY <2>1, <2>3, <2>4, <2>5 DEF LeaderInv
<1> QED BY <1>3, <1>4, <1>5 DEF RoomError, RoomReady, RoomSwitchFails

\* The leader logs, syncs and inserts its group, in that order.
LEMMA LoggingLeader ==
    ASSUME QueueInv, HoldersInv, LeaderInv, NEW w \in Writers,
           AddRecord(w) \/ AddRecordFails(w) \/ SyncLog(w) \/ SyncLogFails(w) \/ InsertInto(w)
    PROVE  LeaderInv'
<1>1. /\ wr \in [Writers -> Writer] /\ wr[w] \in Writer /\ writers_ \in Seq(Writers)
      /\ group \in Nat /\ Len(writers_) \in Nat
  BY DEF QueueInv
<1>2. /\ wr[w].pc \in {"log", "sync", "insert"}
      /\ UNCHANGED <<writers_, group, lastSequence, logfile_number_>>
      /\ wal \subseteq wal' /\ durable \subseteq durable' /\ mem_ \subseteq mem_'
  BY DEF AddRecord, AddRecordFails, SyncLog, SyncLogFails, InsertInto, Leads, memVars, verVars,
         engineVars, walVars
<1>3. /\ wr'[w].pc \in {"sync", "insert", "publish"} /\ wr'[w].op = wr[w].op
      /\ \A u \in Writers : u # w => wr'[u] = wr[u]
  BY LoggingStep
<1>4. /\ group \in 1..Len(writers_)
      /\ \A u \in Writers : u # w => wr[u].pc \notin {"log", "sync", "insert", "publish"}
  BY <1>2, OneWrites DEF Leading, QueueInv
<1>5. \A i \in 1..group : /\ writers_'[i] = writers_[i] /\ writers_[i] \in Writers
                          /\ wr'[writers_[i]].op = wr[writers_[i]].op
  BY <1>1, <1>2, <1>3, <1>4
<1>6. GroupEntries' = GroupEntries /\ GroupRecord' = GroupRecord
  <2>1. GroupEntries' = GroupEntries
    BY <1>1, <1>2, <1>5, GroupSame
  <2> QED BY <1>2, <2>1 DEF GroupRecord
<1>7. \A i \in 1..group' : wr'[writers_'[i]].op \in SyncOps => wr'[w].op \in SyncOps
  BY <1>2, <1>3, <1>5 DEF LeaderInv
<1>8. /\ wr'[w].pc \in {"sync", "insert"} \/ (wr'[w].pc = "publish" /\ wr'[w].status = "ok")
           => GroupRecord \subseteq wal'
      /\ wr'[w].pc = "insert" \/ (wr'[w].pc = "publish" /\ wr'[w].status = "ok")
           => (wr[w].op \in SyncOps => GroupRecord \subseteq durable')
      /\ wr'[w].pc = "publish" /\ wr'[w].status = "ok" => GroupEntries \subseteq mem_'
  <2>1. CASE AddRecord(w)
    <3>1. /\ wal' = wal \cup GroupRecord
          /\ wr' = [wr EXCEPT ![w].pc = IF wr[w].op \in SyncOps THEN "sync" ELSE "insert"]
      BY <2>1 DEF AddRecord
    <3>2. wr'[w].pc = IF wr[w].op \in SyncOps THEN "sync" ELSE "insert"
      BY <1>1, <3>1 DEF Writer
    <3> QED BY <3>1, <3>2
  <2>2. CASE AddRecordFails(w) \/ SyncLogFails(w)
    <3>1. \E s \in {"error", "sync_error"} :
            wr' = [wr EXCEPT ![w] = [@ EXCEPT !.pc = "publish", !.status = s]]
      BY <2>2 DEF AddRecordFails, SyncLogFails
    <3>2. wr'[w].pc = "publish" /\ wr'[w].status # "ok"
      BY <1>1, <3>1 DEF Writer
    <3> QED BY <3>2
  <2>3. CASE SyncLog(w)
    <3>1. /\ wr' = [wr EXCEPT ![w].pc = "insert"] /\ wal' = wal /\ wr[w].pc = "sync"
          /\ durable' = durable \cup {e \in wal : e.file = logfile_number_}
      BY <2>3 DEF SyncLog, Leads
    <3>2. wr'[w].pc = "insert"
      BY <1>1, <3>1 DEF Writer
    <3>3. GroupRecord \subseteq wal
      BY <3>1 DEF LeaderInv
    <3> QED BY <3>1, <3>2, <3>3, RecordIsGroup
  <2>4. CASE InsertInto(w)
    <3>1. /\ wr' = [wr EXCEPT ![w].pc = "publish"] /\ wal' = wal /\ wr[w].pc = "insert"
          /\ durable' = durable /\ mem_' = mem_ \cup GroupEntries
      BY <2>4 DEF InsertInto, Leads, walVars
    <3>2. wr'[w].pc = "publish"
      BY <1>1, <3>1 DEF Writer
    <3> QED BY <3>1, <3>2 DEF LeaderInv
  <2> QED BY <2>1, <2>2, <2>3, <2>4
<1>9. \A u \in Writers : u # w => wr'[u].pc \notin {"log", "sync", "insert", "publish"}
  BY <1>3, <1>4
<1> QED BY <1>3, <1>6, <1>7, <1>8, <1>9 DEF LeaderInv

\* A call that joins the queue is behind the group.
LEMMA WriteLeader ==
    ASSUME QueueInv, HoldersInv, LeaderInv, NEW w \in Writers, NEW op \in Ops, Write(w, op)
    PROVE  LeaderInv'
<1>0. wr \in [Writers -> Writer] /\ writers_ \in Seq(Writers) /\ Len(writers_) \in Nat
  BY DEF QueueInv
<1>1. /\ writers_' = Append(writers_, w) /\ wr[w].pc = "idle"
      /\ UNCHANGED <<group, lastSequence, logfile_number_, wal, durable, mem_>>
  BY DEF Write, engineVars, memVars, verVars, walVars
<1>2. /\ \A u \in Writers : u # w => wr'[u] = wr[u]
      /\ wr'[w].pc \in {"room", "queue"}
  BY <1>0 DEF Write
<1>3. \A i \in 1..Len(writers_) : writers_'[i] = writers_[i] /\ writers_[i] \in Writers
  BY <1>0, <1>1
<1>4. \A i \in 1..Len(writers_) : writers_[i] # w
  <2> SUFFICES ASSUME NEW i \in 1..Len(writers_), writers_[i] = w PROVE FALSE
    OBVIOUS
  <2>1. CASE i = 1
    <3>1. writers_ # <<>> /\ Head(writers_) = w
      BY <1>0, <2>1
    <3> QED BY <1>1, <3>1 DEF QueueInv, Leading
  <2>2. CASE i # 1
    <3>1. i \in 2..Len(writers_)
      BY <1>0, <2>2
    <3> QED BY <1>1, <3>1 DEF QueueInv
  <2> QED BY <2>1, <2>2
<1>5. \A i \in 1..Len(writers_) : wr'[writers_[i]].op = wr[writers_[i]].op
  BY <1>2, <1>3, <1>4
<1> QED BY <1>1, <1>2, <1>3, <1>5, LeaderSame

\* A call that returns has left the queue.
LEMMA ReturnLeader ==
    ASSUME QueueInv, HoldersInv, LeaderInv, CallsInv, NEW w \in Writers,
           Return(w) \/ AwaitFlush(w)
    PROVE  LeaderInv'
<1>0. wr \in [Writers -> Writer] /\ writers_ \in Seq(Writers) /\ Len(writers_) \in Nat
  BY DEF QueueInv
<1>1. /\ wr[w].pc \in {"done", "flushwait"}
      /\ UNCHANGED <<writers_, group, lastSequence, logfile_number_, wal, durable, mem_>>
  BY DEF Return, AwaitFlush, engineVars, memVars, verVars, walVars
<1>2. /\ \A u \in Writers : u # w => wr'[u] = wr[u]
      /\ wr'[w].pc \in {"idle", "flushwait", "flushblocked"}
  BY AnswerMoves
<1>3. \A i \in 1..Len(writers_) : writers_[i] # w
  <2> SUFFICES ASSUME NEW i \in 1..Len(writers_), writers_[i] = w PROVE FALSE
    OBVIOUS
  <2>1. CASE i = 1
    <3>1. writers_ # <<>> /\ Head(writers_) = w
      BY <1>0, <2>1
    <3> QED BY <1>1, <3>1 DEF QueueInv, Leading
  <2>2. CASE i # 1
    <3>1. i \in 2..Len(writers_)
      BY <1>0, <2>2
    <3> QED BY <1>1, <3>1 DEF QueueInv
  <2> QED BY <2>1, <2>2
<1>4. \A i \in 1..Len(writers_) : /\ writers_'[i] = writers_[i]
                                  /\ wr'[writers_[i]].op = wr[writers_[i]].op
  BY <1>0, <1>1, <1>2, <1>3
<1> QED BY <1>1, <1>2, <1>4, LeaderSame

\* After Publish() nobody has a group.
LEMMA PublishLeader ==
    ASSUME QueueInv, HoldersInv, LeaderInv, NEW w \in Writers, Publish(w)
    PROVE  LeaderInv'
<1>0. wr \in [Writers -> Writer] /\ writers_ \in Seq(Writers) /\ Len(writers_) \in Nat
  BY DEF QueueInv
<1>1. /\ wr[w].pc = "publish" /\ UNCHANGED mutex_
  BY DEF Publish, Leads
<1>2. \A u \in Writers : wr[u].pc \in {"log", "sync", "insert", "publish"}
                           => u \in {writers_[i] : i \in 1..group}
  <2>1. /\ writers_[1] = w /\ group \in 1..Len(writers_) /\ group \in Nat
        /\ \A u \in Writers : u # w => wr[u].pc \notin {"log", "sync", "insert", "publish"}
    BY <1>1, OneWrites DEF Leading, QueueInv
  <2>2. 1 \in 1..group
    BY <1>0, <2>1
  <2> QED BY <2>1, <2>2
<1> DEFINE woken == IF wr[w].status = "sync_error" /\ ~bg_error_ THEN SignalAll(wr) ELSE wr
           st == IF wr[w].status = "ok" THEN "ok" ELSE "error"
<1>3. wr' = Dequeue(woken, group, st) /\ st \in {"ok", "error", "sync_error"}
  BY DEF Publish
<1>4. /\ woken \in [Writers -> Writer]
      /\ \A u \in Writers : woken[u].pc \in {"log", "sync", "insert", "publish"}
                              => wr[u].pc = woken[u].pc
  BY <1>0, SignalKeepsQueue
<1> HIDE DEF woken, st
<1>5. \A u \in Writers :
        LET d == wr'[u]
        IN  /\ u \in {writers_[i] : i \in 1..group} => d.pc = "done"
            /\ u \notin {writers_[i] : i \in 1..group} => d.pc = "room" \/ d.pc = woken[u].pc
  <2>1. \A u \in Writers :
          LET d == Dequeue(woken, group, st)[u]
          IN  /\ d.op = woken[u].op
              /\ u \in {writers_[i] : i \in 1..group} => d.pc = "done" /\ d.status = st
              /\ u \notin {writers_[i] : i \in 1..group} =>
                   /\ d.status = woken[u].status
                   /\ d.pc = IF u \in {writers_[i] : i \in {group + 1} \cap 1..Len(writers_)}
                             THEN "room" ELSE woken[u].pc
    BY <1>3, <1>4, DequeueEffect
  <2> QED BY <1>3, <2>1
<1>6. \A u \in Writers : wr'[u].pc \notin {"log", "sync", "insert", "publish"}
  BY <1>2, <1>4, <1>5
<1> QED BY <1>6, NoLeader

LEMMA GroupLeaderStep ==
    ASSUME QueueInv, FileNumbers, OrderInv, HoldersInv, EditInv, LeaderInv, [Next]_vars
    PROVE  LeaderInv'
<1>1. CASE UNCHANGED vars \/ SuspendCompaction \/ ResumeCompaction \/ Close
  <2>1. /\ wr' = wr
        /\ UNCHANGED <<writers_, group, lastSequence, logfile_number_, wal, durable, mem_>>
    BY <1>1 DEF SuspendCompaction, ResumeCompaction, Close, vars, engineVars, queueVars,
         memVars, verVars, walVars
  <2> QED BY <2>1, LeaderSame
<1>2. CASE Closed \/ ProcessCrash \/ MachineCrash \/ OpenStep
  <2>1. CASE OpenStep
    <3>1. phase # "open" /\ wr' = wr
      BY <2>1 DEF OpenStep, OpenRecover, OpenCorrupt, OpenApply, OpenFinish, queueVars
    <3>2. \A u \in Writers : wr'[u].pc = "idle"
      BY <3>1 DEF HoldersInv
    <3> QED BY <3>2, NoLeader
  <2>2. CASE Closed \/ ProcessCrash \/ MachineCrash
    <3>1. \A u \in Writers : wr'[u].pc = "idle"
      BY <2>2 DEF Closed, ProcessCrash, MachineCrash, Forget
    <3> QED BY <3>1, NoLeader
  <2> QED BY <1>2, <2>1, <2>2
<1>3. CASE BackgroundStep
  BY <1>3, BackgroundLeader
<1>4. CASE \E w \in Writers : WriterStep(w)
  <2>1. PICK w \in Writers : WriterStep(w)
    BY <1>4
  <2>2. CASE \/ RoomError(w) \/ RoomSlowdown(w) \/ RoomReady(w) \/ RoomWait(w)
             \/ RoomSwitch(w) \/ RoomSwitchFails(w)
    BY <2>2, RoomLeader
  <2>3. CASE AddRecord(w) \/ AddRecordFails(w) \/ SyncLog(w) \/ SyncLogFails(w) \/ InsertInto(w)
    BY <2>3, LoggingLeader
  <2>4. CASE Publish(w)
    BY <2>4, PublishLeader
  <2>5. CASE Return(w) \/ AwaitFlush(w)
    BY <2>5, ReturnLeader DEF OrderInv
  <2> QED BY <2>1, <2>2, <2>3, <2>4, <2>5 DEF WriterStep
<1>5. CASE \E w \in Writers, op \in Ops : Write(w, op)
  BY <1>5, WriteLeader
<1> QED BY <1>1, <1>2, <1>3, <1>4, <1>5 DEF Next

----------------------------------------------------------------------------
(* The edits.                                                              *)

\* Steps that leave the versions alone, and begin no part of the background work.
LEMMA EditSame ==
    ASSUME EditInv, UNCHANGED <<has_imm_, imm_, logfile_number_, logNumber, tables, edit, manifest>>,
           phase' = phase \/ (phase = "open" /\ phase' = "closing"),
           Working \/ wal' = wal,
           bg'.pc = bg.pc \/ bg'.pc \in {"idle", "queued", "merge"}
    PROVE  EditInv'
<1>1. phase \in {"recovered", "applied"} => ~Working
  BY DEF Working
<1>2. /\ Working' => Working
      /\ phase' \in {"recovered", "applied"} => phase' = phase /\ wal' = wal
  BY <1>1 DEF Working
<1> QED BY <1>2 DEF EditInv, Contents, Content

\* Steps of a writer that do so
LEMMA WriterEdit ==
    ASSUME NEW w \in Writers, WriterStep(w), ~RoomSwitch(w)
    PROVE  /\ UNCHANGED <<has_imm_, imm_, logfile_number_, logNumber, tables, edit, manifest>>
           /\ phase' = phase /\ Working /\ bg' = bg
<1> USE DEF engineVars, memVars, verVars, flagVars, bgVars, manVars, InRoom, Leads, MustSwitch,
            Working
<1>1. CASE RoomError(w) \/ RoomSlowdown(w) \/ RoomReady(w) \/ RoomWait(w) \/ RoomSwitchFails(w)
  BY <1>1 DEF RoomError, RoomSlowdown, RoomReady, RoomWait, RoomSwitchFails
<1>2. CASE AddRecord(w) \/ AddRecordFails(w) \/ SyncLog(w) \/ SyncLogFails(w) \/ InsertInto(w)
  BY <1>2 DEF AddRecord, AddRecordFails, SyncLog, SyncLogFails, InsertInto
<1>3. CASE Publish(w) \/ Return(w) \/ AwaitFlush(w)
  BY <1>3 DEF Publish, Return, AwaitFlush
<1> QED BY <1>1, <1>2, <1>3 DEF WriterStep

\* The background thread makes an edit, appends it to the MANIFEST, and installs it.
LEMMA BackgroundEdit ==
    ASSUME FileNumbers, OrderInv, EditInv, BackgroundStep
    PROVE  EditInv'
<1> USE DEF memVars, verVars, flagVars, bgVars, manVars, walVars
<1>1. /\ phase' = phase /\ Working /\ bg \in Background /\ logfile_number_' = logfile_number_
      /\ manifest.log <= logfile_number_ /\ logNumber <= logfile_number_
      /\ logNumber <= manifest.log
  <2>1. phase' = phase /\ Working /\ logfile_number_' = logfile_number_
    BY DEF BackgroundStep, BackgroundNothing, StartFlush, FlushTableBuilt, ManifestWritten,
           FlushInstalled, StartMerge, OpenOutput, MergeDone, MergeInstalled, BackgroundFails, Running
  <2> QED BY <2>1 DEF OrderInv, EntriesInv, BoundsInv, EditInv, Working
<1>2. phase \notin {"recovered", "applied"} /\ Working'
  BY <1>1 DEF Working
<1>3. Apply(manifest, edit).log = edit.log
  BY DEF Apply
<1>4. CASE BackgroundNothing \/ OpenOutput
  <2>1. /\ UNCHANGED <<has_imm_, imm_, logfile_number_, logNumber, tables, edit, manifest>>
    BY <1>4 DEF BackgroundNothing, OpenOutput
  <2>2. bg'.pc \in {"idle", "queued", "merge"}
    <3>1. CASE BackgroundNothing
      BY <3>1 DEF BackgroundNothing, EndBackgroundCall
    <3>2. CASE OpenOutput
      BY <1>1, <3>2 DEF OpenOutput, Background
    <3> QED BY <1>4, <3>1, <3>2
  <2> QED BY <1>1, <2>1, <2>2, EditSame
<1>5. CASE StartFlush
  <2>1. /\ UNCHANGED <<has_imm_, imm_, logfile_number_, logNumber, tables, edit, manifest>>
        /\ has_imm_ /\ bg' = [bg EXCEPT !.pc = "table"]
    BY <1>5 DEF StartFlush
  <2>2. bg'.pc = "table"
    BY <1>1, <2>1 DEF Background
  <2> QED BY <1>1, <1>2, <2>1, <2>2 DEF EditInv
<1>6. CASE FlushTableBuilt
  <2>1. /\ UNCHANGED <<has_imm_, imm_, logfile_number_, logNumber, tables, manifest>>
        /\ bg.pc = "table" /\ bg' = [bg EXCEPT !.pc = "flushlog"]
        /\ \E d \in Nat : edit' = Edit(logfile_number_, lastSequence, nextFile, imm_, d, 0)
    BY <1>6 DEF FlushTableBuilt
  <2>2. edit'.log = logfile_number_ /\ edit'.added = imm_
    BY <2>1 DEF Edit
  <2>3. bg'.pc = "flushlog" /\ has_imm_
    BY <1>1, <2>1 DEF Background, EditInv
  <2> QED BY <1>1, <1>2, <2>1, <2>2, <2>3 DEF EditInv
<1>7. CASE StartMerge \/ MergeDone
  <2>1. /\ UNCHANGED <<has_imm_, imm_, logfile_number_, logNumber, tables, manifest>>
        /\ \/ bg'.pc = "merge" /\ edit' = edit
           \/ /\ bg'.pc = "mergelog"
              /\ \E k : edit' = Edit(logNumber, lastSequence, nextFile, {}, 0, k)
    <3>1. CASE StartMerge
      BY <3>1 DEF StartMerge
    <3>2. CASE MergeDone
      BY <1>1, <3>2 DEF MergeDone, Background
    <3> QED BY <1>7, <3>1, <3>2
  <2>2. CASE bg'.pc = "merge" /\ edit' = edit
    BY <1>1, <1>2, <2>1, <2>2 DEF EditInv
  <2>3. CASE bg'.pc = "mergelog" /\ \E k : edit' = Edit(logNumber, lastSequence, nextFile, {}, 0, k)
    <3>1. edit'.log = logNumber /\ edit'.added = {}
      BY <2>3 DEF Edit
    <3> QED BY <1>1, <1>2, <2>1, <2>3, <3>1 DEF EditInv
  <2> QED BY <2>1, <2>2, <2>3
<1>8. CASE ManifestWritten
  <2>1. /\ UNCHANGED <<has_imm_, imm_, logfile_number_, logNumber, tables, edit>>
        /\ bg.pc \in {"flushlog", "mergelog"} /\ manifest' = Apply(manifest, edit)
        /\ bg'.pc = IF bg.pc = "flushlog" THEN "flushinstall" ELSE "mergeinstall"
    BY <1>1, <1>8 DEF ManifestWritten, Background
  <2>2. manifest'.log = edit.log /\ logNumber <= edit.log
    BY <1>1, <1>3, <2>1 DEF EditInv, FileNumbers
  <2> QED BY <1>1, <1>2, <2>1, <2>2 DEF EditInv
<1>9. CASE FlushInstalled \/ MergeInstalled
  <2>1. /\ logNumber' = edit.log /\ edit' = edit /\ manifest' = manifest
        /\ edit.log = manifest.log /\ manifest.log \in Nat
    BY <1>9, InstallKeepsLog DEF FlushInstalled, MergeInstalled, InstallEdit
  <2>2. bg'.pc \in {"idle", "queued", "merge"}
    BY <1>1, <1>9 DEF FlushInstalled, MergeInstalled, EndBackgroundCall, Background
  <2> QED BY <1>1, <1>2, <2>1, <2>2 DEF EditInv
<1>10. CASE BackgroundFails
  <2>1. /\ UNCHANGED <<has_imm_, imm_, logfile_number_, logNumber, tables, edit>>
        /\ \/ manifest' = manifest
           \/ bg.pc \in {"flushlog", "mergelog"} /\ manifest' = Apply(manifest, edit)
    BY <1>10 DEF BackgroundFails
  <2>2. bg'.pc \in {"idle", "queued", "merge"}
    BY <1>1, <1>10 DEF BackgroundFails, EndBackgroundCall, Background
  <2>3. logNumber <= manifest'.log
    BY <1>1, <1>3, <2>1 DEF EditInv, FileNumbers
  <2> QED BY <1>1, <1>2, <2>1, <2>2, <2>3 DEF EditInv
<1> QED BY <1>4, <1>5, <1>6, <1>7, <1>8, <1>9, <1>10 DEF BackgroundStep

\* Recovery makes an edit of what the logs hold, for a log above all of them.
LEMMA OpenEdit ==
    ASSUME FileNumbers, OrderInv, EditInv, OpenStep
    PROVE  EditInv'
<1> USE DEF memVars, verVars, flagVars, bgVars, manVars, walVars
<1>1. bg \in Background /\ bg.pc = "idle" /\ ~Working
  <2>1. ~Working
    BY DEF OpenStep, OpenRecover, OpenCorrupt, OpenApply, OpenFinish, Working
  <2> QED BY <2>1 DEF OrderInv, EntriesInv
<1>2. CASE OpenRecover
  <2>1. /\ phase' = "recovered" /\ bg' = bg /\ wal' = wal /\ manifest' = manifest
        /\ tables' = manifest.tables
        /\ edit'.log = logfile_number_'
        /\ edit'.added = Contents({e \in wal : e.file \in LiveLogs(walFiles, manifest)})
    BY <1>2 DEF OpenRecover, Edit
  <2>2. \A e \in wal : e.file < logfile_number_'
    BY <1>2, RecoveredLog DEF OrderInv, EntriesInv
  <2>3. {e \in wal : e.file \in LiveLogs(walFiles, manifest)} = {e \in wal : e.file >= manifest.log}
    BY DEF LiveLogs, OrderInv, EntriesInv
  <2>4. edit'.added = Contents({e \in wal' : e.file >= manifest'.log})
    BY <2>1, <2>3
  <2> QED BY <1>1, <2>1, <2>2, <2>4 DEF EditInv, Working, Contents, Content
<1>3. CASE OpenCorrupt
  BY <1>1, <1>3 DEF OpenCorrupt, EditInv, Working
<1>4. CASE OpenApply
  <2>1. /\ phase = "recovered" /\ phase' = "applied" /\ bg' = bg /\ wal' = wal
        /\ UNCHANGED <<edit, tables>> /\ manifest' = Apply(manifest, edit)
    BY <1>4 DEF OpenApply
  <2>2. manifest'.log = edit.log /\ manifest'.tables = manifest.tables \cup edit.added
    BY <2>1 DEF Apply
  <2> QED BY <1>1, <2>1, <2>2 DEF EditInv, Working
<1>5. CASE OpenFinish
  <2>1. /\ phase = "applied" /\ phase' = "open" /\ UNCHANGED <<edit, manifest>>
        /\ logNumber' = edit.log /\ bg'.pc \in {"idle", "queued"}
    BY <1>1, <1>5 DEF OpenFinish, InstallEdit, MaybeScheduleCompaction, Background
  <2>2. edit.log = manifest.log /\ manifest.log \in Nat
    BY <2>1 DEF EditInv, FileNumbers
  <2> QED BY <2>1, <2>2 DEF EditInv, Working
<1> QED BY <1>2, <1>3, <1>4, <1>5 DEF OpenStep

LEMMA EditStep ==
    ASSUME FileNumbers, OrderInv, EditInv, [Next]_vars
    PROVE  EditInv'
<1>1. CASE \/ UNCHANGED vars
           \/ \E w \in Writers, op \in Ops : Write(w, op)
           \/ SuspendCompaction \/ ResumeCompaction \/ Close
  <2>1. /\ UNCHANGED <<has_imm_, imm_, logfile_number_, logNumber, tables, edit, manifest>>
        /\ phase' = phase \/ (phase = "open" /\ phase' = "closing")
        /\ wal' = wal /\ bg' = bg
    BY <1>1 DEF vars, engineVars, memVars, verVars, flagVars, bgVars, manVars, walVars, Write,
                SuspendCompaction, ResumeCompaction, Close
  <2> QED BY <2>1, EditSame
<1>2. CASE \E w \in Writers : WriterStep(w) /\ ~RoomSwitch(w)
  BY <1>2, WriterEdit, EditSame
<1>3. CASE \E w \in Writers : RoomSwitch(w)
  <2>1. /\ ~has_imm_ /\ has_imm_' = TRUE /\ phase' = phase /\ Working
        /\ UNCHANGED <<logNumber, edit, manifest>>
        /\ bg' = [bg EXCEPT !.pc = MaybeScheduleCompaction(TRUE, l0, bg_error_)]
    BY <1>3 DEF RoomSwitch, MustSwitch, InRoom, flagVars, manVars, Working
  <2>2. bg'.pc = bg.pc \/ bg'.pc = "queued"
    BY <2>1 DEF MaybeScheduleCompaction, OrderInv, EntriesInv, Background
  <2>3. bg.pc \notin {"table", "flushlog", "flushinstall"}
    BY <2>1 DEF EditInv
  <2> QED BY <2>1, <2>2, <2>3 DEF EditInv, Working
<1>4. CASE BackgroundStep
  BY <1>4, BackgroundEdit
<1>5. CASE Closed \/ ProcessCrash \/ MachineCrash
  <2>1. bg'.pc = "idle" /\ phase' = "closed"
    BY <1>5 DEF Closed, ProcessCrash, MachineCrash, Forget
  <2> QED BY <2>1 DEF EditInv, Working
<1>6. CASE OpenStep
  BY <1>6, OpenEdit
<1> QED BY <1>1, <1>2, <1>3, <1>4, <1>5, <1>6 DEF Next

----------------------------------------------------------------------------
(* Memory and files.                                                       *)

LEMMA MemorySame ==
    ASSUME MemoryInv, UNCHANGED <<mem_, imm_, tables, wal, manifest, logfile_number_>>,
           Working' => Working, Settled' \subseteq Settled, Done' \subseteq Done
    PROVE  MemoryInv'
<1>1. InMemory' = InMemory /\ OnDisk' = OnDisk
  BY DEF InMemory, OnDisk, Held, Contents, Content
<1> QED BY <1>1 DEF MemoryInv, OpsOf, Contents, Content

\* A signal settles nothing.
LEMMA SignalSettles ==
    ASSUME QueueInv, wr' = wr \/ wr' = SignalAll(wr)
    PROVE  Done' = Done
<1>1. \A w \in Writers : /\ wr'[w].op = wr[w].op /\ wr'[w].status = wr[w].status
                         /\ wr'[w].pc = "done" <=> wr[w].pc = "done"
  BY SignalHolders
<1> QED BY <1>1 DEF Done

\* What a call returns had been settled.
LEMMA AnswerSettles ==
    ASSUME QueueInv, HoldersInv, CallsInv, NEW w \in Writers, Return(w) \/ AwaitFlush(w)
    PROVE  Done' \subseteq Done /\ Settled' \subseteq Settled
<1>1. \A u \in Writers : u # w => wr'[u] = wr[u]
  BY AnswerMoves
<1>2. wr'[w].pc # "done" /\ acked' \subseteq Settled
  <2>1. CASE UNCHANGED <<result, acked, promised>> /\ wr'[w].pc \in {"flushwait", "flushblocked"}
    BY <2>1 DEF Settled
  <2>2. CASE \E r \in {"ok", "error"} :
               /\ wr'[w].pc = "idle"
               /\ r = "ok" => wr[w].op \in Done \cup NullOps
               /\ acked' = IF r = "ok" /\ wr[w].op \notin NullOps
                           THEN acked \cup {wr[w].op} ELSE acked
    BY <2>2 DEF Settled
  <2> QED BY <2>1, <2>2, AnswerMoves
<1>3. Done' \subseteq Done
  BY <1>1, <1>2 DEF Done
<1> QED BY <1>2, <1>3 DEF Settled

\* A batch whose call is in the queue has no answer.
LEMMA QueuedIsOpen ==
    ASSUME QueueInv, CallsInv, NEW i \in 1..Len(writers_)
    PROVE  wr[writers_[i]].op \in Ops /\ wr[writers_[i]].op \notin Settled
<1> DEFINE v == writers_[i]
<1>1. v \in Writers /\ writers_ \in Seq(Writers) /\ Len(writers_) \in Nat
  BY DEF QueueInv
<1>2. wr[v].pc \notin {"idle", "done"}
  <2>1. CASE i = 1
    <3>1. writers_ # <<>> /\ Head(writers_) = v
      BY <1>1, <2>1
    <3> QED BY <1>1, <3>1 DEF QueueInv, Leading
  <2>2. CASE i # 1
    <3>1. i \in 2..Len(writers_)
      BY <1>1, <2>2
    <3> QED BY <1>1, <3>1 DEF QueueInv
  <2> QED BY <2>1, <2>2
<1>3. wr[v].op \in Ops /\ result[wr[v].op] = "pending"
  BY <1>1, <1>2 DEF CallsInv
<1>4. wr[v].op \notin acked
  BY <1>3 DEF CallsInv
<1>5. wr[v].op \notin Done
  <2> SUFFICES ASSUME NEW u \in Writers, wr[u].pc = "done", wr[u].op = wr[v].op PROVE FALSE
    BY DEF Done
  <2>1. u = v
    BY <1>1, <1>3 DEF CallsInv
  <2> QED BY <1>2, <2>1
<1> QED BY <1>3, <1>4, <1>5 DEF Settled

\* The group is logged: new entries, none of them settled, in the current log.
LEMMA AddRecordMemory ==
    ASSUME QueueInv, FileNumbers, OrderInv, HoldersInv, LeaderInv, MemoryInv, NEW w \in Writers,
           AddRecord(w) \/ AddRecordFails(w)
    PROVE  MemoryInv'
<1>1. /\ UNCHANGED <<mem_, imm_, tables, manifest, logfile_number_, phase, acked>>
      /\ wal' \in {wal, wal \cup GroupRecord} /\ Working /\ wr[w].pc = "log"
  BY DEF AddRecord, AddRecordFails, Leads, memVars, verVars, flagVars, manVars, histVars, Working
<1>2. Done' \subseteq Done /\ Settled' \subseteq Settled
  <2>1. Done' \subseteq Done
    BY <1>1, SettledMoves DEF WriterStep, AddRecord, AddRecordFails, Return, AwaitFlush, Publish,
       Leads
  <2> QED BY <1>1, <2>1 DEF Settled
<1>3. Working' /\ InMemory' = InMemory /\ logfile_number_ \in Nat
  BY <1>1 DEF Working, InMemory, FileNumbers
<1>4. group \in 1..Len(writers_) /\ Len(writers_) \in Nat
  BY <1>1 DEF QueueInv
<1>5. \A x \in GroupEntries : \E i \in 1..group : x.op = wr[writers_[i]].op
  BY DEF GroupEntries
<1>6. \A x \in GroupEntries : x.op \notin Settled
  <2> SUFFICES ASSUME NEW x \in GroupEntries PROVE x.op \notin Settled
    OBVIOUS
  <2>1. PICK i \in 1..group : x.op = wr[writers_[i]].op
    BY <1>5
  <2>2. i \in 1..Len(writers_)
    BY <1>4
  <2> QED BY <2>1, <2>2, QueuedIsOpen DEF OrderInv
<1>7. \A e \in wal' : e \in wal \/ (e.file = logfile_number_ /\ Content(e) \in GroupEntries)
  BY <1>1, RecordIsGroup
<1>8. \A x \in Contents(wal') \cup manifest'.tables : x.op \in Settled' => x \in InMemory'
  <2> SUFFICES ASSUME NEW x \in Contents(wal') \cup manifest.tables, x.op \in Settled
               PROVE  x \in InMemory
    BY <1>1, <1>2, <1>3
  <2>1. x \in Contents(wal) \/ x \in GroupEntries \/ x \in manifest.tables
    BY <1>7 DEF Contents
  <2> QED BY <1>1, <1>6, <2>1 DEF MemoryInv
<1>9. wal \subseteq wal'
  BY <1>1
<1>10. mem_' \subseteq Contents({e \in wal' : e.file = logfile_number_'})
  BY <1>1, <1>9 DEF MemoryInv, Contents
<1>11. imm_' \subseteq OnDisk'
  BY <1>1, <1>9 DEF MemoryInv, OnDisk, Held, Contents
<1>12. \A e \in wal' : Content(e) \in mem_' => e.file >= logfile_number_'
  BY <1>1, <1>3, <1>7 DEF MemoryInv
<1>13. Done' \subseteq OpsOf(InMemory')
  BY <1>1, <1>2, <1>3 DEF MemoryInv
<1> QED BY <1>8, <1>10, <1>11, <1>12, <1>13 DEF MemoryInv, Contents, Content, OpsOf

\* The group is inserted: it is in the current log, and its numbers are too high for
\* an older one.
LEMMA InsertMemory ==
    ASSUME QueueInv, FileNumbers, OrderInv, HoldersInv, LeaderInv, MemoryInv, NEW w \in Writers,
           InsertInto(w)
    PROVE  MemoryInv'
<1>1. /\ UNCHANGED <<imm_, tables, wal, manifest, logfile_number_, phase, acked>>
      /\ mem_' = mem_ \cup GroupEntries /\ Working /\ wr[w].pc = "insert"
      /\ phase \notin {"closed", "corrupt"}
  BY DEF InsertInto, Leads, memVars, verVars, flagVars, manVars, walVars, histVars, Working
<1>2. Done' \subseteq Done /\ Settled' \subseteq Settled
  <2>1. Done' \subseteq Done
    BY <1>1, SettledMoves DEF WriterStep, InsertInto, Return, AwaitFlush, Publish, Leads
  <2> QED BY <1>1, <2>1 DEF Settled
<1>3. Working' /\ InMemory' = InMemory \cup GroupEntries /\ OnDisk' = OnDisk
  BY <1>1 DEF Working, InMemory, OnDisk, Held, Contents, Content
<1>4. GroupRecord \subseteq wal
  BY <1>1 DEF LeaderInv
<1>5. GroupEntries \subseteq Contents({e \in wal : e.file = logfile_number_})
  BY <1>4, RecordIsGroup DEF Contents
<1>6. \A e \in wal : Content(e) \in GroupEntries => e.file >= logfile_number_
  <2> SUFFICES ASSUME NEW e \in wal, Content(e) \in GroupEntries, ~(e.file >= logfile_number_)
               PROVE  FALSE
    OBVIOUS
  <2>1. /\ lastSequence \in Nat /\ group \in 1..Len(writers_)
        /\ e \in LogEntry /\ logfile_number_ \in Nat
    BY <1>1 DEF OrderInv, BoundsInv, QueueInv, EntriesInv, FileNumbers
  <2>2. lastSequence < Content(e).seq /\ Content(e).seq = e.seq
    BY <2>1, GroupNumbers DEF OrderInv, Content
  <2>3. e.seq \in Nat /\ e.file \in Nat
    BY <2>1 DEF LogEntry
  <2>4. e.seq <= lastSequence
    BY <1>1, <2>1, <2>3 DEF OrderInv, BoundsInv
  <2> QED BY <2>1, <2>2, <2>3, <2>4
<1> QED BY <1>1, <1>2, <1>3, <1>5, <1>6 DEF MemoryInv, OpsOf, Contents, Content

\* The group is published: what is settled now is in the memtable, and an entry of
\* the same batch is the same entry.
LEMMA PublishMemory ==
    ASSUME QueueInv, FileNumbers, OrderInv, HoldersInv, LeaderInv, MemoryInv, NEW w \in Writers,
           Publish(w)
    PROVE  MemoryInv'
<1>1. /\ UNCHANGED <<mem_, imm_, tables, wal, manifest, logfile_number_, phase, acked>>
      /\ Working /\ wr[w].pc = "publish"
  BY DEF Publish, Leads, memVars, walVars, manVars, histVars, Working
<1>2. CASE wr[w].status # "ok"
  <2>1. Done' \subseteq Done
    BY <1>1, <1>2, SettledMoves DEF WriterStep, Return, AwaitFlush
  <2>2. Settled' \subseteq Settled
    BY <1>1, <2>1 DEF Settled
  <2> QED BY <1>1, <2>1, <2>2, MemorySame DEF Working
<1>3. CASE wr[w].status = "ok"
  <2>1. Done' \subseteq Done \cup OpsOf(GroupEntries)
    BY <1>1, SettledMoves DEF WriterStep, Return, AwaitFlush
  <2>2. GroupEntries \subseteq mem_
    BY <1>1, <1>3 DEF LeaderInv
  <2>3. \A x, y \in Everything : x.op = y.op => x = y
    <3> SUFFICES ASSUME NEW x \in Everything, NEW y \in Everything, x.op = y.op PROVE x = y
      OBVIOUS
    <3>1. x \in Entry /\ y \in Entry
      BY DEF OrderInv, EntriesInv
    <3>2. x.seq = y.seq
      BY DEF OrderInv, DistinctInv
    <3> QED BY <3>1, <3>2 DEF Entry
  <2>4. mem_ \subseteq Everything /\ Contents(wal) \cup manifest.tables \subseteq Everything
    BY DEF Everything
  <2>5. InMemory' = InMemory /\ OnDisk' = OnDisk /\ Working' /\ mem_ \subseteq InMemory
    BY <1>1 DEF InMemory, OnDisk, Held, Contents, Content, Working
  <2>6. \A x \in Contents(wal) \cup manifest.tables : x.op \in Settled' => x \in InMemory
    <3> SUFFICES ASSUME NEW x \in Contents(wal) \cup manifest.tables, x.op \in Settled'
                 PROVE  x \in InMemory
      OBVIOUS
    <3>1. x.op \in Settled \/ x.op \in OpsOf(GroupEntries)
      BY <1>1, <2>1 DEF Settled
    <3>2. CASE x.op \in Settled
      BY <1>1, <3>2 DEF MemoryInv
    <3>3. CASE x.op \in OpsOf(GroupEntries)
      <4>1. PICK y \in GroupEntries : y.op = x.op
        BY <3>3 DEF OpsOf
      <4>2. y \in mem_
        BY <2>2, <4>1
      <4> QED BY <2>3, <2>4, <2>5, <4>1, <4>2
    <3> QED BY <3>1, <3>2, <3>3
  <2>7. Done' \subseteq OpsOf(InMemory)
    BY <1>1, <2>1, <2>2, <2>5 DEF MemoryInv, OpsOf
  <2> QED BY <1>1, <2>5, <2>6, <2>7 DEF MemoryInv, OpsOf, Contents, Content
<1> QED BY <1>2, <1>3

\* The memtable is switched: the old one is in a log that recovery would read.
LEMMA SwitchMemory ==
    ASSUME QueueInv, FileNumbers, OrderInv, HoldersInv, MemoryInv, NEW w \in Writers,
           RoomSwitch(w)
    PROVE  MemoryInv'
<1>1. /\ UNCHANGED <<tables, wal, manifest, phase, acked>> /\ Working /\ ~has_imm_
      /\ imm_' = mem_ /\ mem_' = {} /\ phase \notin {"closed", "corrupt"}
  BY DEF RoomSwitch, MustSwitch, InRoom, flagVars, manVars, histVars, Working
<1>2. Done' \subseteq Done /\ Settled' \subseteq Settled
  <2>1. Done' \subseteq Done
    <3>1. ~Publish(w) /\ ~Return(w) /\ ~AwaitFlush(w)
      BY DEF RoomSwitch, MustSwitch, InRoom, Publish, Return, AwaitFlush, Leads
    <3> QED BY <3>1, SettledMoves DEF WriterStep
  <2> QED BY <1>1, <2>1 DEF Settled
<1>3. /\ imm_ = {} /\ manifest.log <= logfile_number_
      /\ \A e \in wal : e.file \in Nat
      /\ manifest.log \in Nat /\ logfile_number_ \in Nat
  BY <1>1 DEF OrderInv, EntriesInv, BoundsInv, FileNumbers
<1>4. Working' /\ InMemory' = InMemory /\ OnDisk' = OnDisk
  BY <1>1, <1>3 DEF Working, InMemory, OnDisk, Held, Contents, Content
<1>5. mem_ \subseteq OnDisk
  <2>1. \A e \in wal : e.file = logfile_number_ => e.file >= manifest.log
    BY <1>3
  <2> QED BY <1>1, <2>1 DEF MemoryInv, OnDisk, Held, Contents
<1> QED BY <1>1, <1>2, <1>4, <1>5 DEF MemoryInv, Contents, Content

\* An edit in the MANIFEST adds only what is in memory, and lets go of no log that
\* holds what it did not add.
LEMMA ManifestMemory ==
    ASSUME FileNumbers, OrderInv, EditInv, MemoryInv, Working,
           bg.pc \in {"flushlog", "mergelog"}, manifest' = Apply(manifest, edit),
           UNCHANGED <<mem_, imm_, tables, wal, logfile_number_, phase, acked>>, Done' = Done
    PROVE  MemoryInv'
<1>1. manifest'.tables = manifest.tables \cup edit.added /\ manifest'.log = edit.log
  BY DEF Apply
<1>2. Working' /\ Settled' = Settled /\ InMemory' = InMemory
  BY DEF Working, Settled, InMemory
<1>3. edit.added \subseteq InMemory
  BY DEF EditInv, InMemory
<1>4. \A x \in Contents(wal) \cup manifest'.tables : x.op \in Settled' => x \in InMemory
  BY <1>1, <1>2, <1>3 DEF MemoryInv
<1>5. imm_ \subseteq manifest'.tables \cup Contents({e \in wal : e.file >= manifest'.log})
  <2>1. CASE bg.pc = "flushlog"
    BY <1>1, <2>1 DEF EditInv
  <2>2. CASE bg.pc = "mergelog"
    <3>1. /\ manifest'.log <= manifest.log
          /\ manifest.log \in Nat /\ manifest'.log \in Nat
      BY <1>1, <2>2 DEF EditInv, FileNumbers
    <3>2. \A e \in wal : e.file \in Nat
      BY DEF OrderInv, EntriesInv, FileNumbers
    <3>3. {e \in wal : e.file >= manifest.log} \subseteq {e \in wal : e.file >= manifest'.log}
      BY <3>1, <3>2
    <3> QED BY <1>1, <3>3 DEF MemoryInv, OnDisk, Held, Contents
  <2> QED BY <2>1, <2>2
<1>6. imm_ \subseteq OnDisk'
  BY <1>5 DEF OnDisk, Held, Contents, Content
<1> QED BY <1>2, <1>4, <1>6 DEF MemoryInv, Contents, Content, OpsOf

\* An edit is installed: what it added moves from the memtable to the tables, and the
\* logs that go are not those of the memtable.
LEMMA InstallMemory ==
    ASSUME QueueInv, FileNumbers, OrderInv, EditInv, MemoryInv, FlushInstalled \/ MergeInstalled
    PROVE  MemoryInv'
<1> USE DEF memVars, verVars, flagVars, bgVars, manVars, walVars, histVars
<1>1. /\ UNCHANGED <<mem_, manifest, logfile_number_, phase, acked>> /\ Working
      /\ tables' = tables \cup edit.added
      /\ wr' = wr \/ wr' = SignalAll(wr)
  <2>1. wr' = wr \/ wr' = SignalAll(wr)
    BY BackgroundSignals DEF BackgroundStep
  <2> QED BY <2>1 DEF FlushInstalled, MergeInstalled, InstallEdit, Running, Working
<1>2. Done' = Done /\ Settled' = Settled /\ Working'
  BY <1>1, SignalSettles DEF Settled, Working
<1>3. /\ manifest.log <= logfile_number_ /\ manifest.log \in Nat /\ logfile_number_ \in Nat
      /\ \/ wal' = wal
         \/ wal' = {e \in wal : e.file >= manifest.log}
  BY InstallKeepsLog DEF FileNumbers
<1>4. InMemory' = InMemory /\ imm_' \subseteq imm_
  <2>1. CASE FlushInstalled
    <3>1. edit.added = imm_ /\ imm_' = {}
      BY <2>1 DEF EditInv, FlushInstalled
    <3> QED BY <1>1, <3>1 DEF InMemory
  <2>2. CASE MergeInstalled
    <3>1. edit.added = {} /\ imm_' = imm_
      BY <2>2 DEF EditInv, MergeInstalled
    <3> QED BY <1>1, <3>1 DEF InMemory
  <2> QED BY <2>1, <2>2
<1>5. wal' \subseteq wal /\ {e \in wal' : e.file >= manifest.log} = {e \in wal : e.file >= manifest.log}
  BY <1>3
<1>6. OnDisk' = OnDisk
  BY <1>1, <1>5 DEF OnDisk, Held, Contents, Content
<1>7. \A e \in wal : e.file = logfile_number_ => e \in wal'
  BY <1>3
<1>8. mem_ \subseteq Contents({e \in wal' : e.file = logfile_number_})
  BY <1>1, <1>7 DEF MemoryInv, Contents
<1>9. \A x \in Contents(wal') \cup manifest.tables : x.op \in Settled => x \in InMemory
  BY <1>1, <1>5 DEF MemoryInv, Contents
<1>10. \A e \in wal' : Content(e) \in mem_ => e.file >= logfile_number_
  BY <1>1, <1>5 DEF MemoryInv
<1>11. imm_' \subseteq OnDisk
  BY <1>1, <1>4 DEF MemoryInv
<1>12. Done \subseteq OpsOf(InMemory)
  BY <1>1 DEF MemoryInv
<1> QED BY <1>1, <1>2, <1>4, <1>6, <1>8, <1>9, <1>10, <1>11, <1>12 DEF MemoryInv, Contents, Content, OpsOf

LEMMA BackgroundMemory ==
    ASSUME QueueInv, FileNumbers, OrderInv, EditInv, MemoryInv, BackgroundStep
    PROVE  MemoryInv'
<1> USE DEF memVars, verVars, flagVars, bgVars, manVars, walVars, histVars
<1>1. Done' = Done /\ acked' = acked /\ phase' = phase
  BY BackgroundSignals, SignalSettles
<1>2. Settled' = Settled /\ (Working' => Working)
  BY <1>1 DEF Settled, Working
<1>3. CASE \/ BackgroundNothing \/ StartFlush \/ FlushTableBuilt \/ StartMerge \/ OpenOutput
           \/ MergeDone
  <2>1. UNCHANGED <<mem_, imm_, tables, wal, manifest, logfile_number_>>
    BY <1>3 DEF BackgroundNothing, StartFlush, FlushTableBuilt, StartMerge, OpenOutput, MergeDone
  <2> QED BY <1>1, <1>2, <2>1, MemorySame
<1>4. CASE ManifestWritten
  <2>1. /\ UNCHANGED <<mem_, imm_, tables, wal, logfile_number_>> /\ Working
        /\ bg.pc \in {"flushlog", "mergelog"} /\ manifest' = Apply(manifest, edit)
    BY <1>4 DEF ManifestWritten
  <2> QED BY <1>1, <2>1, ManifestMemory
<1>5. CASE FlushInstalled \/ MergeInstalled
  BY <1>5, InstallMemory
<1>6. CASE BackgroundFails
  <2>1. /\ UNCHANGED <<mem_, imm_, tables, wal, logfile_number_>> /\ Working
        /\ \/ manifest' = manifest
           \/ bg.pc \in {"flushlog", "mergelog"} /\ manifest' = Apply(manifest, edit)
    BY <1>6 DEF BackgroundFails, Running
  <2>2. CASE manifest' = manifest
    BY <1>1, <1>2, <2>1, <2>2, MemorySame
  <2>3. CASE bg.pc \in {"flushlog", "mergelog"} /\ manifest' = Apply(manifest, edit)
    BY <1>1, <2>1, <2>3, ManifestMemory
  <2> QED BY <2>1, <2>2, <2>3
<1> QED BY <1>3, <1>4, <1>5, <1>6 DEF BackgroundStep

\* Recovery ends with everything in the tables.
LEMMA OpenMemory ==
    ASSUME OrderInv, FileNumbers, HoldersInv, EditInv, OpenFinish
    PROVE  MemoryInv'
<1> USE DEF memVars, manVars, histVars, queueVars
<1>1. /\ UNCHANGED <<mem_, imm_, logfile_number_, manifest, wr>> /\ phase = "applied"
      /\ tables' = tables \cup edit.added
      /\ wal' = {e \in wal : e.file >= edit.log}
  BY DEF OpenFinish, InstallEdit, DeleteObsoleteLogs
<1>2. mem_ = {} /\ imm_ = {}
  BY <1>1 DEF OrderInv, EntriesInv, Working
<1>3. manifest.tables = tables'
  BY <1>1 DEF EditInv
<1>4. wal' = {}
  <2>1. edit.log \in Nat /\ \A e \in wal : e.file \in Nat /\ e.file < edit.log
    BY <1>1 DEF EditInv, OrderInv, EntriesInv, FileNumbers
  <2>2. \A e \in wal : ~(e.file >= edit.log)
    BY <2>1
  <2> QED BY <1>1, <2>2
<1>5. Done' = {}
  BY <1>1 DEF HoldersInv, Done
<1>6. Contents(wal') = {}
  BY <1>4 DEF Contents
<1>7. tables' \subseteq InMemory'
  BY DEF InMemory
<1> QED BY <1>1, <1>2, <1>3, <1>4, <1>5, <1>6, <1>7 DEF MemoryInv, Contents

LEMMA MemoryStep ==
    ASSUME QueueInv, FileNumbers, OrderInv, HoldersInv, LeaderInv, EditInv, MemoryInv, [Next]_vars
    PROVE  MemoryInv'
<1> USE DEF memVars, verVars, flagVars, bgVars, manVars, walVars, histVars, engineVars
<1>1. CASE UNCHANGED vars \/ SuspendCompaction \/ ResumeCompaction \/ Close
  <2>1. UNCHANGED <<mem_, imm_, tables, wal, manifest, logfile_number_, acked>> /\ wr' = wr
    BY <1>1 DEF vars, queueVars, SuspendCompaction, ResumeCompaction, Close
  <2>2. Working' => Working
    BY <1>1 DEF vars, SuspendCompaction, ResumeCompaction, Close, Working
  <2>3. Done' = Done /\ Settled' = Settled
    BY <2>1 DEF Done, Settled
  <2> QED BY <2>1, <2>2, <2>3, MemorySame
<1>2. CASE \E w \in Writers, op \in Ops : Write(w, op)
  <2>1. PICK w \in Writers, op \in Ops : Write(w, op)
    BY <1>2
  <2>2. UNCHANGED <<mem_, imm_, tables, wal, manifest, logfile_number_, acked>> /\ phase' = phase
    BY <2>1 DEF Write
  <2>3. wr \in [Writers -> Writer]
    BY DEF QueueInv
  <2>4. /\ \A u \in Writers : u # w => wr'[u] = wr[u]
        /\ wr'[w].pc # "done"
    BY <2>1, <2>3 DEF Write
  <2>5. Done' \subseteq Done
    BY <2>4 DEF Done
  <2>6. Settled' \subseteq Settled /\ (Working' => Working)
    BY <2>2, <2>5 DEF Settled, Working
  <2> QED BY <2>2, <2>5, <2>6, MemorySame
<1>3. ASSUME NEW w \in Writers, WriterStep(w)
      PROVE  MemoryInv'
  <2>1. CASE \/ RoomError(w) \/ RoomSlowdown(w) \/ RoomReady(w) \/ RoomWait(w)
             \/ RoomSwitchFails(w) \/ SyncLog(w) \/ SyncLogFails(w)
    <3>1. /\ UNCHANGED <<mem_, imm_, tables, wal, manifest, logfile_number_, acked>>
          /\ phase' = phase /\ wr[w].pc \in {"room", "sync"}
      BY <2>1 DEF RoomError, RoomSlowdown, RoomReady, RoomWait, RoomSwitchFails, SyncLog,
         SyncLogFails, MustSwitch, InRoom, Leads
    <3>2. ~Publish(w) /\ ~Return(w) /\ ~AwaitFlush(w)
      BY <3>1 DEF Publish, Return, AwaitFlush, Leads
    <3>3. Done' \subseteq Done
      BY <1>3, <3>2, SettledMoves
    <3>4. Settled' \subseteq Settled /\ (Working' => Working)
      BY <3>1, <3>3 DEF Settled, Working
    <3> QED BY <3>1, <3>3, <3>4, MemorySame
  <2>2. CASE Return(w) \/ AwaitFlush(w)
    <3>1. UNCHANGED <<mem_, imm_, tables, wal, manifest, logfile_number_, phase>>
      BY <2>2 DEF Return, AwaitFlush
    <3>2. Done' \subseteq Done /\ Settled' \subseteq Settled
      BY <2>2, AnswerSettles DEF OrderInv
    <3> QED BY <3>1, <3>2, MemorySame DEF Working
  <2>3. CASE AddRecord(w) \/ AddRecordFails(w)
    BY <2>3, AddRecordMemory
  <2>4. CASE InsertInto(w)
    BY <2>4, InsertMemory
  <2>5. CASE Publish(w)
    BY <2>5, PublishMemory
  <2>6. CASE RoomSwitch(w)
    BY <2>6, SwitchMemory
  <2> QED BY <1>3, <2>1, <2>2, <2>3, <2>4, <2>5, <2>6 DEF WriterStep
<1>4. CASE BackgroundStep
  BY <1>4, BackgroundMemory
<1>5. CASE \/ Closed \/ ProcessCrash \/ MachineCrash
           \/ OpenRecover \/ OpenCorrupt \/ OpenApply
  <2>1. ~Working'
    BY <1>5 DEF Closed, ProcessCrash, MachineCrash, OpenRecover, OpenCorrupt, OpenApply, Working
  <2> QED BY <2>1 DEF MemoryInv
<1>6. CASE OpenFinish
  BY <1>6, OpenMemory
<1> QED BY <1>1, <1>2, <1>3, <1>4, <1>5, <1>6 DEF Next, OpenStep

----------------------------------------------------------------------------
(* What a crash leaves.                                                    *)

\* Steps that only add to the logs
LEMMA LastSame ==
    ASSUME LastInv, manifest' = manifest, wal \subseteq wal', durable \subseteq durable',
           durable' \subseteq wal', Settled' \subseteq Settled
    PROVE  LastInv'
<1>1. Lasting \subseteq Lasting'
  BY DEF Lasting
<1>2. Kept \subseteq Kept'
  BY <1>1 DEF Kept, Contents, Content
<1>3. OpsOf(Kept) \subseteq OpsOf(Kept')
  BY <1>2 DEF OpsOf
<1>4. Settled' \cap Safe \subseteq OpsOf(Kept')
  BY <1>3 DEF LastInv
<1> QED BY <1>4 DEF LastInv, Safe, OpsOf

\* Logs go that recovery would not read.
LEMMA LastDelete ==
    ASSUME LastInv, manifest' = manifest, Settled' \subseteq Settled,
           \/ UNCHANGED <<wal, durable>>
           \/ /\ wal' = {e \in wal : e.file >= manifest.log}
              /\ durable' = {e \in durable : e.file >= manifest.log}
    PROVE  LastInv'
<1>1. durable' \subseteq wal'
  BY DEF LastInv
<1>2. {e \in Lasting' : e.file >= manifest.log} = {e \in Lasting : e.file >= manifest.log}
  BY DEF Lasting
<1>3. Kept' = Kept
  BY <1>2 DEF Kept, Contents, Content
<1> QED BY <1>1, <1>3 DEF LastInv, Safe, OpsOf

\* What Publish() settles is logged, and synced if the write asked for it.
LEMMA PublishLast ==
    ASSUME QueueInv, FileNumbers, OrderInv, HoldersInv, LeaderInv, LastInv, NEW w \in Writers,
           Publish(w)
    PROVE  LastInv'
<1>1. /\ UNCHANGED <<wal, durable, manifest, acked>> /\ wr[w].pc = "publish"
      /\ phase \notin {"closed", "corrupt"}
      /\ ~Return(w) /\ ~AwaitFlush(w) /\ WriterStep(w)
  BY DEF Publish, Leads, walVars, manVars, histVars, Return, AwaitFlush, WriterStep
<1>2. CASE wr[w].status # "ok"
  <2>1. Done' \subseteq Done
    BY <1>1, <1>2, SettledMoves
  <2>2. Settled' \subseteq Settled
    BY <1>1, <2>1 DEF Settled
  <2> QED BY <1>1, <2>2, LastSame DEF LastInv
<1>3. CASE wr[w].status = "ok"
  <2>1. Settled' \subseteq Settled \cup OpsOf(GroupEntries)
    <3>1. Done' \subseteq Done \cup OpsOf(GroupEntries)
      BY <1>1, SettledMoves
    <3> QED BY <1>1, <3>1 DEF Settled
  <2>2. \A e \in GroupRecord : e.file >= manifest.log
    <3>1. manifest.log <= logfile_number_ /\ manifest.log \in Nat /\ logfile_number_ \in Nat
      BY <1>1 DEF OrderInv, BoundsInv, FileNumbers
    <3> QED BY <3>1, RecordIsGroup
  <2>3. ASSUME NEW o \in OpsOf(GroupEntries) \cap Safe
        PROVE  o \in OpsOf(Kept)
    <3>1. PICK x \in GroupEntries : x.op = o
      BY <2>3 DEF OpsOf
    <3>2. PICK i \in 1..group : x.op = wr[writers_[i]].op
      BY DEF GroupEntries
    <3>3. GroupRecord \subseteq Lasting
      <4>1. CASE MachineCrashes
        <5>1. wr[writers_[i]].op \in SyncOps
          BY <3>1, <3>2, <4>1 DEF Safe
        <5>2. wr[w].op \in SyncOps
          BY <1>1, <5>1 DEF LeaderInv
        <5> QED BY <1>1, <1>3, <4>1, <5>2 DEF LeaderInv, Lasting
      <4>2. CASE ~MachineCrashes
        BY <1>1, <1>3, <4>2 DEF LeaderInv, Lasting
      <4> QED BY <4>1, <4>2
    <3>4. PICK e \in GroupRecord : Content(e) = x
      BY RecordIsGroup
    <3>5. e \in Lasting /\ e.file >= manifest.log
      BY <2>2, <3>3
    <3>6. x \in Kept
      BY <3>4, <3>5 DEF Kept, Contents
    <3> QED BY <3>1, <3>6 DEF OpsOf
  <2>4. Kept' = Kept
    BY <1>1 DEF Kept, Lasting, Contents, Content
  <2>5. Settled' \cap Safe \subseteq OpsOf(Kept)
    BY <2>1, <2>3 DEF LastInv
  <2> QED BY <1>1, <2>4, <2>5 DEF LastInv, Safe, OpsOf
<1> QED BY <1>2, <1>3

\* What is settled, and only in the logs that an edit lets go of, is in the edit.
LEMMA ManifestLast ==
    ASSUME FileNumbers, OrderInv, EditInv, MemoryInv, LastInv, Working,
           bg.pc \in {"flushlog", "mergelog"}, manifest' = Apply(manifest, edit),
           UNCHANGED <<wal, durable>>, Settled' = Settled
    PROVE  LastInv'
<1>1. manifest'.tables = manifest.tables \cup edit.added /\ manifest'.log = edit.log
  BY DEF Apply
<1>2. /\ \A e \in wal : e.file \in Nat
      /\ manifest.log \in Nat /\ edit.log \in Nat /\ logNumber \in Nat
  BY DEF OrderInv, EntriesInv, FileNumbers
<1>3. Lasting' = Lasting /\ Lasting \subseteq wal
  BY DEF Lasting, LastInv
<1>4. ASSUME NEW o \in Settled \cap Safe
      PROVE  o \in OpsOf(Kept')
  <2>1. PICK x \in Kept : x.op = o
    BY DEF LastInv, OpsOf
  <2>2. CASE x \in manifest.tables
    BY <1>1, <2>1, <2>2 DEF Kept, OpsOf
  <2>3. CASE x \notin manifest.tables
    <3>1. PICK e \in Lasting : e.file >= manifest.log /\ Content(e) = x
      BY <2>3 DEF Kept, Contents
    <3>2. CASE e.file >= edit.log
      <4>1. x \in Contents({d \in Lasting' : d.file >= manifest'.log})
        BY <1>1, <1>3, <3>1, <3>2 DEF Contents
      <4>2. Content(e)' = Content(e)
        BY DEF Content
      <4>3. x \in Kept'
        BY <4>1 DEF Kept, Contents, Content
      <4> QED BY <2>1, <4>3 DEF OpsOf
    <3>3. CASE ~(e.file >= edit.log)
      <4>1. bg.pc = "flushlog" /\ edit.log = logfile_number_ /\ edit.added = imm_
        <5>1. bg.pc # "mergelog"
          BY <1>2, <1>3, <3>1, <3>3 DEF EditInv
        <5> QED BY <5>1 DEF EditInv
      <4>2. x \in Contents(wal)
        BY <1>3, <3>1 DEF Contents
      <4>3. x \in InMemory
        BY <2>1, <4>2 DEF MemoryInv
      <4>4. x \notin mem_
        BY <1>3, <3>1, <3>3, <4>1 DEF MemoryInv
      <4>5. tables \subseteq manifest.tables
        BY DEF OrderInv, EntriesInv
      <4>6. x \in manifest'.tables
        BY <1>1, <4>1, <4>3, <4>4, <4>5 DEF InMemory
      <4> QED BY <2>1, <4>6 DEF Kept, OpsOf
    <3> QED BY <3>2, <3>3
  <2> QED BY <2>2, <2>3
<1> QED BY <1>4 DEF LastInv, Safe

\* The edit of recovery holds all that it read.
LEMMA OpenLast ==
    ASSUME EditInv, LastInv, OpenApply
    PROVE  LastInv'
<1>1. /\ UNCHANGED <<wal, durable, wr, acked>> /\ phase = "recovered"
      /\ manifest' = Apply(manifest, edit)
  BY DEF OpenApply, walVars, queueVars, histVars
<1>2. manifest'.tables = manifest.tables \cup edit.added
  BY <1>1 DEF Apply
<1>3. edit.added = Contents({e \in wal : e.file >= manifest.log})
  BY <1>1 DEF EditInv
<1>4. Kept \subseteq manifest'.tables
  BY <1>2, <1>3 DEF Kept, Lasting, LastInv, Contents
<1>5. Kept \subseteq Kept'
  BY <1>4 DEF Kept
<1>6. OpsOf(Kept) \subseteq OpsOf(Kept')
  BY <1>5 DEF OpsOf
<1>7. Settled' = Settled
  BY <1>1 DEF Settled, Done
<1>8. Settled' \cap Safe \subseteq OpsOf(Kept')
  BY <1>6, <1>7 DEF LastInv
<1> QED BY <1>1, <1>8 DEF LastInv, Safe, OpsOf

LEMMA BackgroundLast ==
    ASSUME QueueInv, FileNumbers, OrderInv, EditInv, MemoryInv, LastInv, BackgroundStep
    PROVE  LastInv'
<1> USE DEF memVars, verVars, flagVars, bgVars, manVars, walVars, histVars
<1>1. Done' = Done /\ acked' = acked
  BY BackgroundSignals, SignalSettles
<1>2. Settled' = Settled
  BY <1>1 DEF Settled
<1>3. CASE \/ BackgroundNothing \/ StartFlush \/ FlushTableBuilt \/ StartMerge \/ OpenOutput
           \/ MergeDone
  <2>1. UNCHANGED <<wal, durable, manifest>>
    BY <1>3 DEF BackgroundNothing, StartFlush, FlushTableBuilt, StartMerge, OpenOutput, MergeDone
  <2> QED BY <1>2, <2>1, LastSame DEF LastInv
<1>4. CASE ManifestWritten
  <2>1. /\ UNCHANGED <<wal, durable>> /\ Working
        /\ bg.pc \in {"flushlog", "mergelog"} /\ manifest' = Apply(manifest, edit)
    BY <1>4 DEF ManifestWritten
  <2> QED BY <1>2, <2>1, ManifestLast
<1>5. CASE FlushInstalled \/ MergeInstalled
  <2>1. manifest' = manifest
    BY <1>5 DEF FlushInstalled, MergeInstalled
  <2> QED BY <1>2, <1>5, <2>1, InstallKeepsLog, LastDelete
<1>6. CASE BackgroundFails
  <2>1. /\ UNCHANGED <<wal, durable>> /\ Working
        /\ \/ manifest' = manifest
           \/ bg.pc \in {"flushlog", "mergelog"} /\ manifest' = Apply(manifest, edit)
    BY <1>6 DEF BackgroundFails, Running
  <2>2. CASE manifest' = manifest
    BY <1>2, <2>1, <2>2, LastSame DEF LastInv
  <2>3. CASE bg.pc \in {"flushlog", "mergelog"} /\ manifest' = Apply(manifest, edit)
    BY <1>2, <2>1, <2>3, ManifestLast
  <2> QED BY <2>1, <2>2, <2>3
<1> QED BY <1>3, <1>4, <1>5, <1>6 DEF BackgroundStep

LEMMA LastStep ==
    ASSUME QueueInv, FileNumbers, OrderInv, HoldersInv, LeaderInv, EditInv, MemoryInv, LastInv,
           [Next]_vars
    PROVE  LastInv'
<1> USE DEF memVars, verVars, flagVars, bgVars, manVars, walVars, histVars, engineVars, queueVars
<1>1. CASE \/ UNCHANGED vars \/ SuspendCompaction \/ ResumeCompaction \/ Close
           \/ OpenRecover \/ OpenCorrupt
  <2>1. UNCHANGED <<wal, durable, manifest, acked, wr>>
    BY <1>1 DEF vars, SuspendCompaction, ResumeCompaction, Close, OpenRecover, OpenCorrupt
  <2>2. Settled' = Settled
    BY <2>1 DEF Settled, Done
  <2> QED BY <2>1, <2>2, LastSame DEF LastInv
<1>2. CASE \E w \in Writers, op \in Ops : Write(w, op)
  <2>1. PICK w \in Writers, op \in Ops : Write(w, op)
    BY <1>2
  <2>2. UNCHANGED <<wal, durable, manifest, acked>>
    BY <2>1 DEF Write
  <2>3. wr \in [Writers -> Writer]
    BY DEF QueueInv
  <2>4. /\ \A u \in Writers : u # w => wr'[u] = wr[u]
        /\ wr'[w].pc # "done"
    BY <2>1, <2>3 DEF Write
  <2>5. Done' \subseteq Done
    BY <2>4 DEF Done
  <2>6. Settled' \subseteq Settled
    BY <2>2, <2>5 DEF Settled
  <2> QED BY <2>2, <2>6, LastSame DEF LastInv
<1>3. ASSUME NEW w \in Writers, WriterStep(w)
      PROVE  LastInv'
  <2>1. CASE Return(w) \/ AwaitFlush(w)
    <3>1. UNCHANGED <<wal, durable, manifest>>
      BY <2>1 DEF Return, AwaitFlush
    <3>2. Settled' \subseteq Settled
      BY <2>1, AnswerSettles DEF OrderInv
    <3> QED BY <3>1, <3>2, LastSame DEF LastInv
  <2>2. CASE Publish(w)
    BY <2>2, PublishLast
  <2>3. CASE ~Return(w) /\ ~AwaitFlush(w) /\ ~Publish(w)
    <3>1. /\ UNCHANGED <<manifest, acked>> /\ wal \subseteq wal' /\ durable \subseteq durable'
          /\ durable' \subseteq durable \cup wal
      <4>1. CASE \/ RoomError(w) \/ RoomSlowdown(w) \/ RoomReady(w) \/ RoomWait(w)
                 \/ RoomSwitch(w) \/ RoomSwitchFails(w)
        BY <4>1 DEF RoomError, RoomSlowdown, RoomReady, RoomWait, RoomSwitch, RoomSwitchFails
      <4>2. CASE AddRecord(w) \/ AddRecordFails(w) \/ SyncLog(w) \/ SyncLogFails(w) \/ InsertInto(w)
        BY <4>2 DEF AddRecord, AddRecordFails, SyncLog, SyncLogFails, InsertInto
      <4> QED BY <1>3, <2>3, <4>1, <4>2 DEF WriterStep
    <3>2. Done' \subseteq Done
      BY <1>3, <2>3, SettledMoves
    <3>3. Settled' \subseteq Settled /\ durable' \subseteq wal'
      BY <3>1, <3>2 DEF Settled, LastInv
    <3> QED BY <3>1, <3>3, LastSame
  <2> QED BY <2>1, <2>2, <2>3
<1>4. CASE BackgroundStep
  BY <1>4, BackgroundLast
<1>5. CASE Closed \/ ProcessCrash \/ MachineCrash
  <2>1. UNCHANGED <<durable, manifest, acked>>
    BY <1>5 DEF Closed, ProcessCrash, MachineCrash
  <2>2. /\ wal' = wal \/ MachineCrashes
        /\ durable \subseteq wal'
    <3>1. CASE Closed \/ ProcessCrash
      BY <3>1 DEF Closed, ProcessCrash, LastInv
    <3>2. CASE MachineCrash
      <4>1. PICK cut : wal' = {e \in wal : e.first < cut[e.file] \/ e \in durable}
        BY <3>2 DEF MachineCrash
      <4> QED BY <3>2, <4>1 DEF MachineCrash, LastInv
    <3> QED BY <1>5, <3>1, <3>2
  <2>3. \A u \in Writers : wr'[u].pc = "idle"
    BY <1>5 DEF Closed, ProcessCrash, MachineCrash, Forget
  <2>4. Done' = {}
    BY <2>3 DEF Done
  <2>5. Settled' \subseteq Settled
    BY <2>1, <2>4 DEF Settled
  <2>6. Lasting' = Lasting
    BY <2>1, <2>2 DEF Lasting
  <2>7. Kept' = Kept
    BY <2>1, <2>6 DEF Kept, Contents, Content
  <2> QED BY <2>1, <2>2, <2>5, <2>7 DEF LastInv, Safe, OpsOf
<1>6. CASE OpenApply
  BY <1>6, OpenLast
<1>7. CASE OpenFinish
  <2>1. UNCHANGED <<manifest, acked, wr>> /\ DeleteObsoleteLogs(edit.log) /\ phase = "applied"
    BY <1>7 DEF OpenFinish
  <2>2. Settled' = Settled
    BY <2>1 DEF Settled, Done
  <2>3. /\ wal' = {e \in wal : e.file >= manifest.log}
        /\ durable' = {e \in durable : e.file >= manifest.log}
    BY <2>1 DEF DeleteObsoleteLogs, EditInv
  <2> QED BY <2>1, <2>2, <2>3, LastDelete
<1> QED BY <1>1, <1>2, <1>3, <1>4, <1>5, <1>6, <1>7 DEF Next, OpenStep

----------------------------------------------------------------------------
(* The theorems.                                                           *)

LEMMA StoreInit == Init => StoreInv
<1> SUFFICES ASSUME Init PROVE StoreInv
  OBVIOUS
<1>1. Done = {} /\ Contents(wal) = {}
  BY DEF Init, Done, Contents
<1>2. HoldersInv
  BY DEF Init, HoldersInv
<1>3. NullInv /\ LeaderInv
  BY <1>1 DEF Init, NullInv, LeaderInv, EmptyManifest, Edit
<1>4. EditInv
  BY DEF Init, EditInv, Working
<1>5. MemoryInv /\ LastInv
  BY <1>1 DEF Init, MemoryInv, LastInv, Working, Settled
<1> QED BY <1>2, <1>3, <1>4, <1>5 DEF StoreInv

LEMMA StoreStep ==
    ASSUME QueueInv, FileNumbers, OrderInv, StoreInv, [Next]_vars
    PROVE  StoreInv'
<1>1. CallsInv /\ HoldersInv /\ NullInv /\ LeaderInv /\ MemoryInv /\ EditInv /\ LastInv
  BY DEF OrderInv, StoreInv
<1>2. HoldersInv'
  BY <1>1, HoldersStep
<1>3. NullInv'
  BY <1>1, NullStep
<1>4. LeaderInv'
  BY <1>1, GroupLeaderStep
<1>5. EditInv'
  BY <1>1, EditStep
<1>6. MemoryInv'
  BY <1>1, MemoryStep
<1>7. LastInv'
  BY <1>1, LastStep
<1> QED BY <1>2, <1>3, <1>4, <1>5, <1>6, <1>7 DEF StoreInv

\* What was settled and is on disk is in memory, what is in memory is logged, what a
\* crash must not lose is where it cannot.
THEOREM StoreInvariant == Spec => []StoreInv
<1>1. QueueInv /\ FileNumbers /\ OrderInv /\ StoreInv /\ [Next]_vars => StoreInv'
  BY StoreStep
<1> QED BY <1>1, StoreInit, QueueInvariant, FileNumbersInvariant, OrderInvariant, PTL DEF Spec

\* An entry of a settled batch is where readers look, at a number that they use.
LEMMA SettledIsRead ==
    ASSUME QueueInv, OrderInv, StoreInv, Working
    PROVE  \A x \in Contents(wal) \cup manifest.tables \cup InMemory :
             x.op \in Settled => x \in InMemory /\ x.seq <= lastSequence
<1> SUFFICES ASSUME NEW x \in Contents(wal) \cup manifest.tables \cup InMemory, x.op \in Settled
             PROVE  x \in InMemory /\ x.seq <= lastSequence
  OBVIOUS
<1>1. x \in InMemory
  BY DEF StoreInv, MemoryInv
<1>2. x \in Everything
  BY <1>1 DEF InMemory, Everything, OrderInv, EntriesInv
<1>3. x \notin Flight
  <2> SUFFICES ASSUME x \in Flight PROVE FALSE
    OBVIOUS
  <2>1. Logging /\ x \in GroupEntries
    BY DEF Flight
  <2>2. PICK i \in 1..group : x.op = wr[writers_[i]].op
    BY <2>1 DEF GroupEntries
  <2>3. group \in 1..Len(writers_) /\ Len(writers_) \in Nat
    <3>1. Head(writers_) \in Writers
      BY <2>1 DEF Logging, QueueInv
    <3> QED BY <2>1, <3>1 DEF Logging, QueueInv
  <2>4. i \in 1..Len(writers_)
    BY <2>3
  <2> QED BY <2>2, <2>4, QueuedIsOpen DEF OrderInv
<1> QED BY <1>1, <1>2, <1>3 DEF OrderInv, BoundsInv, Working

\* While the DB is open, a read finds every acknowledged write that is on disk, at a
\* number that readers use: no switch of memtables, no flush, no file error hides one.
THEOREM AckedWritesReadable == Spec => []AckedReadable
<1>1. QueueInv /\ OrderInv /\ StoreInv => AckedReadable
  <2> SUFFICES ASSUME QueueInv, OrderInv, StoreInv, phase = "open", NEW o \in acked,
                      o \in OpsOf(OnDisk)
               PROVE  o \in OpsOf({e \in InMemory : e.seq <= lastSequence})
    BY DEF AckedReadable
  <2>1. PICK x \in OnDisk : x.op = o
    BY DEF OpsOf
  <2>2. x \in Contents(wal) \cup manifest.tables /\ x.op \in Settled /\ Working
    BY <2>1 DEF OnDisk, Held, Contents, Settled, Working
  <2>3. x \in InMemory /\ x.seq <= lastSequence
    BY <2>2, SettledIsRead
  <2> QED BY <2>1, <2>3 DEF OpsOf
<1> QED BY <1>1, QueueInvariant, OrderInvariant, StoreInvariant, PTL

LEMMA SafeOnDisk ==
    ASSUME LastInv
    PROVE  Settled \cap Safe \subseteq OpsOf(OnDisk)
<1>1. Kept \subseteq OnDisk
  BY DEF LastInv, Kept, Lasting, OnDisk, Held, Contents
<1> QED BY <1>1 DEF LastInv, OpsOf

\* A file is torn in the middle only after a failed operation, and no such file is
\* opened.
TornInv ==
    /\ phase \in {"closed", "corrupt", "recovered", "applied", "open", "closing"}
    /\ faults \in Nat /\ faults <= MaxFaults
    /\ faults = 0 => torn = {} /\ manifestTorn = "no"
    /\ phase \in {"recovered", "applied"} => ~Corrupt

LEMMA TornByFault ==
    ASSUME TornInv
    PROVE  Corrupt => faults > 0 /\ MaxFaults > 0
<1>1. Corrupt => torn # {} \/ manifestTorn # "no"
  BY DEF Corrupt
<1>2. \A n, m \in Nat : n # 0 /\ n <= m => n > 0 /\ m > 0
  OBVIOUS
<1> QED BY <1>1, <1>2, DBImplAssumption DEF TornInv

\* What is not added to the files does not tear them.
LEMMA StaysWhole ==
    ASSUME wal' \subseteq wal, torn' \subseteq torn, UNCHANGED manVars
    PROVE  Corrupt' => Corrupt
BY DEF Corrupt, Buries, manVars

LEMMA TornStep ==
    ASSUME FileNumbers, OrderInv, EditInv, TornInv, [Next]_vars
    PROVE  TornInv'
<1> USE DEF queueVars, memVars, verVars, flagVars, bgVars, walVars, manVars, engineVars,
            histVars, budgets
<1>8. /\ phase' \in {"closed", "corrupt", "recovered", "applied", "open", "closing"}
      /\ phase' \in {"recovered", "applied"} => OpenRecover \/ OpenApply \/ UNCHANGED vars
  <2>1. ASSUME NEW w \in Writers, WriterStep(w)
        PROVE  phase' = phase /\ phase = "open"
    BY <2>1 DEF WriterStep, RoomError, RoomSlowdown, RoomReady, RoomWait, RoomSwitch,
       RoomSwitchFails, MustSwitch, InRoom, AddRecord, AddRecordFails, SyncLog, SyncLogFails,
       InsertInto, Publish, Return, AwaitFlush, Leads
  <2>2. ASSUME BackgroundStep
        PROVE  phase' = phase /\ phase \in {"open", "closing"}
    BY <2>2 DEF BackgroundStep, BackgroundNothing, StartFlush, FlushTableBuilt, ManifestWritten,
       FlushInstalled, StartMerge, OpenOutput, MergeDone, MergeInstalled, BackgroundFails, Running,
       Working
  <2>3. ASSUME NEW w \in Writers, NEW op \in Ops, Write(w, op)
        PROVE  phase' = phase /\ phase = "open"
    BY <2>3 DEF Write
  <2>4. ASSUME \/ SuspendCompaction \/ ResumeCompaction \/ Close \/ Closed \/ ProcessCrash
               \/ MachineCrash \/ OpenCorrupt \/ OpenFinish
        PROVE  phase' \in {"open", "closing", "closed", "corrupt"}
    BY <2>4 DEF SuspendCompaction, ResumeCompaction, Close, Closed, ProcessCrash, MachineCrash,
       OpenCorrupt, OpenFinish
  <2>5. CASE OpenRecover \/ OpenApply
    BY <2>5 DEF OpenRecover, OpenApply
  <2>6. CASE UNCHANGED vars
    BY <2>6 DEF vars, TornInv
  <2> QED BY <2>1, <2>2, <2>3, <2>4, <2>5, <2>6 DEF Next, OpenStep
<1>1. CASE faults' = faults /\ torn' \subseteq torn /\ (manifestTorn' = manifestTorn \/ OpenApply)
  <2>1. /\ faults' \in Nat /\ faults' <= MaxFaults
        /\ faults' = 0 => torn' = {} /\ manifestTorn' = "no"
    BY <1>1 DEF TornInv, OpenApply
  <2>2. phase' \in {"recovered", "applied"} => ~Corrupt'
    <3> SUFFICES ASSUME phase' \in {"recovered", "applied"} PROVE ~Corrupt'
      OBVIOUS
    <3>1. OpenRecover \/ OpenApply \/ UNCHANGED vars
      BY <1>8
    <3>2. CASE OpenRecover
      <4>1. ~Corrupt /\ UNCHANGED <<wal, torn, manVars>>
        BY <3>2 DEF OpenRecover
      <4> QED BY <4>1, StaysWhole
    <3>3. CASE OpenApply
      <4>1. /\ phase = "recovered" /\ phase' = "applied" /\ UNCHANGED <<wal, torn, edit>>
            /\ manifest'.log = edit.log /\ manifestTorn' = "no"
        BY <3>3 DEF OpenApply, Apply
      <4>2. \A e \in wal : e.file < manifest'.log
        BY <4>1 DEF EditInv
      <4>3. \A t \in torn : t.file >= manifest'.log => ~Buries(wal, t)
        <5>1. ASSUME NEW t \in torn, t.file >= manifest'.log, NEW e \in wal, e.file = t.file
              PROVE  FALSE
          <6>1. e.file \in Nat /\ manifest'.log \in Nat
            BY <4>1 DEF OrderInv, EntriesInv, FileNumbers
          <6>2. \A a, b \in Nat : ~(a < b /\ a >= b)
            OBVIOUS
          <6> QED BY <4>2, <5>1, <6>1, <6>2
        <5> QED BY <5>1 DEF Buries
      <4> QED BY <4>1, <4>3 DEF Corrupt, Buries
    <3>4. CASE UNCHANGED vars
      BY <3>4, StaysWhole DEF vars, TornInv
    <3> QED BY <3>1, <3>2, <3>3, <3>4
  <2> QED BY <1>8, <2>1, <2>2 DEF TornInv
<1>2. CASE faults' = faults + 1 /\ faults < MaxFaults /\ phase' \notin {"recovered", "applied"}
  <2>1. \A n, m \in Nat : n < m => n + 1 \in Nat /\ n + 1 <= m /\ n + 1 # 0
    OBVIOUS
  <2> QED BY <1>2, <1>8, <2>1, DBImplAssumption DEF TornInv
<1>3. ASSUME NEW w \in Writers, WriterStep(w)
      PROVE  TornInv'
  <2>1. CASE RoomSwitchFails(w) \/ AddRecordFails(w) \/ SyncLogFails(w)
    BY <1>2, <2>1 DEF RoomSwitchFails, MustSwitch, InRoom, AddRecordFails, SyncLogFails, Leads
  <2>2. CASE ~(RoomSwitchFails(w) \/ AddRecordFails(w) \/ SyncLogFails(w))
    BY <1>1, <1>3, <2>2 DEF WriterStep, RoomError, RoomSlowdown, RoomReady, RoomWait, RoomSwitch,
       AddRecord, SyncLog, InsertInto, Publish, Return, AwaitFlush
  <2> QED BY <2>1, <2>2
<1>4. CASE BackgroundFails
  <2>1. CASE UNCHANGED faults
    <3>1. UNCHANGED torn
      BY <1>4 DEF BackgroundFails
    <3>2. \/ bg.pc \in {"table", "merge"}
          \/ faults < MaxFaults /\ faults' = faults + 1
      BY <1>4 DEF BackgroundFails
    <3>3. UNCHANGED manVars \/ bg.pc \in {"flushlog", "mergelog"}
      BY <1>4 DEF BackgroundFails
    <3> QED BY <1>1, <1>2, <1>4, <2>1, <3>1, <3>2, <3>3 DEF BackgroundFails, Running, Working
  <2>2. CASE ~UNCHANGED faults
    BY <1>2, <1>4, <2>2 DEF BackgroundFails, Running, Working
  <2> QED BY <2>1, <2>2
<1>5. CASE ManifestWritten
  <2>1. /\ UNCHANGED <<faults, torn>> /\ phase' \notin {"recovered", "applied"}
        /\ manifestTorn = "no" => manifestTorn' = "no"
    BY <1>5 DEF ManifestWritten, Working
  <2> QED BY <1>8, <2>1 DEF TornInv
<1>6. CASE BackgroundStep /\ ~BackgroundFails /\ ~ManifestWritten
  <2>1. UNCHANGED <<faults, manVars>> /\ torn' \subseteq torn
    BY <1>6 DEF BackgroundStep, BackgroundNothing, StartFlush, FlushTableBuilt, FlushInstalled,
       StartMerge, OpenOutput, MergeDone, MergeInstalled, DeleteObsoleteLogs
  <2> QED BY <1>1, <2>1
<1>7. CASE \/ \E w \in Writers, op \in Ops : Write(w, op)
           \/ SuspendCompaction \/ ResumeCompaction \/ Close \/ Closed \/ ProcessCrash
           \/ MachineCrash \/ OpenStep \/ UNCHANGED vars
  <2>1. faults' = faults /\ torn' \subseteq torn /\ (manifestTorn' = manifestTorn \/ OpenApply)
    BY <1>7 DEF Write, SuspendCompaction, ResumeCompaction, Close, Closed, ProcessCrash,
       MachineCrash, OpenStep, OpenRecover, OpenCorrupt, OpenApply, OpenFinish,
       DeleteObsoleteLogs, vars
  <2> QED BY <1>1, <2>1
<1> QED BY <1>3, <1>4, <1>5, <1>6, <1>7 DEF Next

THEOREM TornInvariant == Spec => []TornInv
<1>1. Init => TornInv
  BY DBImplAssumption DEF Init, TornInv
<1>2. FileNumbers /\ OrderInv /\ StoreInv /\ TornInv /\ [Next]_vars => TornInv'
  BY TornStep DEF StoreInv
<1> QED BY <1>1, <1>2, FileNumbersInvariant, OrderInvariant, StoreInvariant, PTL DEF Spec

\* A write that was acknowledged with sync stays in the files, through any sequence of
\* crashes of the machine, flushes, and failures of file operations, and the next Open()
\* finds it there unless an operation had failed.
THEOREM SyncedWritesAreSafe == Spec => []SyncedWritesSurviveUnlessTorn
<1>1. StoreInv => promised \subseteq OpsOf(OnDisk)
  BY SafeOnDisk, DBImplAssumption DEF StoreInv, HoldersInv, Safe, Settled
<1>2. TornInv => Recovered = OnDisk \/ faults > 0
  BY TornByFault DEF Recovered
<1>3. StoreInv /\ TornInv => SyncedWritesSurviveUnlessTorn
  BY <1>1, <1>2 DEF SyncedWritesSurviveUnlessTorn
<1> QED BY <1>3, StoreInvariant, TornInvariant, PTL

\* Where the machine stays up, every acknowledged write is in the files, whatever
\* file operations fail.
THEOREM AckedWritesStay == ~MachineCrashes => (Spec => [](acked \subseteq OpsOf(OnDisk)))
<1> SUFFICES ASSUME ~MachineCrashes PROVE Spec => [](acked \subseteq OpsOf(OnDisk))
  OBVIOUS
<1>1. OrderInv /\ StoreInv => acked \subseteq OpsOf(OnDisk)
  BY SafeOnDisk DEF StoreInv, OrderInv, CallsInv, Safe, Settled
<1> QED BY <1>1, OrderInvariant, StoreInvariant, PTL

----------------------------------------------------------------------------
(* The refinement.                                                         *)

\* What readers see does not change with the place where it is.
LEMMA SameVisible ==
    ASSUME Working, Working', InMemory' = InMemory, lastSequence' = lastSequence
    PROVE  Visible' = Visible
BY DEF Visible, OpsOf

LEMMA VisibleInMemory ==
    ASSUME Working
    PROVE  Visible = OpsOf({e \in InMemory : e.seq <= lastSequence})
BY DEF Visible

\* Nor does a broken file that is in use, or one that is mended.
LEMMA Unnoticed ==
    ASSUME TornInv', Working, Working', result' = result, Visible' = Visible
    PROVE  Store!Next \/ UNCHANGED Store!vars
<1>1. CASE Corrupt' <=> Corrupt
  BY <1>1 DEF Store!vars, Condition
<1>2. CASE ~Corrupt /\ Corrupt'
  <2>1. MaxFaults > 0
    <3>1. torn' # {} \/ manifestTorn' # "no"
      BY <1>2 DEF Corrupt
    <3>2. faults' \in Nat /\ faults' # 0 /\ faults' <= MaxFaults
      BY <3>1 DEF TornInv
    <3>3. \A n, m \in Nat : n # 0 /\ n <= m => m > 0
      OBVIOUS
    <3> QED BY <3>2, <3>3, DBImplAssumption
  <2>2. Store!Break
    BY <1>2, <2>1 DEF Store!Break, Condition
  <2> QED BY <2>2 DEF Store!Next
<1>3. CASE Corrupt /\ ~Corrupt'
  <2>1. Store!Mend
    BY <1>3 DEF Store!Mend, Condition
  <2> QED BY <2>1 DEF Store!Next
<1> QED BY <1>1, <1>2, <1>3

LEMMA SameCondition ==
    ASSUME UNCHANGED <<wal, torn, manVars>>, Working, Working'
    PROVE  Condition' = Condition /\ Condition # "refused"
<1>1. Corrupt' = Corrupt
  BY DEF Corrupt, Buries, manVars
<1> QED BY <1>1 DEF Condition

\* A call, and the answer that it gets
LEMMA CallRefines ==
    ASSUME QueueInv, NEW w \in Writers, NEW op \in Ops, Write(w, op)
    PROVE  Store!Next
<1>1. /\ result[op] = "new" /\ result' = [result EXCEPT ![op] = "pending"]
      /\ UNCHANGED engineVars /\ Working /\ Working'
  BY DEF Write, engineVars, flagVars, Working
<1>2. InMemory' = InMemory /\ lastSequence' = lastSequence
  BY <1>1 DEF InMemory, engineVars, memVars, verVars
<1>3. Visible' = Visible
  BY <1>1, <1>2, SameVisible
<1>4. Store!Call(op)
  BY <1>1, <1>3, SameCondition DEF Store!Call, Store!InUse, engineVars, walVars
<1> QED BY <1>4 DEF Store!Next

LEMMA ReplyRefines ==
    ASSUME QueueInv, OrderInv, StoreInv, NEW w \in Writers, Return(w) \/ AwaitFlush(w)
    PROVE  Store!Next \/ UNCHANGED Store!vars
<1>1. CallsInv /\ HoldersInv /\ MemoryInv
  BY DEF OrderInv, StoreInv
<1>2. /\ UNCHANGED engineVars /\ Working /\ Working' /\ wr[w].pc \in {"done", "flushwait"}
  BY DEF Return, AwaitFlush, engineVars, flagVars, Working
<1>3. InMemory' = InMemory /\ lastSequence' = lastSequence
  BY <1>2 DEF InMemory, engineVars, memVars, verVars
<1>4. Visible' = Visible
  BY <1>2, <1>3, SameVisible
<1>7. Condition' = Condition /\ Condition # "refused"
  BY <1>2, SameCondition DEF engineVars, walVars
<1>5. CASE UNCHANGED <<result, acked, promised>>
  BY <1>4, <1>5, <1>7 DEF Store!vars
<1>6. CASE \E r \in {"ok", "error"} :
             /\ result' = [result EXCEPT ![wr[w].op] = r]
             /\ r = "ok" => wr[w].op \in Done \cup NullOps
  <2>1. PICK r \in {"ok", "error"} :
             /\ result' = [result EXCEPT ![wr[w].op] = r]
             /\ r = "ok" => wr[w].op \in Done \cup NullOps
    BY <1>6
  <2>2. wr[w].op \in Ops /\ result[wr[w].op] = "pending"
    BY <1>1, <1>2 DEF CallsInv
  <2>3. wr[w].op \in Done => wr[w].op \in Visible
    <3> SUFFICES ASSUME wr[w].op \in Done PROVE wr[w].op \in Visible
      OBVIOUS
    <3>1. PICK x \in InMemory : x.op = wr[w].op
      BY <1>1, <1>2 DEF MemoryInv, OpsOf
    <3>2. x.seq <= lastSequence
      BY <1>2, <3>1, SettledIsRead DEF Settled
    <3> QED BY <1>2, <3>1, <3>2, VisibleInMemory DEF OpsOf
  <2>4. Store!Reply(wr[w].op, r)
    BY <1>4, <1>7, <2>1, <2>2, <2>3 DEF Store!Reply, Store!InUse
  <2> QED BY <2>2, <2>4 DEF Store!Next
<1> QED BY <1>1, <1>5, <1>6, AnswerMoves

\* Publish() makes a whole group visible: the entries above the old number that are at
\* most the new one are those of the group.
LEMMA PublishRefines ==
    ASSUME QueueInv, OrderInv, StoreInv, NEW w \in Writers, Publish(w)
    PROVE  Store!Next
<1>1. /\ UNCHANGED <<mem_, imm_, tables, phase, result, wal, torn, manVars>>
      /\ Working /\ wr[w].pc = "publish"
      /\ lastSequence' = lastSequence + Count(group)
  BY DEF Publish, Leads, memVars, histVars, walVars, Working
<1>2. group \in 1..Len(writers_) /\ lastSequence \in Nat
  BY <1>1 DEF QueueInv, OrderInv, BoundsInv
<1>3. /\ Count(group) \in Nat
      /\ \A x \in GroupEntries : x.op \in Ops /\ result[x.op] = "pending"
  BY <1>2, GroupNumbers DEF OrderInv
<1>4. Working' /\ InMemory' = InMemory
  BY <1>1 DEF Working, InMemory
<1>5. PICK last \in Nat : lastSequence' = last /\ lastSequence <= last
  BY <1>1, <1>2, <1>3
<1>6. Visible' = OpsOf({e \in InMemory : e.seq <= last})
  BY <1>4, <1>5 DEF Visible, OpsOf
<1>7. InMemory \subseteq Everything /\ \A x \in InMemory : x \in Entry
  BY DEF OrderInv, EntriesInv, InMemory, Everything
<1>8. Visible \subseteq Visible'
  <2>1. \A x \in InMemory : x.seq <= lastSequence => x.seq <= last
    BY <1>2, <1>5, <1>7 DEF Entry
  <2> QED BY <1>1, <1>6, <2>1, VisibleInMemory DEF OpsOf
<1>9. \A o \in Visible' \ Visible : o \in Ops /\ result[o] = "pending"
  <2> SUFFICES ASSUME NEW o \in Visible', o \notin Visible
               PROVE  o \in Ops /\ result[o] = "pending"
    OBVIOUS
  <2>1. PICK x \in InMemory : x.op = o /\ x.seq <= last
    BY <1>6 DEF OpsOf
  <2>2. ~(x.seq <= lastSequence)
    BY <1>1, <2>1, VisibleInMemory DEF OpsOf
  <2>3. x \in Flight
    BY <1>1, <1>7, <2>2 DEF OrderInv, BoundsInv, Working
  <2> QED BY <1>3, <2>1, <2>3 DEF Flight
<1> DEFINE G == Visible' \ Visible
<1>10. G \in SUBSET Ops /\ Visible' = Visible \cup G
  BY <1>8, <1>9
<1>12. Condition' = Condition /\ Condition # "refused"
  BY <1>1, <1>4, SameCondition
<1>11. Store!Commit(G)
  BY <1>1, <1>9, <1>10, <1>12 DEF Store!Commit, Store!InUse
<1> QED BY <1>10, <1>11 DEF Store!Next

\* All other steps of the writers change nothing that a caller or reader sees: what is
\* inserted has too high a number.
LEMMA WriterStutters ==
    ASSUME QueueInv, OrderInv, StoreInv, NEW w \in Writers, WriterStep(w),
           ~Publish(w), ~Return(w), ~AwaitFlush(w)
    PROVE  result' = result /\ Visible' = Visible /\ Working /\ Working'
<1> USE DEF engineVars, memVars, verVars, flagVars, histVars
<1>1. /\ UNCHANGED <<result, lastSequence, tables, phase>> /\ phase = "open"
      /\ \/ UNCHANGED <<mem_, imm_>>
         \/ RoomSwitch(w)
         \/ InsertInto(w)
  BY DEF WriterStep, RoomError, RoomSlowdown, RoomReady, RoomWait, RoomSwitch,
         RoomSwitchFails, MustSwitch, InRoom, AddRecord, AddRecordFails, SyncLog, SyncLogFails,
         InsertInto, Leads
<1>2. Working /\ Working'
  BY <1>1 DEF Working
<1>3. CASE UNCHANGED <<mem_, imm_>> \/ RoomSwitch(w)
  <2>1. CASE RoomSwitch(w)
    <3>1. imm_' = mem_ /\ mem_' = {} /\ imm_ = {}
      BY <2>1 DEF RoomSwitch, MustSwitch, OrderInv, EntriesInv
    <3>2. InMemory' = InMemory
      BY <1>1, <3>1 DEF InMemory
    <3> QED BY <1>1, <1>2, <3>2, SameVisible
  <2>2. CASE UNCHANGED <<mem_, imm_>>
    <3>1. InMemory' = InMemory
      BY <1>1, <2>2 DEF InMemory
    <3> QED BY <1>1, <1>2, <3>1, SameVisible
  <2> QED BY <1>3, <2>1, <2>2
<1>4. CASE InsertInto(w)
  <2>1. wr[w].pc = "insert" /\ mem_' = mem_ \cup GroupEntries /\ imm_' = imm_
    BY <1>4 DEF InsertInto, Leads
  <2>2. group \in 1..Len(writers_) /\ lastSequence \in Nat
    BY <2>1 DEF QueueInv, OrderInv, BoundsInv
  <2>3. \A x \in GroupEntries : x \in Entry /\ lastSequence < x.seq
    BY <2>2, GroupNumbers DEF OrderInv
  <2>4. \A x \in GroupEntries : ~(x.seq <= lastSequence)
    BY <2>2, <2>3 DEF Entry
  <2>5. InMemory' = InMemory \cup GroupEntries
    BY <1>1, <2>1 DEF InMemory
  <2>6. {e \in InMemory' : e.seq <= lastSequence} = {e \in InMemory : e.seq <= lastSequence}
    BY <2>4, <2>5
  <2>7. Visible' = Visible
    BY <1>1, <1>2, <2>6 DEF Visible, OpsOf
  <2> QED BY <1>1, <1>2, <2>7
<1> QED BY <1>1, <1>3, <1>4

\* Nor do those of the background thread.
LEMMA BackgroundStutters ==
    ASSUME EditInv, BackgroundStep
    PROVE  result' = result /\ Visible' = Visible /\ Working /\ Working'
<1> USE DEF memVars, verVars, flagVars
<1>1. UNCHANGED <<result, lastSequence, phase>>
  BY BackgroundSignals
<1>2. Working /\ Working'
  BY <1>1 DEF BackgroundStep, BackgroundNothing, StartFlush, FlushTableBuilt, ManifestWritten,
       FlushInstalled, StartMerge, OpenOutput, MergeDone, MergeInstalled, BackgroundFails, Running,
       Working
<1>3. InMemory' = InMemory
  <2>1. CASE FlushInstalled
    <3>1. edit.added = imm_ /\ imm_' = {} /\ mem_' = mem_ /\ tables' = tables \cup edit.added
      BY <2>1 DEF EditInv, FlushInstalled, InstallEdit
    <3> QED BY <3>1 DEF InMemory
  <2>2. CASE MergeInstalled
    <3>1. edit.added = {} /\ imm_' = imm_ /\ mem_' = mem_ /\ tables' = tables \cup edit.added
      BY <2>2 DEF EditInv, MergeInstalled, InstallEdit
    <3> QED BY <3>1 DEF InMemory
  <2>3. CASE ~FlushInstalled /\ ~MergeInstalled
    BY <2>3 DEF BackgroundStep, BackgroundNothing, StartFlush, FlushTableBuilt, ManifestWritten,
       StartMerge, OpenOutput, MergeDone, BackgroundFails, InMemory
  <2> QED BY <2>1, <2>2, <2>3
<1> QED BY <1>1, <1>2, <1>3, SameVisible

\* Recovery moves what it reads, from the logs to the MANIFEST, to the tables.
LEMMA OpenStutters ==
    ASSUME QueueInv, FileNumbers, OrderInv, StoreInv, TornInv, TornInv', OpenStep
    PROVE  UNCHANGED Store!vars
<1> USE DEF memVars, verVars, manVars, walVars, histVars
<1>1. /\ EntriesInv /\ BoundsInv /\ EditInv /\ result' = result /\ ~Working
  BY DEF OrderInv, StoreInv, OpenStep, OpenRecover, OpenCorrupt, OpenApply, OpenFinish, Working
<1>2. Visible = OpsOf(Recovered)
  BY <1>1 DEF Visible
<1>3. /\ \A e \in wal : e.file \in Nat
      /\ manifest.log \in Nat /\ edit.log \in Nat
  BY <1>1 DEF EntriesInv, FileNumbers
<1>4. CASE OpenRecover \/ OpenCorrupt
  <2>1. ~Working' /\ UNCHANGED <<wal, torn, manifest, manifestTorn>>
    BY <1>4 DEF OpenRecover, OpenCorrupt, Working
  <2>2. OnDisk' = OnDisk /\ Corrupt' = Corrupt
    BY <2>1 DEF OnDisk, Held, Contents, Content, Corrupt, Buries
  <2> QED BY <1>1, <1>2, <2>1, <2>2 DEF Visible, Recovered, Condition, OpsOf, Store!vars
<1>5. CASE OpenApply
  <2>1. ~Working' /\ wal' = wal /\ phase = "recovered" /\ manifest' = Apply(manifest, edit)
    BY <1>5 DEF OpenApply, Working
  <2>2. manifest'.tables = manifest.tables \cup edit.added /\ manifest'.log = edit.log
    BY <2>1 DEF Apply
  <2>3. {e \in wal : e.file >= manifest'.log} = {}
    BY <1>1, <1>3, <2>1, <2>2 DEF EditInv
  <2>4. edit.added = Contents({e \in wal : e.file >= manifest.log})
    BY <1>1, <2>1 DEF EditInv
  <2>5. OnDisk' = OnDisk
    BY <2>1, <2>2, <2>3, <2>4 DEF OnDisk, Held, Contents, Content
  <2>6. ~Corrupt /\ ~Corrupt'
    BY <1>5, <2>1 DEF OpenApply, TornInv
  <2> QED BY <1>1, <1>2, <2>1, <2>5, <2>6 DEF Visible, Recovered, Condition, OpsOf, Store!vars
<1>6. CASE OpenFinish
  <2>1. /\ Working' /\ phase = "applied" /\ UNCHANGED <<mem_, imm_, lastSequence>>
        /\ tables' = tables \cup edit.added
    BY <1>6 DEF OpenFinish, InstallEdit, Working
  <2>2. edit.log = manifest.log /\ manifest.tables = tables'
    BY <1>1, <2>1 DEF EditInv
  <2>3. {e \in wal : e.file >= manifest.log} = {}
    BY <1>1, <1>3, <2>1, <2>2 DEF EditInv
  <2>4. OnDisk = manifest.tables
    BY <2>3 DEF OnDisk, Held, Contents
  <2>5. InMemory' = manifest.tables
    BY <1>1, <2>1, <2>2 DEF InMemory, EntriesInv
  <2>6. \A x \in manifest.tables : x.seq <= lastSequence
    <3>1. Flight = {}
      BY <1>1 DEF Flight, Logging, EntriesInv
    <3> QED BY <1>1, <2>1, <3>1 DEF BoundsInv, Everything
  <2>7. {e \in InMemory' : e.seq <= lastSequence'} = manifest.tables
    BY <2>1, <2>5, <2>6
  <2>8. Visible' = OpsOf(manifest.tables)
    BY <2>1, <2>7 DEF Visible, OpsOf
  <2>9. ~Corrupt /\ ~Corrupt'
    <3>1. wal' \subseteq wal /\ torn' \subseteq torn /\ UNCHANGED manVars
      BY <1>6 DEF OpenFinish, DeleteObsoleteLogs
    <3> QED BY <2>1, <3>1, StaysWhole DEF TornInv
  <2> QED BY <1>1, <1>2, <2>4, <2>8, <2>9 DEF Recovered, Condition, Store!vars
<1> QED BY <1>4, <1>5, <1>6 DEF OpenStep

\* A crash, or a close, leaves what is on disk, and takes from readers nothing that
\* it must leave.
LEMMA RestartRefines ==
    ASSUME QueueInv, FileNumbers, OrderInv, StoreInv, StoreInv', TornInv,
           Closed \/ ProcessCrash \/ MachineCrash
    PROVE  Store!Next
<1>1. /\ EntriesInv /\ BoundsInv /\ CallsInv /\ HoldersInv /\ NullInv /\ MemoryInv /\ LastInv
      /\ LastInv'
  BY DEF OrderInv, StoreInv
<1>2. /\ phase' = "closed" /\ UNCHANGED <<manifest, acked>>
      /\ wal' = wal \/ (MachineCrashes /\ wal' \subseteq wal)
      /\ result' = Interrupted \/ (phase = "closing" /\ result' = result)
  BY DEF Closed, ProcessCrash, MachineCrash, walVars, manVars, histVars
<1>13. /\ Corrupt' => Corrupt
       /\ Corrupt => Working
       /\ ~Working'
  <2>1. wal' \subseteq wal /\ torn' \subseteq torn /\ UNCHANGED manVars
    BY DEF Closed, ProcessCrash, MachineCrash, walVars
  <2>2. phase \in {"recovered", "applied"} => ~Corrupt
    BY DEF TornInv
  <2>3. phase \in {"open", "closing", "recovered", "applied"}
    BY DEF Closed, ProcessCrash, MachineCrash, TornInv
  <2> QED BY <1>2, <2>1, <2>2, <2>3, StaysWhole DEF Working
<1>14. ~Working => Visible = OpsOf(OnDisk)
  BY <1>13 DEF Visible, Recovered
<1>3. /\ ~Corrupt' => Visible' = OpsOf(OnDisk')
      /\ OnDisk' \subseteq OnDisk
      /\ ~MachineCrashes => OnDisk' = OnDisk
  <2>1. wal' \subseteq wal
    BY <1>2
  <2>2. ~Corrupt' => Visible' = OpsOf(OnDisk')
    BY <1>13 DEF Visible, Recovered, OpsOf
  <2>3. OnDisk' \subseteq OnDisk
    BY <1>2, <2>1 DEF OnDisk, Held, Contents, Content
  <2>4. ~MachineCrashes => OnDisk' = OnDisk
    BY <1>2 DEF OnDisk, Held, Contents, Content
  <2> QED BY <2>2, <2>3, <2>4
<1>4. result \in [Ops -> {"new", "pending", "ok", "error", "sync_error", "lost"}]
  BY <1>1 DEF CallsInv
<1>5. result' = [op \in Ops |-> IF result[op] = "pending" THEN "lost" ELSE result[op]]
  <2>1. CASE phase = "closing" /\ result' = result
    <3>1. \A op \in Ops : result[op] # "pending"
      BY <1>1, <2>1 DEF HoldersInv
    <3> QED BY <1>4, <2>1, <3>1
  <2> QED BY <1>2, <2>1 DEF Interrupted
<1>6. Contents(wal) \cup manifest.tables \cup InMemory \subseteq Everything
  BY <1>1 DEF Everything, InMemory, EntriesInv
<1>7. OnDisk \subseteq Contents(wal) \cup manifest.tables
  BY DEF OnDisk, Held, Contents
<1> DEFINE doubtful == {op \in Ops : result[op] \in {"pending", "error", "lost"}}
           safe     == {op \in Visible : MachineCrashes => op \in SyncOps /\ result[op] = "ok"}
<1>8. ASSUME NEW o \in OpsOf(OnDisk)
      PROVE  o \in Visible \cup doubtful
  <2>1. CASE ~Working
    BY <1>8, <1>14, <2>1
  <2>2. CASE Working
    <3>1. PICK x \in OnDisk : x.op = o
      BY <1>8 DEF OpsOf
    <3>2. x \in Everything /\ x \in Contents(wal) \cup manifest.tables
      BY <1>6, <1>7, <3>1
    <3>3. o \in Ops /\ o \notin NullOps
      BY <1>1, <3>1, <3>2 DEF EntriesInv, Entry, NullInv
    <3>4. result[o] \in {"pending", "ok", "error", "lost"}
      BY <1>1, <1>4, <3>1, <3>2, <3>3 DEF CallsInv, HoldersInv, OpsOf
    <3>5. CASE result[o] = "ok"
      <4>1. o \in Settled
        BY <1>1, <3>3, <3>5 DEF HoldersInv, Settled
      <4>2. x \in InMemory /\ x.seq <= lastSequence
        BY <2>2, <3>1, <3>2, <4>1, SettledIsRead
      <4> QED BY <2>2, <3>1, <4>2, VisibleInMemory DEF OpsOf
    <3> QED BY <3>3, <3>4, <3>5
  <2> QED BY <2>1, <2>2
<1>9. ASSUME NEW o \in safe
      PROVE  o \in OpsOf(OnDisk')
  <2>1. CASE ~MachineCrashes
    <3>1. CASE ~Working
      BY <1>3, <1>14, <2>1, <3>1 DEF OpsOf
    <3>2. CASE Working
      <4>1. PICK x \in InMemory : x.op = o
        BY <3>2, VisibleInMemory DEF OpsOf
      <4>2. InMemory \subseteq OnDisk
        <5>1. tables \subseteq OnDisk
          BY <1>1 DEF EntriesInv, OnDisk, Held
        <5>2. mem_ \subseteq OnDisk
          <6>1. manifest.log <= logfile_number_ /\ manifest.log \in Nat /\ logfile_number_ \in Nat
            BY <1>1, <3>2 DEF BoundsInv, FileNumbers, Working
          <6>2. \A e \in wal : e.file = logfile_number_ => e.file >= manifest.log
            BY <6>1
          <6> QED BY <1>1, <3>2, <6>2 DEF MemoryInv, OnDisk, Held, Contents
        <5> QED BY <1>1, <3>2, <5>1, <5>2 DEF InMemory, MemoryInv
      <4> QED BY <1>3, <2>1, <4>1, <4>2 DEF OpsOf
    <3> QED BY <3>1, <3>2
  <2>2. CASE MachineCrashes
    <3>1. o \in SyncOps /\ result[o] = "ok" /\ o \in Visible
      BY <2>2
    <3>2. o \in Ops /\ o \notin NullOps
      <4>1. \E x \in Contents(wal) \cup manifest.tables \cup mem_ \cup imm_ : x.op = o
        BY <1>1, <1>7, <1>14, <3>1 DEF Visible, OpsOf, InMemory, EntriesInv
      <4> QED BY <1>1, <3>1, <4>1, DBImplAssumption DEF NullInv
    <3>3. o \in acked'
      BY <1>1, <1>2, <3>1, <3>2 DEF HoldersInv
    <3>4. o \in Settled' /\ o \in Safe
      BY <2>2, <3>1, <3>3 DEF Settled, Safe
    <3>5. Kept' \subseteq OnDisk'
      BY <1>1 DEF LastInv, Kept, Lasting, OnDisk, Held, Contents, Content
    <3>6. o \in OpsOf(Kept')
      BY <1>1, <3>4 DEF LastInv, Safe, OpsOf
    <3> QED BY <3>5, <3>6 DEF OpsOf
  <2> QED BY <2>1, <2>2
<1>10. OpsOf(OnDisk') \subseteq OpsOf(OnDisk)
  BY <1>3 DEF OpsOf
<1>11. CASE ~Corrupt'
  <2>1. safe \subseteq Visible' /\ Visible' \subseteq Visible \cup doubtful
    BY <1>3, <1>8, <1>9, <1>10, <1>11
  <2>2. Condition # "refused" /\ Condition' = "sound"
    BY <1>11, <1>13 DEF Condition
  <2>3. Store!Restart
    BY <1>5, <2>1, <2>2 DEF Store!Restart, Store!InUse, Store!Left
  <2> QED BY <2>3 DEF Store!Next
<1>12. CASE Corrupt'
  <2>1. Condition = "broken" /\ Condition' = "refused"
    BY <1>12, <1>13 DEF Condition
  <2>2. Visible' = {}
    BY <1>12, <1>13 DEF Visible, Recovered, OpsOf
  <2>3. Store!Refuse
    BY <1>5, <2>1, <2>2 DEF Store!Refuse, Store!Left
  <2> QED BY <2>3 DEF Store!Next
<1> QED BY <1>11, <1>12

\* The engine implements DurableStore, with every fault, crash and interleaving that
\* the model has: readers see whole groups, an acknowledged batch is visible from then
\* on, a crash of the process hides nothing, one of the machine no synced batch, and
\* only a store that a failed operation broke, and that is broken when it is left, is
\* refused.
THEOREM StoreRefined == Spec => ImplementsStore
<1>1. Init => Store!Init
  <2> SUFFICES ASSUME Init PROVE Store!Init
    OBVIOUS
  <2>1. ~Working /\ OnDisk = {}
    BY DEF Init, Working, OnDisk, Held, Contents, EmptyManifest
  <2>2. Visible = {}
    BY <2>1 DEF Visible, Recovered, OpsOf
  <2>3. Condition = "sound"
    BY DEF Init, Condition, Corrupt
  <2> QED BY <2>2, <2>3 DEF Init, Store!Init
<1>2. QueueInv /\ FileNumbers /\ OrderInv /\ StoreInv /\ StoreInv' /\ TornInv /\ TornInv' /\ [Next]_vars
        => [Store!Next]_(Store!vars)
  <2> SUFFICES ASSUME QueueInv, FileNumbers, OrderInv, StoreInv, StoreInv', TornInv, TornInv',
                      [Next]_vars
               PROVE  Store!Next \/ UNCHANGED Store!vars
    OBVIOUS
  <2>1. CASE UNCHANGED vars
    <3>1. /\ InMemory' = InMemory /\ OnDisk' = OnDisk /\ Corrupt' = Corrupt
          /\ UNCHANGED <<phase, lastSequence, result>>
      BY <2>1 DEF vars, engineVars, memVars, verVars, flagVars, walVars, manVars, histVars,
         InMemory, OnDisk, Held, Contents, Content, Corrupt, Buries
    <3> QED BY <3>1 DEF Visible, Recovered, Condition, Working, OpsOf, Store!vars
  <2>2. CASE \E w \in Writers, op \in Ops : Write(w, op)
    BY <2>2, CallRefines
  <2>3. CASE \E w \in Writers : WriterStep(w)
    BY <2>3, ReplyRefines, PublishRefines, WriterStutters, Unnoticed
  <2>4. CASE BackgroundStep
    BY <2>4, BackgroundStutters, Unnoticed DEF StoreInv
  <2>5. CASE SuspendCompaction \/ ResumeCompaction \/ Close
    <3>1. /\ InMemory' = InMemory /\ Working /\ Working' /\ UNCHANGED <<lastSequence, result>>
      BY <2>5 DEF SuspendCompaction, ResumeCompaction, Close, memVars, verVars, histVars,
         InMemory, Working
    <3> QED BY <3>1, SameVisible, Unnoticed
  <2>6. CASE Closed \/ ProcessCrash \/ MachineCrash
    BY <2>6, RestartRefines
  <2>7. CASE OpenStep
    BY <2>7, OpenStutters
  <2> QED BY <2>1, <2>2, <2>3, <2>4, <2>5, <2>6, <2>7 DEF Next
<1> QED BY <1>1, <1>2, QueueInvariant, FileNumbersInvariant, OrderInvariant, StoreInvariant, TornInvariant, PTL
        DEF Spec, ImplementsStore, Store!Spec
=============================================================================
