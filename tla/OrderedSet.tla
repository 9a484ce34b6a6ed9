----------------------------- MODULE OrderedSet -----------------------------
(* What the skip list promises to readers that take no lock: a set of      *)
(* ordered keys that only grows, and cursors over it.  A move of a cursor  *)
(* takes time.  It may or may not see the keys added meanwhile, but it     *)
(* misses none that was there when it began.                               *)
CONSTANTS Key, Before(_, _), Readers, Nil

VARIABLES contents,  \* the keys in the set
          at,        \* the key each cursor is at, Nil when it is not valid
          move,      \* the move a cursor is in, and from which key
          known      \* what the set held when that move began

NoMove == [op |-> "idle", bound |-> Nil]
Forward == {"seek", "next", "first"}

\* The keys a move may stop at
Reach(op, bound, S) ==
    {k \in S : /\ op = "seek" => ~Before(k, bound)
               /\ op = "next" => Before(bound, k)
               /\ op = "prev" => Before(k, bound)}

\* n is an answer to a move: a key in its range, and no key that was there at
\* its beginning is nearer.
Answers(n, op, bound, was, now) ==
    /\ n \in Reach(op, bound, now) \cup {Nil}
    /\ \A k \in Reach(op, bound, was) :
          n # Nil /\ (n = k \/ IF op \in Forward THEN Before(n, k) ELSE Before(k, n))

Init == /\ contents = {}
        /\ at = [r \in Readers |-> Nil]
        /\ move = [r \in Readers |-> NoMove]
        /\ known = [r \in Readers |-> {}]

Add(k) == /\ contents' = contents \cup {k}
          /\ UNCHANGED <<at, move, known>>

Begin(r, op, bound) ==
    /\ move[r] = NoMove
    /\ move' = [move EXCEPT ![r] = [op |-> op, bound |-> bound]]
    /\ known' = [known EXCEPT ![r] = contents]
    /\ UNCHANGED <<contents, at>>

End(r, n) ==
    /\ Answers(n, move[r].op, move[r].bound, known[r], contents)
    /\ at' = [at EXCEPT ![r] = n]
    /\ move' = [move EXCEPT ![r] = NoMove]
    /\ known' = [known EXCEPT ![r] = {}]
    /\ UNCHANGED contents

\* A move of a single step
Jump(r, op, n) ==
    /\ move[r] = NoMove
    /\ Answers(n, op, at[r], contents, contents)
    /\ at' = [at EXCEPT ![r] = n]
    /\ UNCHANGED <<contents, move, known>>

\* A new cursor is at no key.
Reset(r) == /\ move[r] = NoMove
            /\ at' = [at EXCEPT ![r] = Nil]
            /\ UNCHANGED <<contents, move, known>>

Next == \/ \E k \in Key : Add(k)
        \/ \E r \in Readers :
              \/ Reset(r)
              \/ \E k \in Key : Begin(r, "seek", k)
              \/ at[r] # Nil /\ Begin(r, "prev", at[r])
              \/ Begin(r, "last", Nil)
              \/ move[r] # NoMove /\ \E n \in contents \cup {Nil} : End(r, n)
              \/ \E n \in contents \cup {Nil} : Jump(r, "first", n)
              \/ at[r] # Nil /\ \E n \in contents \cup {Nil} : Jump(r, "next", n)

Spec == Init /\ [][Next]_<<contents, at, move, known>>
=============================================================================
