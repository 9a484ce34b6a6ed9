---------------------------- MODULE CachesProofs ----------------------------
(* Theorems about the table cache and the block cache (Caches).  A shard    *)
(* is sound for the references that its clients have; all else follows     *)
(* from counting those of the threads and of the two caches.               *)
EXTENDS Caches, TLAPS, SequenceTheorems, FiniteSetTheorems, WellFoundedInduction

----------------------------------------------------------------------------
(* Sums of charges.                                                        *)

\* A set of numbers that is not empty has a least one.
LEMMA LeastMember ==
    ASSUME NEW T \in SUBSET Nat, T # {}
    PROVE  \E x \in T : \A y \in T : x <= y
<1>1. PICK x \in T : \A y \in T : ~(<<y, x>> \in OpToRel(<, Nat))
  BY NatLessThanWellFounded, WFMin
<1>2. OpToRel(<, Nat) = {ss \in Nat \X Nat : ss[1] < ss[2]}
  BY Zenon DEF OpToRel
<1>3. ASSUME NEW y \in T
      PROVE  x <= y
  <2>1. ~(<<y, x>> \in {ss \in Nat \X Nat : ss[1] < ss[2]})
    BY <1>1, <1>2, Zenon
  <2> QED BY <2>1
<1> QED BY <1>3

\* What the handles in S are charged, where F says what each of them is
Charges(F, S) == MapThenSumSet(LAMBDA e : F[e].charge, S)

Chosen(s) == CHOOSE x \in s : TRUE

IsSum(g, F, S) ==
    g = [s \in SUBSET S |-> IF s = {} THEN 0
                            ELSE F[Chosen(s)].charge + g[s \ {Chosen(s)}]]

\* The sum is the function that MapThenSumSet() chooses, at S.
LEMMA ChargesDef == \A F, S : Charges(F, S) = (CHOOSE g : IsSum(g, F, S))[S]
BY Zenon DEF Charges, MapThenSumSet, MapThenFoldSet, IsSum, Chosen

\* What such a function is at each of the sets below S
LEMMA SumsAt ==
    \A F, S, g : IsSum(g, F, S) =>
        /\ g[{}] = 0
        /\ \A s \in SUBSET S : s # {} =>
              g[s] = F[Chosen(s)].charge + g[s \ {Chosen(s)}]
<1> SUFFICES ASSUME NEW F, NEW S, NEW g, IsSum(g, F, S)
             PROVE  /\ g[{}] = 0
                    /\ \A s \in SUBSET S : s # {} =>
                          g[s] = F[Chosen(s)].charge + g[s \ {Chosen(s)}]
  BY Zenon
<1>1. \A s \in SUBSET S : g[s] = IF s = {} THEN 0
            ELSE F[Chosen(s)].charge + g[s \ {Chosen(s)}]
  BY Zenon DEF IsSum
<1>2. {} \in SUBSET S
  OBVIOUS
<1> QED BY <1>1, <1>2

\* One that was chosen is in the set, which is smaller without it.
LEMMA ChosenOne ==
    ASSUME NEW s, IsFiniteSet(s), s # {}
    PROVE  /\ Chosen(s) \in s
           /\ \A x \in s : /\ IsFiniteSet(s \ {x}) /\ Cardinality(s \ {x}) \in Nat
                           /\ Cardinality(s) \in Nat
                           /\ Cardinality(s \ {x}) < Cardinality(s)
<1>1. \E x : x \in s
  OBVIOUS
<1>2. Chosen(s) \in s
  BY <1>1, Zenon DEF Chosen
<1>3. ASSUME NEW x \in s
      PROVE  /\ IsFiniteSet(s \ {x}) /\ Cardinality(s \ {x}) \in Nat
             /\ Cardinality(s) \in Nat /\ Cardinality(s \ {x}) < Cardinality(s)
  <2>1. IsFiniteSet(s \ {x}) /\ Cardinality(s \ {x}) = Cardinality(s) - 1
    BY FS_RemoveElement
  <2>2. Cardinality(s) \in Nat /\ Cardinality(s \ {x}) \in Nat
    BY <2>1, FS_CardinalityType
  <2> QED BY <2>1, <2>2
<1> QED BY <1>2, <1>3

\* Two such functions agree: else at a least set they would not.
LEMMA SumsUnique ==
    ASSUME NEW F, NEW S, IsFiniteSet(S), NEW g, IsSum(g, F, S), NEW h, IsSum(h, F, S)
    PROVE  g[S] = h[S]
<1> DEFINE Bad == {n \in Nat : \E s \in SUBSET S : Cardinality(s) = n /\ g[s] # h[s]}
<1>1. SUFFICES Bad = {}
  <2>1. Cardinality(S) \in Nat
    BY FS_CardinalityType
  <2> QED BY <2>1
<1>2. SUFFICES ASSUME Bad # {} PROVE FALSE
  OBVIOUS
<1>3. PICK n \in Bad : \A m \in Bad : n <= m
  <2>1. Bad \in SUBSET Nat
    OBVIOUS
  <2> HIDE DEF Bad
  <2> QED BY <1>2, <2>1, LeastMember
<1>4. PICK s \in SUBSET S : Cardinality(s) = n /\ g[s] # h[s]
  BY <1>3
<1>5. IsFiniteSet(s) /\ s # {}
  <2>1. g[{}] = 0 /\ h[{}] = 0
    BY SumsAt
  <2> QED BY <1>4, <2>1, FS_Subset
<1> DEFINE x == Chosen(s)
<1>6. x \in s /\ Cardinality(s \ {x}) \in Nat /\ Cardinality(s \ {x}) < n
  BY <1>4, <1>5, ChosenOne
<1>7. g[s] = F[x].charge + g[s \ {x}] /\ h[s] = F[x].charge + h[s \ {x}]
  BY <1>5, SumsAt
<1> HIDE DEF x
<1>8. g[s \ {x}] # h[s \ {x}]
  BY <1>4, <1>7
<1>9. Cardinality(s \ {x}) \in Bad
  BY <1>6, <1>8
<1>10. n \in Nat
  BY <1>3
<1> HIDE DEF Bad
<1>11. n <= Cardinality(s \ {x})
  BY <1>3, <1>9
<1> QED BY <1>6, <1>10, <1>11

\* Such a function, seen below a smaller set, is one.
LEMMA SumsBelow ==
    ASSUME NEW F, NEW S, NEW h, IsSum(h, F, S), NEW R \in SUBSET S
    PROVE  IsSum([s \in SUBSET R |-> h[s]], F, R)
<1> DEFINE k == [s \in SUBSET R |-> h[s]]
<1>1. ASSUME NEW s \in SUBSET R
      PROVE  k[s] = IF s = {} THEN 0
                    ELSE F[Chosen(s)].charge + k[s \ {Chosen(s)}]
  <2>1. CASE s = {}
    BY <2>1, SumsAt
  <2>2. CASE s # {}
    <3> DEFINE x == Chosen(s)
    <3>1. s \in SUBSET S /\ s \ {x} \in SUBSET R
      OBVIOUS
    <3>2. h[s] = F[x].charge + h[s \ {x}]
      BY <2>2, <3>1, SumsAt
    <3>3. k[s] = h[s] /\ k[s \ {x}] = h[s \ {x}]
      BY <3>1, Zenon
    <3> QED BY <2>2, <3>2, <3>3, Zenon
  <2> QED BY <2>1, <2>2
<1>2. k = [s \in SUBSET R |-> k[s]]
  OBVIOUS
<1> HIDE DEF k
<1>3. IsSum(k, F, R)
  BY <1>1, <1>2, Zenon DEF IsSum
<1> QED BY <1>3 DEF k

\* There is such a function for every finite set, by the least that has none.
LEMMA SumsExist ==
    ASSUME NEW F, NEW S, IsFiniteSet(S)
    PROVE  \E g : IsSum(g, F, S)
<1> DEFINE Bad == {n \in Nat : \E X : IsFiniteSet(X) /\ Cardinality(X) = n /\ ~\E g : IsSum(g, F, X)}
<1>1. SUFFICES Bad = {}
  <2>1. Cardinality(S) \in Nat
    BY FS_CardinalityType
  <2> QED BY <2>1
<1>2. SUFFICES ASSUME Bad # {} PROVE FALSE
  OBVIOUS
<1>3. PICK n \in Bad : \A m \in Bad : n <= m
  <2>1. Bad \in SUBSET Nat
    OBVIOUS
  <2> HIDE DEF Bad
  <2> QED BY <1>2, <2>1, LeastMember
<1>4. PICK X : IsFiniteSet(X) /\ Cardinality(X) = n /\ ~\E g : IsSum(g, F, X)
  BY <1>3
<1>5. ASSUME NEW s \in SUBSET X, s # X
      PROVE  IsFiniteSet(s) /\ \E g : IsSum(g, F, s)
  <2>1. /\ IsFiniteSet(s) /\ Cardinality(s) <= n /\ (Cardinality(s) = n => s = X)
        /\ Cardinality(s) \in Nat /\ n \in Nat
    BY <1>4, FS_Subset, FS_CardinalityType
  <2>2. Cardinality(s) \notin Bad
    <3> HIDE DEF Bad
    <3> QED BY <1>3, <1>5, <2>1
  <2> QED BY <2>1, <2>2
<1> DEFINE T(s) == (CHOOSE h : IsSum(h, F, s))[s]
           c(s) == Chosen(s)
           g == [s \in SUBSET X |-> IF s = {} THEN 0
                                    ELSE IF s = X THEN F[c(X)].charge + T(X \ {c(X)}) ELSE T(s)]
<1>6. ASSUME NEW s \in SUBSET X, s # X
      PROVE  IsSum(CHOOSE h : IsSum(h, F, s), F, s)
  BY <1>5, <1>6, Zenon
<1>7. ASSUME NEW s \in SUBSET X, s # X, s # {}
      PROVE  /\ c(s) \in s /\ s \ {c(s)} \in SUBSET X /\ s \ {c(s)} # X
             /\ T(s) = F[c(s)].charge + T(s \ {c(s)})
  <2> DEFINE h == CHOOSE h : IsSum(h, F, s)
             r == s \ {c(s)}
             k == [q \in SUBSET r |-> h[q]]
             i == CHOOSE i : IsSum(i, F, r)
  <2>1. c(s) \in s /\ IsFiniteSet(r) /\ r \in SUBSET s /\ r \in SUBSET X /\ r # X
    BY <1>5, <1>7, ChosenOne
  <2>2. IsSum(h, F, s)
    BY <1>6, <1>7
  <2>3. IsSum(i, F, r)
    BY <1>6, <2>1
  <2> HIDE DEF h, i
  <2>4. IsSum(k, F, r)
    BY <2>1, <2>2, SumsBelow
  <2>5. k[r] = i[r]
    <3> HIDE DEF k
    <3> QED BY <2>1, <2>3, <2>4, SumsUnique
  <2>6. k[r] = h[r]
    OBVIOUS
  <2>7. h[s] = F[c(s)].charge + h[r]
    BY <1>7, <2>2, SumsAt
  <2> QED BY <2>1, <2>5, <2>6, <2>7 DEF h, i
<1>8. T({}) = 0 /\ (X # {} => {} # X)
  <2>1. CASE X = {}
    <3>1. IsSum([s \in SUBSET {} |-> 0], F, {})
      BY DEF IsSum
    <3> QED BY <1>4, <2>1, <3>1
  <2>2. CASE X # {}
    <3>1. IsSum(CHOOSE h : IsSum(h, F, {}), F, {})
      BY <1>6, <2>2
    <3> QED BY <2>2, <3>1, SumsAt
  <2> QED BY <2>1, <2>2
<1>9. ASSUME NEW s \in SUBSET X
      PROVE  g[s] = IF s = {} THEN 0 ELSE F[c(s)].charge + g[s \ {c(s)}]
  <2> HIDE DEF T, c
  <2>1. CASE s = {}
    BY <2>1
  <2>2. CASE s # {} /\ s = X
    <3>1. c(X) \in X
      BY <1>4, <2>2, ChosenOne DEF c
    <3>2. X \ {c(X)} \in SUBSET X /\ X \ {c(X)} # X
      BY <3>1
    <3>3. g[X \ {c(X)}] = T(X \ {c(X)})
      BY <1>8, <3>2, Zenon
    <3> QED BY <2>2, <3>3, Zenon
  <2>3. CASE s # {} /\ s # X
    <3>1. /\ s \ {c(s)} \in SUBSET X /\ s \ {c(s)} # X
          /\ T(s) = F[c(s)].charge + T(s \ {c(s)})
      BY <1>7, <2>3
    <3>2. g[s \ {c(s)}] = T(s \ {c(s)})
      BY <1>8, <3>1, Zenon
    <3> QED BY <2>3, <3>1, <3>2, Zenon
  <2> QED BY <2>1, <2>2, <2>3
<1>10. g = [s \in SUBSET X |-> g[s]]
  OBVIOUS
<1> HIDE DEF g
<1>11. IsSum(g, F, X)
  BY <1>9, <1>10, Zenon DEF IsSum
<1> QED BY <1>4, <1>11

\* The sum over a set, by one of its members and the rest
LEMMA ChargesStep ==
    ASSUME NEW F, NEW S, IsFiniteSet(S)
    PROVE  /\ Charges(F, {}) = 0
           /\ S # {} => \E x \in S : Charges(F, S) = F[x].charge + Charges(F, S \ {x})
<1> DEFINE Sum(X) == CHOOSE g : IsSum(g, F, X)
<1>1. \A X : IsFiniteSet(X) => IsSum(Sum(X), F, X)
  BY SumsExist, Zenon
<1>2. \A X : Charges(F, X) = Sum(X)[X]
  BY ChargesDef
<1> HIDE DEF Sum
<1>3. Charges(F, {}) = 0
  BY <1>1, <1>2, SumsAt, FS_EmptySet
<1>4. ASSUME S # {}
      PROVE  \E x \in S : Charges(F, S) = F[x].charge + Charges(F, S \ {x})
  <2> DEFINE x == Chosen(S)
             r == S \ {x}
             k == [q \in SUBSET r |-> Sum(S)[q]]
  <2>1. x \in S /\ IsFiniteSet(r) /\ r \in SUBSET S
    BY <1>4, ChosenOne
  <2>2. Sum(S)[S] = F[x].charge + Sum(S)[r]
    BY <1>1, <1>4, SumsAt
  <2>3. IsSum(k, F, r)
    BY <1>1, <2>1, SumsBelow
  <2>4. k[r] = Sum(r)[r]
    <3> HIDE DEF k
    <3> QED BY <1>1, <2>1, <2>3, SumsUnique
  <2>5. k[r] = Sum(S)[r]
    OBVIOUS
  <2>6. Charges(F, S) = F[x].charge + Charges(F, r)
    BY <1>2, <2>2, <2>4, <2>5
  <2> QED BY <2>1, <2>6
<1> QED BY <1>3, <1>4

\* It does not matter which handle is counted first.
LEMMA ChargesWithout ==
    ASSUME NEW F, NEW S, IsFiniteSet(S), \A x \in S : F[x].charge \in Nat
    PROVE  /\ Charges(F, S) \in Nat
           /\ \A e \in S : Charges(F, S) = F[e].charge + Charges(F, S \ {e})
                           /\ Charges(F, S \ {e}) \in Nat
<1> DEFINE Fine(X) == /\ Charges(F, X) \in Nat
                      /\ \A e \in X : Charges(F, X) = F[e].charge + Charges(F, X \ {e})
                                      /\ Charges(F, X \ {e}) \in Nat
           Bad == {n \in Nat : \E X \in SUBSET S : Cardinality(X) = n /\ ~Fine(X)}
<1>1. SUFFICES Bad = {}
  <2>1. Cardinality(S) \in Nat
    BY FS_CardinalityType
  <2> QED BY <2>1
<1>2. SUFFICES ASSUME Bad # {} PROVE FALSE
  OBVIOUS
<1>3. PICK n \in Bad : \A m \in Bad : n <= m
  <2>1. Bad \in SUBSET Nat
    OBVIOUS
  <2> HIDE DEF Bad
  <2> QED BY <1>2, <2>1, LeastMember
<1>4. PICK X \in SUBSET S : Cardinality(X) = n /\ ~Fine(X)
  BY <1>3
<1>5. IsFiniteSet(X) /\ n \in Nat
  BY <1>3, <1>4, FS_Subset
<1>6. ASSUME NEW x \in X
      PROVE  Fine(X \ {x})
  <2>1. /\ Cardinality(X \ {x}) \in Nat /\ Cardinality(X \ {x}) < n
        /\ X \ {x} \in SUBSET S
    BY <1>4, <1>5, ChosenOne
  <2>2. Cardinality(X \ {x}) \notin Bad
    <3> HIDE DEF Bad
    <3> QED BY <1>3, <1>5, <2>1
  <2> HIDE DEF Fine
  <2> QED BY <2>1, <2>2
<1>7. X # {}
  <2>1. X = {} => Charges(F, X) = 0
    BY <1>5, ChargesStep
  <2> QED BY <1>4, <2>1
<1>8. PICK x \in X : Charges(F, X) = F[x].charge + Charges(F, X \ {x})
  BY <1>5, <1>7, ChargesStep
<1>9. Charges(F, X) \in Nat
  BY <1>6, <1>8
<1>10. ASSUME NEW e \in X
       PROVE  Charges(F, X) = F[e].charge + Charges(F, X \ {e}) /\ Charges(F, X \ {e}) \in Nat
  <2>1. CASE e = x
    BY <1>6, <1>8, <2>1
  <2>2. CASE e # x
    <3>1. /\ Charges(F, X \ {x}) = F[e].charge + Charges(F, (X \ {x}) \ {e})
          /\ Charges(F, (X \ {x}) \ {e}) \in Nat
      BY <1>6, <2>2
    <3>2. Charges(F, X \ {e}) = F[x].charge + Charges(F, (X \ {e}) \ {x})
          /\ Charges(F, X \ {e}) \in Nat
      BY <1>6, <2>2
    <3>3. (X \ {e}) \ {x} = (X \ {x}) \ {e}
      OBVIOUS
    <3>4. F[x].charge \in Nat /\ F[e].charge \in Nat
      OBVIOUS
    <3>5. PICK c \in Nat : c = Charges(F, (X \ {x}) \ {e})
      BY <3>1
    <3>6. Charges(F, X \ {x}) = F[e].charge + c /\ Charges(F, X \ {e}) = F[x].charge + c
      BY <3>1, <3>2, <3>3, <3>5
    <3>7. Charges(F, X) = F[x].charge + (F[e].charge + c)
      BY <1>8, <3>6
    <3> QED BY <3>2, <3>4, <3>6, <3>7
  <2> QED BY <2>1, <2>2
<1> QED BY <1>4, <1>9, <1>10

\* Only the charges matter, and not what else has changed of the handles.
LEMMA ChargesSame ==
    ASSUME NEW F, NEW G, NEW S, IsFiniteSet(S), \A x \in S : F[x].charge \in Nat,
           \A x \in S : G[x].charge = F[x].charge
    PROVE  Charges(G, S) = Charges(F, S)
<1> DEFINE Bad == {n \in Nat : \E X \in SUBSET S :
                      Cardinality(X) = n /\ Charges(G, X) # Charges(F, X)}
<1>1. SUFFICES Bad = {}
  <2>1. Cardinality(S) \in Nat
    BY FS_CardinalityType
  <2> QED BY <2>1
<1>2. SUFFICES ASSUME Bad # {} PROVE FALSE
  OBVIOUS
<1>3. PICK n \in Bad : \A m \in Bad : n <= m
  <2>1. Bad \in SUBSET Nat
    OBVIOUS
  <2> HIDE DEF Bad
  <2> QED BY <1>2, <2>1, LeastMember
<1>4. PICK X \in SUBSET S : Cardinality(X) = n /\ Charges(G, X) # Charges(F, X)
  BY <1>3
<1>5. IsFiniteSet(X) /\ n \in Nat
  BY <1>3, <1>4, FS_Subset
<1>6. X # {}
  <2>1. Charges(F, {}) = 0 /\ Charges(G, {}) = 0
    BY <1>5, ChargesStep
  <2> QED BY <1>4, <2>1
<1>7. PICK x : x \in X
  BY <1>6
<1>8. Charges(F, X) = F[x].charge + Charges(F, X \ {x})
  BY <1>5, <1>7, ChargesWithout
<1>9. \A y \in X : G[y].charge \in Nat
  OBVIOUS
<1>10. Charges(G, X) = G[x].charge + Charges(G, X \ {x})
  BY <1>5, <1>7, <1>9, ChargesWithout
<1>11. Charges(G, X \ {x}) # Charges(F, X \ {x})
  BY <1>4, <1>7, <1>8, <1>10
<1>12. /\ Cardinality(X \ {x}) \in Nat /\ Cardinality(X \ {x}) < n
       /\ X \ {x} \in SUBSET S
  BY <1>4, <1>5, <1>7, ChosenOne
<1>13. Cardinality(X \ {x}) \in Bad
  BY <1>11, <1>12
<1> HIDE DEF Bad
<1>14. n <= Cardinality(X \ {x})
  BY <1>3, <1>13
<1> QED BY <1>5, <1>12, <1>14

----------------------------------------------------------------------------
(* Lists without duplicates.                                               *)

NoTwice(q) == \A i, j \in 1..Len(q) : q[i] = q[j] => i = j

\* LRU_Remove() takes one handle out of a list without duplicates.
LEMMA RemovedFromList ==
    ASSUME NEW q \in Seq(Nat), NoTwice(q), NEW e \in Nat
    PROVE  /\ LRU_Remove(q, e) \in Seq(Nat) /\ NoTwice(LRU_Remove(q, e))
           /\ ToSet(LRU_Remove(q, e)) = ToSet(q) \ {e}
<1>1. CASE e \notin ToSet(q)
  BY <1>1 DEF LRU_Remove
<1>2. CASE e \in ToSet(q)
  <2> DEFINE r == RemoveAt(q, CHOOSE i \in DOMAIN q : q[i] = e)
  <2>1. PICK i \in 1..Len(q) : q[i] = e /\ r = RemoveAt(q, i)
    <3> DEFINE p == CHOOSE i \in DOMAIN q : q[i] = e
    <3>1. \E i : i \in DOMAIN q /\ q[i] = e
      BY <1>2 DEF ToSet
    <3>2. p \in DOMAIN q /\ q[p] = e
      BY <3>1, Zenon
    <3>3. r = RemoveAt(q, p) /\ DOMAIN q = 1..Len(q)
      OBVIOUS
    <3> HIDE DEF p, r
    <3> QED BY <3>2, <3>3
  <2>2. LRU_Remove(q, e) = r
    BY <1>2 DEF LRU_Remove
  <2>0. PICK n \in Nat : Len(q) = n /\ i \in 1..n
    BY <2>1
  <2> HIDE DEF r
  <2>3. /\ r \in Seq(Nat) /\ Len(r) = Len(q) - 1
        /\ \A j \in 1..Len(r) : r[j] = IF j < i THEN q[j] ELSE q[j + 1]
    <3>1. /\ SubSeq(q, 1, i - 1) \in Seq(Nat) /\ Len(SubSeq(q, 1, i - 1)) = i - 1
          /\ \A j \in 1..i - 1 : SubSeq(q, 1, i - 1)[j] = q[j]
      OBVIOUS
    <3>2. /\ SubSeq(q, i + 1, Len(q)) \in Seq(Nat) /\ Len(SubSeq(q, i + 1, Len(q))) = Len(q) - i
          /\ \A j \in 1..Len(q) - i : SubSeq(q, i + 1, Len(q))[j] = q[i + j]
      OBVIOUS
    <3>3. r = SubSeq(q, 1, i - 1) \o SubSeq(q, i + 1, Len(q))
      BY <2>1 DEF RemoveAt
    <3> DEFINE a == SubSeq(q, 1, i - 1)
               b == SubSeq(q, i + 1, Len(q))
    <3> HIDE DEF a, b
    <3>4. /\ a \in Seq(Nat) /\ Len(a) = i - 1 /\ \A j \in 1..i - 1 : a[j] = q[j]
          /\ b \in Seq(Nat) /\ Len(b) = Len(q) - i /\ \A j \in 1..Len(q) - i : b[j] = q[i + j]
          /\ r = a \o b
      BY <3>1, <3>2, <3>3 DEF a, b
    <3>5. /\ r \in Seq(Nat) /\ Len(r) = Len(q) - 1
          /\ \A j \in 1..Len(r) : r[j] = IF j <= Len(a) THEN a[j] ELSE b[j - Len(a)]
      <4>1. /\ r \in Seq(Nat) /\ Len(r) = Len(a) + Len(b)
            /\ \A j \in 1..Len(a) + Len(b) : r[j] = IF j <= Len(a) THEN a[j] ELSE b[j - Len(a)]
        BY <3>4, ConcatProperties
      <4>2. Len(a) + Len(b) = n - 1 /\ Len(q) - 1 = n - 1 /\ n - 1 \in Nat
        BY <2>0, <3>4
      <4> HIDE DEF a, b, r
      <4> QED BY <4>1, <4>2
    <3>6. ASSUME NEW j \in 1..Len(r)
          PROVE  r[j] = IF j < i THEN q[j] ELSE q[j + 1]
      <4>0. j \in 1..n - 1 /\ Len(a) = i - 1
            /\ r[j] = IF j <= Len(a) THEN a[j] ELSE b[j - Len(a)]
        BY <2>0, <3>4, <3>5
      <4>1. CASE j < i
        BY <2>0, <3>4, <4>0, <4>1
      <4>2. CASE j >= i
        <5>1. r[j] = b[j - Len(a)] /\ j - Len(a) \in 1..Len(q) - i
          BY <2>0, <4>0, <4>2
        <5>2. b[j - Len(a)] = q[i + (j - Len(a))]
          BY <3>4, <5>1
        <5>3. i + (j - Len(a)) = j + 1
          BY <2>0, <4>0
        <5> QED BY <2>0, <4>0, <4>2, <5>1, <5>2, <5>3
      <4> QED BY <4>1, <4>2
    <3> QED BY <3>5, <3>6
  <2>4. NoTwice(r)
    <3> SUFFICES ASSUME NEW j \in 1..Len(r), NEW k \in 1..Len(r), r[j] = r[k] PROVE j = k
      BY DEF NoTwice
    <3> DEFINE at(m) == IF m < i THEN m ELSE m + 1
    <3>1. ASSUME NEW m \in 1..Len(r)
          PROVE  at(m) \in 1..Len(q) /\ q[at(m)] = r[m]
      <4>1. m \in 1..n - 1 /\ r[m] = IF m < i THEN q[m] ELSE q[m + 1]
        BY <2>0, <2>3
      <4> QED BY <2>0, <4>1
    <3>2. at(j) = at(k)
      <4> HIDE DEF at
      <4>1. at(j) \in 1..Len(q) /\ at(k) \in 1..Len(q) /\ q[at(j)] = q[at(k)]
        BY <3>1
      <4> QED BY <4>1 DEF NoTwice
    <3> QED BY <3>2
  <2>5. ToSet(r) \subseteq ToSet(q) \ {e}
    <3> SUFFICES ASSUME NEW j \in 1..Len(r) PROVE r[j] \in ToSet(q) \ {e}
      BY <2>3 DEF ToSet
    <3>0. \A m \in 1..Len(q) : m # i => q[m] \in ToSet(q) \ {e}
      BY <2>1 DEF ToSet, NoTwice
    <3>1. CASE j < i
      BY <2>3, <3>0, <3>1
    <3>2. CASE j >= i
      <4>1. j \in 1..n - 1 /\ r[j] = q[j + 1]
        BY <2>0, <2>3, <3>2
      <4>2. j + 1 \in 1..Len(q) /\ j + 1 # i
        BY <2>0, <3>2, <4>1
      <4> QED BY <3>0, <4>1, <4>2
    <3> QED BY <2>0, <3>1, <3>2
  <2>6. ToSet(q) \ {e} \subseteq ToSet(r)
    <3> SUFFICES ASSUME NEW j \in 1..Len(q), q[j] # e PROVE q[j] \in ToSet(r)
      BY DEF ToSet
    <3>1. CASE j < i
      <4>1. j \in 1..Len(r) /\ r[j] = q[j]
        BY <2>3, <3>1
      <4> QED BY <2>3, <4>1 DEF ToSet
    <3>2. CASE j > i
      <4>1. j - 1 \in 1..Len(r) /\ r[j - 1] = q[j]
        BY <2>3, <3>2
      <4> QED BY <2>3, <4>1 DEF ToSet
    <3> QED BY <2>1, <3>1, <3>2
  <2> QED BY <2>2, <2>3, <2>4, <2>5, <2>6
<1> QED BY <1>1, <1>2

\* LRU_Append() of a handle that is not on the list
LEMMA AppendedToList ==
    ASSUME NEW q \in Seq(Nat), NoTwice(q), NEW e \in Nat, e \notin ToSet(q)
    PROVE  /\ Append(q, e) \in Seq(Nat) /\ NoTwice(Append(q, e))
           /\ ToSet(Append(q, e)) = ToSet(q) \cup {e}
<1> DEFINE r == Append(q, e)
<1>1. /\ r \in Seq(Nat) /\ Len(r) = Len(q) + 1 /\ r[Len(q) + 1] = e
      /\ \A i \in 1..Len(q) : r[i] = q[i]
  OBVIOUS
<1> HIDE DEF r
<1>2. NoTwice(r)
  <2>1. \A i \in 1..Len(q) : r[i] # e
    BY <1>1 DEF ToSet
  <2> SUFFICES ASSUME NEW i \in 1..Len(r), NEW j \in 1..Len(r), r[i] = r[j] PROVE i = j
    BY DEF NoTwice
  <2>2. CASE i <= Len(q) /\ j <= Len(q)
    <3>1. i \in 1..Len(q) /\ j \in 1..Len(q) /\ q[i] = q[j]
      BY <1>1, <2>2
    <3> QED BY <3>1 DEF NoTwice
  <2>3. CASE i <= Len(q) /\ j = Len(q) + 1
    BY <1>1, <2>1, <2>3
  <2>4. CASE i = Len(q) + 1 /\ j <= Len(q)
    BY <1>1, <2>1, <2>4
  <2> QED BY <1>1, <2>2, <2>3, <2>4
<1>3. ToSet(r) \subseteq ToSet(q) \cup {e}
  BY <1>1 DEF ToSet
<1>4. ToSet(q) \cup {e} \subseteq ToSet(r)
  <2>1. DOMAIN r = 1..Len(q) + 1 /\ DOMAIN q = 1..Len(q)
    BY <1>1
  <2>2. \A i \in 1..Len(q) : i \in DOMAIN r /\ r[i] = q[i]
    BY <1>1, <2>1
  <2>3. Len(q) + 1 \in DOMAIN r
    BY <2>1
  <2> QED BY <1>1, <2>1, <2>2, <2>3 DEF ToSet
<1> QED BY <1>1, <1>2, <1>3, <1>4 DEF r

----------------------------------------------------------------------------
(* A shard.                                                                *)

Partial(S, T) == UNION {[D -> T] : D \in SUBSET S}

Handle(K, V) == [key : K, value : V, charge : Nat, in_cache : BOOLEAN, refs : Nat \ {0}]
Shards(K, V) == [handles : Partial(Nat, Handle(K, V)), lru : Seq(Nat), in_use : SUBSET Nat,
                 table : Partial(K, Nat), usage : Nat, capacity : Nat, last : Nat]

InCache(c) == {e \in DOMAIN c.handles : c.handles[e].in_cache}

ShardType(c, K, V) == c \in Shards(K, V) /\ DOMAIN c.handles \subseteq 1..c.last

\* H says how many references clients have to each handle.
CountsInv(c, H) ==
    /\ H \in [Nat -> Nat] /\ \A e \in Nat \ DOMAIN c.handles : H[e] = 0
    /\ \A e \in DOMAIN c.handles : c.handles[e].refs = H[e] + IF c.handles[e].in_cache THEN 1 ELSE 0

\* Those in L have left the hash table, and are about to leave the cache.
TableInv(c, L) ==
    /\ \A k \in DOMAIN c.table : c.table[k] \in InCache(c) \ L /\ c.handles[c.table[k]].key = k
    /\ \A e \in InCache(c) \ L : LET k == c.handles[e].key IN k \in DOMAIN c.table /\ c.table[k] = e

ListsInv(c) ==
    /\ NoTwice(c.lru) /\ ToSet(c.lru) = {e \in InCache(c) : c.handles[e].refs = 1}
    /\ c.in_use = {e \in InCache(c) : c.handles[e].refs > 1}

ShardInv(c, H, L, K, V) ==
    /\ ShardType(c, K, V) /\ CountsInv(c, H) /\ TableInv(c, L) /\ ListsInv(c)
    /\ c.usage = Charges(c.handles, InCache(c))

\* Handles go, and those that stay keep what they are for.
Shrinks(c, d) ==
    /\ DOMAIN d.handles \subseteq DOMAIN c.handles
    /\ \A e \in DOMAIN d.handles : /\ d.handles[e].key = c.handles[e].key
                                   /\ d.handles[e].value = c.handles[e].value
    /\ InCache(d) \subseteq InCache(c)
    /\ d.capacity = c.capacity /\ d.last = c.last /\ d.usage <= c.usage

\* Functions from a part of S to T, without unions of function sets
LEMMA PartialIs ==
    ASSUME NEW S, NEW T, NEW f
    PROVE  f \in Partial(S, T) <=> /\ f = [x \in DOMAIN f |-> f[x]] /\ DOMAIN f \subseteq S
                                   /\ \A x \in DOMAIN f : f[x] \in T
<1>1. ASSUME f \in Partial(S, T)
      PROVE  /\ f = [x \in DOMAIN f |-> f[x]] /\ DOMAIN f \subseteq S
             /\ \A x \in DOMAIN f : f[x] \in T
  <2>1. PICK D \in SUBSET S : f \in [D -> T]
    BY <1>1, Zenon DEF Partial
  <2> QED BY <2>1
<1>2. ASSUME f = [x \in DOMAIN f |-> f[x]], DOMAIN f \subseteq S, \A x \in DOMAIN f : f[x] \in T
      PROVE  f \in Partial(S, T)
  <2>1. f \in [DOMAIN f -> T] /\ DOMAIN f \in SUBSET S
    BY <1>2
  <2> QED BY <2>1, Zenon DEF Partial
<1> QED BY <1>1, <1>2

\* HandleTable::Insert() keeps the type of the table.
LEMMA PutPartial ==
    ASSUME NEW S, NEW T, NEW f \in Partial(S, T), NEW x \in S, NEW y \in T
    PROVE  Put(f, x, y) \in Partial(S, T)
<1> DEFINE g == Put(f, x, y)
<1>1. /\ g = [z \in DOMAIN g |-> g[z]] /\ DOMAIN g = DOMAIN f \cup {x}
      /\ g[x] = y /\ \A z \in DOMAIN f \ {x} : g[z] = f[z]
  BY DEF Put
<1> HIDE DEF g
<1> QED BY <1>1, PartialIs DEF g

\* HandleTable::Remove() keeps what other keys have.
LEMMA RemovedIs ==
    \A f, x : /\ DOMAIN Removed(f, x) = DOMAIN f \ {x}
              /\ \A z \in DOMAIN f \ {x} : Removed(f, x)[z] = f[z]
BY DEF Removed

\* HandleTable::Remove() keeps the type of the table.
LEMMA RemovedPartial ==
    ASSUME NEW S, NEW T, NEW f \in Partial(S, T), NEW x
    PROVE  Removed(f, x) \in Partial(S, T)
<1> DEFINE g == Removed(f, x)
<1>1. /\ g = [z \in DOMAIN g |-> g[z]] /\ DOMAIN g = DOMAIN f \ {x}
      /\ \A z \in DOMAIN f \ {x} : g[z] = f[z]
  BY DEF Removed
<1> HIDE DEF g
<1> QED BY <1>1, PartialIs DEF g

\* A handle that is changed, among the others
LEMMA ChangedPartial ==
    ASSUME NEW S, NEW T, NEW f \in Partial(S, T), NEW x \in DOMAIN f, NEW y \in T
    PROVE  /\ [f EXCEPT ![x] = y] \in Partial(S, T) /\ DOMAIN [f EXCEPT ![x] = y] = DOMAIN f
           /\ [f EXCEPT ![x] = y][x] = y /\ \A z \in DOMAIN f \ {x} : [f EXCEPT ![x] = y][z] = f[z]
<1> DEFINE g == [f EXCEPT ![x] = y]
<1>1. /\ g = [z \in DOMAIN g |-> g[z]] /\ DOMAIN g = DOMAIN f
      /\ g[x] = y /\ \A z \in DOMAIN f \ {x} : g[z] = f[z]
  OBVIOUS
<1> HIDE DEF g
<1>2. DOMAIN g \subseteq S /\ \A z \in DOMAIN g : g[z] \in T
  BY <1>1, PartialIs
<1> QED BY <1>1, <1>2, PartialIs DEF g

\* The types of the fields of a shard
LEMMA HandlesAre ==
    ASSUME NEW K, NEW V, NEW c, ShardType(c, K, V)
    PROVE  /\ c.handles \in Partial(Nat, Handle(K, V)) /\ c.table \in Partial(K, Nat)
           /\ c.lru \in Seq(Nat) /\ c.in_use \in SUBSET Nat /\ c.usage \in Nat
           /\ c.capacity \in Nat /\ c.last \in Nat
           /\ IsFiniteSet(DOMAIN c.handles) /\ IsFiniteSet(InCache(c))
           /\ \A e \in DOMAIN c.handles : /\ e \in Nat /\ c.handles[e] \in Handle(K, V)
                                          /\ c.handles[e].charge \in Nat
           /\ \A k \in DOMAIN c.table : k \in K /\ c.table[k] \in Nat
<1>1. /\ c.handles \in Partial(Nat, Handle(K, V)) /\ c.table \in Partial(K, Nat)
      /\ c.lru \in Seq(Nat) /\ c.in_use \in SUBSET Nat /\ c.usage \in Nat
      /\ c.capacity \in Nat /\ c.last \in Nat /\ DOMAIN c.handles \subseteq 1..c.last
  BY DEF ShardType, Shards
<1>2. IsFiniteSet(1..c.last)
  BY <1>1, FS_Interval
<1>3. IsFiniteSet(DOMAIN c.handles)
  BY <1>1, <1>2, FS_Subset
<1>4. InCache(c) \subseteq DOMAIN c.handles
  BY DEF InCache
<1>5. IsFiniteSet(InCache(c))
  BY <1>3, <1>4, FS_Subset
<1>6. \A e \in DOMAIN c.handles : e \in Nat /\ c.handles[e] \in Handle(K, V)
  BY <1>1, PartialIs
<1>7. \A k \in DOMAIN c.table : k \in K /\ c.table[k] \in Nat
  BY <1>1, PartialIs
<1>8. \A e \in DOMAIN c.handles : c.handles[e].charge \in Nat
  BY <1>6 DEF Handle
<1> QED BY <1>1, <1>3, <1>5, <1>6, <1>7, <1>8

\* What a client may do with a handle that it has
LEMMA HeldIsThere ==
    ASSUME NEW K, NEW V, NEW c, NEW H, NEW L, ShardInv(c, H, L, K, V), NEW e \in Nat, H[e] > 0
    PROVE  e \in DOMAIN c.handles /\ c.handles[e].refs >= 1
<1> QED BY DEF ShardInv, CountsInv

\* Ref() of a handle that is in the cache counts one holder more.
LEMMA RefInv ==
    ASSUME NEW K, NEW V, NEW c, NEW H, ShardInv(c, H, {}, K, V), NEW e \in InCache(c)
    PROVE  /\ ShardInv(Ref(c, e), [H EXCEPT ![e] = @ + 1], {}, K, V)
           /\ Shrinks(c, Ref(c, e)) /\ DOMAIN Ref(c, e).handles = DOMAIN c.handles
<1> DEFINE d == Ref(c, e)
           h == [c.handles[e] EXCEPT !.refs = @ + 1]
           G == [H EXCEPT ![e] = @ + 1]
<1>1. ShardType(c, K, V) /\ CountsInv(c, H) /\ TableInv(c, {}) /\ ListsInv(c)
      /\ c.usage = Charges(c.handles, InCache(c))
  BY DEF ShardInv
<1>2. /\ e \in DOMAIN c.handles /\ e \in Nat /\ c.handles[e].in_cache
      /\ c.handles[e] \in Handle(K, V)
  BY <1>1, HandlesAre DEF InCache
<1>3. /\ h \in Handle(K, V) /\ h.refs = c.handles[e].refs + 1 /\ h.in_cache
      /\ h.key = c.handles[e].key /\ h.value = c.handles[e].value /\ h.charge = c.handles[e].charge
  BY <1>2 DEF Handle
<1>4. /\ d.handles = [c.handles EXCEPT ![e] = h]
      /\ d.lru = (IF c.handles[e].refs = 1 THEN LRU_Remove(c.lru, e) ELSE c.lru)
      /\ d.in_use = (IF c.handles[e].refs = 1 THEN c.in_use \cup {e} ELSE c.in_use)
      /\ d.table = c.table /\ d.usage = c.usage /\ d.capacity = c.capacity /\ d.last = c.last
      /\ d = [handles |-> d.handles, lru |-> d.lru, in_use |-> d.in_use, table |-> d.table,
              usage |-> d.usage, capacity |-> d.capacity, last |-> d.last]
  <2> DEFINE u == c.handles[e].refs = 1
  <2>1. c = [handles |-> c.handles, lru |-> c.lru, in_use |-> c.in_use, table |-> c.table,
             usage |-> c.usage, capacity |-> c.capacity, last |-> c.last]
    BY <1>1 DEF ShardType, Shards
  <2>2. d = [c EXCEPT !.handles = [c.handles EXCEPT ![e] = h],
                      !.lru = IF u THEN LRU_Remove(c.lru, e) ELSE c.lru,
                      !.in_use = IF u THEN c.in_use \cup {e} ELSE c.in_use]
    BY <1>2, <2>1 DEF Ref
  <2> HIDE DEF d, h
  <2> QED BY <2>1, <2>2
<1> HIDE DEF d, h
<1>5. /\ d.handles \in Partial(Nat, Handle(K, V)) /\ DOMAIN d.handles = DOMAIN c.handles
      /\ d.handles[e] = h /\ \A x \in DOMAIN c.handles \ {e} : d.handles[x] = c.handles[x]
  BY <1>1, <1>2, <1>3, <1>4, HandlesAre, ChangedPartial
<1>6. InCache(d) = InCache(c)
  BY <1>2, <1>3, <1>5 DEF InCache
<1>7. d.lru \in Seq(Nat) /\ NoTwice(d.lru)
      /\ ToSet(d.lru) = (IF c.handles[e].refs = 1 THEN ToSet(c.lru) \ {e} ELSE ToSet(c.lru))
  <2>1. c.lru \in Seq(Nat) /\ NoTwice(c.lru)
    BY <1>1, HandlesAre DEF ListsInv
  <2>2. LET q == LRU_Remove(c.lru, e) IN
            q \in Seq(Nat) /\ NoTwice(q) /\ ToSet(q) = ToSet(c.lru) \ {e}
    BY <1>2, <2>1, RemovedFromList
  <2> QED BY <1>4, <2>1, <2>2
<1>8. ShardType(d, K, V)
  <2>1. d.in_use \in SUBSET Nat
    BY <1>1, <1>2, <1>4, HandlesAre
  <2>2. /\ d.handles \in Partial(Nat, Handle(K, V)) /\ d.lru \in Seq(Nat)
        /\ d.table \in Partial(K, Nat) /\ d.usage \in Nat /\ d.capacity \in Nat /\ d.last \in Nat
    BY <1>1, <1>4, <1>5, <1>7, HandlesAre
  <2>3. d \in Shards(K, V)
    BY <1>4, <2>1, <2>2 DEF Shards
  <2> QED BY <1>1, <1>4, <1>5, <2>3 DEF ShardType
<1>9. CountsInv(d, G)
  BY <1>1, <1>2, <1>3, <1>5 DEF CountsInv
<1>10. TableInv(d, {})
  <2>1. \A x \in DOMAIN c.handles : d.handles[x].key = c.handles[x].key
    BY <1>3, <1>5
  <2> QED BY <1>1, <1>4, <1>6, <2>1 DEF TableInv, InCache
<1>11. ListsInv(d)
  <2>1. c.handles[e].refs \in Nat \ {0} /\ \A x \in DOMAIN c.handles : c.handles[x].refs \in Nat \ {0}
    BY <1>1, <1>2, HandlesAre DEF Handle
  <2>2. {x \in InCache(d) : d.handles[x].refs = 1} = {x \in InCache(c) : c.handles[x].refs = 1} \ {e}
    BY <1>3, <1>5, <1>6, <2>1 DEF InCache
  <2>3. {x \in InCache(d) : d.handles[x].refs > 1} = {x \in InCache(c) : c.handles[x].refs > 1} \cup {e}
    BY <1>2, <1>3, <1>5, <1>6, <2>1 DEF InCache
  <2> QED BY <1>1, <1>2, <1>4, <1>7, <2>1, <2>2, <2>3 DEF ListsInv, InCache
<1>12. d.usage = Charges(d.handles, InCache(d))
  <2>1. \A x \in InCache(c) : c.handles[x].charge \in Nat /\ d.handles[x].charge = c.handles[x].charge
    BY <1>1, <1>3, <1>5, HandlesAre DEF InCache
  <2>2. Charges(d.handles, InCache(c)) = Charges(c.handles, InCache(c))
    BY <1>1, <2>1, HandlesAre, ChargesSame
  <2> QED BY <1>1, <1>4, <1>6, <2>2
<1>13. Shrinks(c, d)
  <2>1. d.usage <= c.usage
    BY <1>1, <1>4, HandlesAre
  <2> QED BY <1>3, <1>4, <1>5, <1>6, <2>1 DEF Shrinks
<1> QED BY <1>5, <1>8, <1>9, <1>10, <1>11, <1>12, <1>13 DEF ShardInv, d

\* A shard is its fields.
LEMMA ShardIs ==
    ASSUME NEW K, NEW V, NEW c, ShardType(c, K, V)
    PROVE  c = [handles |-> c.handles, lru |-> c.lru, in_use |-> c.in_use, table |-> c.table,
                usage |-> c.usage, capacity |-> c.capacity, last |-> c.last]
BY DEF ShardType, Shards

\* Unref() of the last reference: the handle is freed.
LEMMA LastUnrefInv ==
    ASSUME NEW K, NEW V, NEW c, NEW H, ShardInv(c, H, {}, K, V), NEW e \in Nat, H[e] > 0,
           c.handles[e].refs = 1
    PROVE  /\ ShardInv(Unref(c, e), [H EXCEPT ![e] = @ - 1], {}, K, V)
           /\ Shrinks(c, Unref(c, e)) /\ DOMAIN Unref(c, e).handles = DOMAIN c.handles \ {e}
<1> DEFINE d == Unref(c, e)
           G == [H EXCEPT ![e] = @ - 1]
<1>1. ShardType(c, K, V) /\ CountsInv(c, H) /\ TableInv(c, {}) /\ ListsInv(c)
      /\ c.usage = Charges(c.handles, InCache(c))
  BY DEF ShardInv
<1>2. /\ e \in DOMAIN c.handles /\ e \in Nat /\ H[e] \in Nat /\ H[e] = 1
      /\ c.handles[e].in_cache = FALSE /\ c.handles[e] \in Handle(K, V)
  <2>1. e \in DOMAIN c.handles /\ H[e] \in Nat
    BY <1>1 DEF CountsInv
  <2>2. c.handles[e] \in Handle(K, V) /\ c.handles[e].in_cache \in BOOLEAN
    BY <1>1, <2>1, HandlesAre DEF Handle
  <2> QED BY <1>1, <2>1, <2>2 DEF CountsInv
<1>3. /\ d.handles = Removed(c.handles, e) /\ d.lru = c.lru /\ d.in_use = c.in_use
      /\ d.table = c.table /\ d.usage = c.usage /\ d.capacity = c.capacity /\ d.last = c.last
      /\ d = [handles |-> d.handles, lru |-> d.lru, in_use |-> d.in_use, table |-> d.table,
              usage |-> d.usage, capacity |-> d.capacity, last |-> d.last]
  <2>1. d = [c EXCEPT !.handles = Removed(c.handles, e)]
    BY <1>1, ShardIs DEF Unref
  <2> HIDE DEF d
  <2> QED BY <1>1, <2>1, ShardIs
<1> HIDE DEF d
<1>4. /\ d.handles \in Partial(Nat, Handle(K, V)) /\ DOMAIN d.handles = DOMAIN c.handles \ {e}
      /\ \A x \in DOMAIN c.handles \ {e} : d.handles[x] = c.handles[x]
  <2>1. c.handles \in Partial(Nat, Handle(K, V))
    BY <1>1, HandlesAre
  <2>2. d.handles \in Partial(Nat, Handle(K, V))
    BY <1>3, <2>1, RemovedPartial
  <2>3. DOMAIN d.handles = DOMAIN c.handles \ {e}
    BY <1>3, RemovedIs
  <2>4. \A x \in DOMAIN c.handles \ {e} : d.handles[x] = c.handles[x]
    BY <1>3, RemovedIs
  <2> QED BY <2>2, <2>3, <2>4
<1>5. InCache(d) = InCache(c)
  BY <1>2, <1>4 DEF InCache
<1>6. \A x \in InCache(c) : x \in DOMAIN c.handles /\ d.handles[x] = c.handles[x]
  BY <1>2, <1>4 DEF InCache
<1>7. ShardType(d, K, V)
  <2>1. /\ d.handles \in Partial(Nat, Handle(K, V)) /\ d.lru \in Seq(Nat) /\ d.in_use \in SUBSET Nat
        /\ d.table \in Partial(K, Nat) /\ d.usage \in Nat /\ d.capacity \in Nat /\ d.last \in Nat
    BY <1>1, <1>3, <1>4, HandlesAre
  <2>2. d \in Shards(K, V)
    BY <1>3, <2>1 DEF Shards
  <2> QED BY <1>1, <1>3, <1>4, <2>2 DEF ShardType
<1>8. CountsInv(d, G)
  BY <1>1, <1>2, <1>4 DEF CountsInv
<1>9. TableInv(d, {})
  BY <1>1, <1>3, <1>5, <1>6 DEF TableInv
<1>10. ListsInv(d)
  BY <1>1, <1>3, <1>5, <1>6 DEF ListsInv
<1>11. d.usage = Charges(d.handles, InCache(d))
  <2>1. \A x \in InCache(c) : c.handles[x].charge \in Nat
    BY <1>1, HandlesAre DEF InCache
  <2>2. Charges(d.handles, InCache(c)) = Charges(c.handles, InCache(c))
    BY <1>1, <1>6, <2>1, HandlesAre, ChargesSame
  <2> QED BY <1>1, <1>3, <1>5, <2>2
<1>12. Shrinks(c, d)
  <2>1. d.usage <= c.usage
    BY <1>1, <1>3, HandlesAre
  <2> QED BY <1>3, <1>4, <1>5, <2>1 DEF Shrinks
<1> QED BY <1>4, <1>7, <1>8, <1>9, <1>10, <1>11, <1>12 DEF ShardInv, d

\* Unref() of another one: the handle may go to lru_.
LEMMA OtherUnrefInv ==
    ASSUME NEW K, NEW V, NEW c, NEW H, ShardInv(c, H, {}, K, V), NEW e \in Nat, H[e] > 0,
           c.handles[e].refs # 1
    PROVE  /\ ShardInv(Unref(c, e), [H EXCEPT ![e] = @ - 1], {}, K, V)
           /\ Shrinks(c, Unref(c, e)) /\ DOMAIN Unref(c, e).handles = DOMAIN c.handles
<1> DEFINE d == Unref(c, e)
           G == [H EXCEPT ![e] = @ - 1]
           h == [c.handles[e] EXCEPT !.refs = @ - 1]
           u == c.handles[e].in_cache /\ c.handles[e].refs = 2
<1>1. ShardType(c, K, V) /\ CountsInv(c, H) /\ TableInv(c, {}) /\ ListsInv(c)
      /\ c.usage = Charges(c.handles, InCache(c))
  BY DEF ShardInv
<1>2. /\ e \in DOMAIN c.handles /\ H[e] \in Nat /\ c.handles[e] \in Handle(K, V)
      /\ c.handles[e].refs \in Nat /\ c.handles[e].refs >= 2
  <2>1. e \in DOMAIN c.handles /\ H[e] \in Nat
    BY <1>1 DEF CountsInv
  <2>2. c.handles[e] \in Handle(K, V) /\ c.handles[e].refs \in Nat \ {0}
    BY <1>1, <2>1, HandlesAre DEF Handle
  <2> QED BY <2>1, <2>2
<1>3. /\ h \in Handle(K, V) /\ h.refs = c.handles[e].refs - 1 /\ h.in_cache = c.handles[e].in_cache
      /\ h.key = c.handles[e].key /\ h.value = c.handles[e].value /\ h.charge = c.handles[e].charge
  BY <1>2 DEF Handle
<1>4. /\ d.handles = [c.handles EXCEPT ![e] = h]
      /\ d.lru = (IF u THEN Append(c.lru, e) ELSE c.lru)
      /\ d.in_use = (IF u THEN c.in_use \ {e} ELSE c.in_use)
      /\ d.table = c.table /\ d.usage = c.usage /\ d.capacity = c.capacity /\ d.last = c.last
      /\ d = [handles |-> d.handles, lru |-> d.lru, in_use |-> d.in_use, table |-> d.table,
              usage |-> d.usage, capacity |-> d.capacity, last |-> d.last]
  <2>1. d = [c EXCEPT !.handles = [c.handles EXCEPT ![e] = h],
                      !.lru = IF u THEN Append(c.lru, e) ELSE c.lru,
                      !.in_use = IF u THEN c.in_use \ {e} ELSE c.in_use]
    BY <1>1, <1>2, ShardIs DEF Unref
  <2>2. c = [handles |-> c.handles, lru |-> c.lru, in_use |-> c.in_use, table |-> c.table,
             usage |-> c.usage, capacity |-> c.capacity, last |-> c.last]
    BY <1>1, ShardIs
  <2> HIDE DEF d, h
  <2> QED BY <2>1, <2>2
<1> HIDE DEF d, h
<1>5. /\ d.handles \in Partial(Nat, Handle(K, V)) /\ DOMAIN d.handles = DOMAIN c.handles
      /\ d.handles[e] = h /\ \A x \in DOMAIN c.handles \ {e} : d.handles[x] = c.handles[x]
  BY <1>1, <1>2, <1>3, <1>4, HandlesAre, ChangedPartial
<1>6. InCache(d) = InCache(c)
  BY <1>2, <1>3, <1>5 DEF InCache
<1>7. d.lru \in Seq(Nat) /\ NoTwice(d.lru)
      /\ ToSet(d.lru) = (IF u THEN ToSet(c.lru) \cup {e} ELSE ToSet(c.lru))
  <2>1. c.lru \in Seq(Nat) /\ NoTwice(c.lru) /\ e \notin ToSet(c.lru)
    BY <1>1, <1>2, HandlesAre DEF ListsInv
  <2>2. LET q == Append(c.lru, e) IN
            q \in Seq(Nat) /\ NoTwice(q) /\ ToSet(q) = ToSet(c.lru) \cup {e}
    BY <2>1, AppendedToList
  <2> QED BY <1>4, <2>1, <2>2
<1>8. ShardType(d, K, V)
  <2>1. d.in_use \in SUBSET Nat
    BY <1>1, <1>2, <1>4, HandlesAre
  <2>2. /\ d.handles \in Partial(Nat, Handle(K, V)) /\ d.lru \in Seq(Nat)
        /\ d.table \in Partial(K, Nat) /\ d.usage \in Nat /\ d.capacity \in Nat /\ d.last \in Nat
    BY <1>1, <1>4, <1>5, <1>7, HandlesAre
  <2>3. d \in Shards(K, V)
    BY <1>4, <2>1, <2>2 DEF Shards
  <2> QED BY <1>1, <1>4, <1>5, <2>3 DEF ShardType
<1>9. CountsInv(d, G)
  BY <1>1, <1>2, <1>3, <1>5 DEF CountsInv
<1>10. TableInv(d, {})
  <2>1. \A x \in DOMAIN c.handles : d.handles[x].key = c.handles[x].key
    BY <1>3, <1>5
  <2> QED BY <1>1, <1>4, <1>6, <2>1 DEF TableInv, InCache
<1>11. ListsInv(d)
  <2>1. \A x \in DOMAIN c.handles : c.handles[x].refs \in Nat \ {0}
    BY <1>1, HandlesAre DEF Handle
  <2>2. {x \in InCache(d) : d.handles[x].refs = 1}
            = {x \in InCache(c) : c.handles[x].refs = 1} \cup (IF u THEN {e} ELSE {})
    BY <1>2, <1>3, <1>5, <1>6, <2>1 DEF InCache
  <2>3. {x \in InCache(d) : d.handles[x].refs > 1}
            = {x \in InCache(c) : c.handles[x].refs > 1} \ (IF u THEN {e} ELSE {})
    BY <1>2, <1>3, <1>5, <1>6, <2>1 DEF InCache
  <2> HIDE DEF u
  <2> QED BY <1>1, <1>4, <1>7, <2>2, <2>3 DEF ListsInv
<1>12. d.usage = Charges(d.handles, InCache(d))
  <2>1. \A x \in InCache(c) : c.handles[x].charge \in Nat /\ d.handles[x].charge = c.handles[x].charge
    BY <1>1, <1>3, <1>5, HandlesAre DEF InCache
  <2>2. Charges(d.handles, InCache(c)) = Charges(c.handles, InCache(c))
    BY <1>1, <2>1, HandlesAre, ChargesSame
  <2> QED BY <1>1, <1>4, <1>6, <2>2
<1>13. Shrinks(c, d)
  <2>1. d.usage <= c.usage
    BY <1>1, <1>4, HandlesAre
  <2> QED BY <1>3, <1>4, <1>5, <1>6, <2>1 DEF Shrinks
<1> QED BY <1>5, <1>8, <1>9, <1>10, <1>11, <1>12, <1>13 DEF ShardInv, d

\* Unref() by one of its holders counts one holder less and frees no other handle.
LEMMA UnrefInv ==
    ASSUME NEW K, NEW V, NEW c, NEW H, ShardInv(c, H, {}, K, V), NEW e \in Nat, H[e] > 0
    PROVE  /\ ShardInv(Unref(c, e), [H EXCEPT ![e] = @ - 1], {}, K, V) /\ Shrinks(c, Unref(c, e))
           /\ DOMAIN c.handles \ DOMAIN Unref(c, e).handles \subseteq {e}
BY LastUnrefInv, OtherUnrefInv

\* d is what is left of a shard when e has left the cache.
IsLeft(c, d, e) ==
    /\ d = [handles |-> d.handles, lru |-> LRU_Remove(c.lru, e), in_use |-> c.in_use \ {e},
            table |-> c.table, usage |-> c.usage - c.handles[e].charge,
            capacity |-> c.capacity, last |-> c.last]
    /\ DOMAIN d.handles = IF c.handles[e].refs = 1 THEN DOMAIN c.handles \ {e} ELSE DOMAIN c.handles
    /\ \A x \in DOMAIN c.handles \ {e} : d.handles[x] = c.handles[x]
    /\ c.handles[e].refs # 1 =>
          /\ ~d.handles[e].in_cache /\ d.handles[e].refs = c.handles[e].refs - 1
          /\ d.handles[e].key = c.handles[e].key /\ d.handles[e].value = c.handles[e].value

\* What FinishErase() does to each field of the shard
LEMMA FinishEraseIs ==
    ASSUME NEW K, NEW V, NEW c, ShardType(c, K, V), NEW e \in InCache(c),
           NEW d, d = FinishErase(c, e)
    PROVE  IsLeft(c, d, e) /\ d.handles \in Partial(Nat, Handle(K, V))
<1> DEFINE g == [c.handles[e] EXCEPT !.in_cache = FALSE]
           h == [g EXCEPT !.refs = @ - 1]
           b == [c EXCEPT !.lru = LRU_Remove(@, e), !.in_use = @ \ {e},
                          !.handles[e].in_cache = FALSE, !.usage = @ - c.handles[e].charge]
<1>1. /\ e \in DOMAIN c.handles /\ e \in Nat /\ c.handles[e] \in Handle(K, V)
      /\ c.handles \in Partial(Nat, Handle(K, V)) /\ c.handles[e].refs \in Nat \ {0}
  BY HandlesAre DEF InCache, Handle
<1>2. /\ g \in Handle(K, V) /\ g.refs = c.handles[e].refs /\ g.in_cache = FALSE
      /\ g.key = c.handles[e].key /\ g.value = c.handles[e].value
  BY <1>1 DEF Handle
<1>2a. /\ c.handles[e].refs # 1 => h \in Handle(K, V)
       /\ h.refs = c.handles[e].refs - 1 /\ h.in_cache = FALSE
       /\ h.key = c.handles[e].key /\ h.value = c.handles[e].value
  <2> HIDE DEF g
  <2> QED BY <1>1, <1>2 DEF Handle
<1>3. b = [handles |-> [c.handles EXCEPT ![e] = g], lru |-> LRU_Remove(c.lru, e),
           in_use |-> c.in_use \ {e}, table |-> c.table,
           usage |-> c.usage - c.handles[e].charge, capacity |-> c.capacity, last |-> c.last]
  <2>1. c = [handles |-> c.handles, lru |-> c.lru, in_use |-> c.in_use, table |-> c.table,
             usage |-> c.usage, capacity |-> c.capacity, last |-> c.last]
    BY ShardIs
  <2>2. b = [c EXCEPT !.lru = LRU_Remove(c.lru, e), !.in_use = c.in_use \ {e},
                      !.handles = [c.handles EXCEPT ![e] = g],
                      !.usage = c.usage - c.handles[e].charge]
    BY <1>1, <2>1
  <2> HIDE DEF b, g
  <2> QED BY <2>1, <2>2
<1>4. d = Unref(b, e)
  BY Zenon DEF FinishErase
<1> HIDE DEF b, g, h
<1>5. LET f == [c.handles EXCEPT ![e] = g] IN
          /\ f \in Partial(Nat, Handle(K, V)) /\ DOMAIN f = DOMAIN c.handles /\ f[e] = g
          /\ \A x \in DOMAIN c.handles \ {e} : f[x] = c.handles[x]
  BY <1>1, <1>2, ChangedPartial
<1>6. /\ b.handles \in Partial(Nat, Handle(K, V)) /\ DOMAIN b.handles = DOMAIN c.handles
      /\ b.handles[e] = g /\ \A x \in DOMAIN c.handles \ {e} : b.handles[x] = c.handles[x]
  BY <1>3, <1>5
<1>7. CASE c.handles[e].refs = 1
  <2>1. d = [b EXCEPT !.handles = Removed(b.handles, e)]
    BY <1>2, <1>3, <1>4, <1>6, <1>7 DEF Unref
  <2>2. d = [handles |-> d.handles, lru |-> LRU_Remove(c.lru, e), in_use |-> c.in_use \ {e},
             table |-> c.table, usage |-> c.usage - c.handles[e].charge,
             capacity |-> c.capacity, last |-> c.last] /\ d.handles = Removed(b.handles, e)
    BY <1>3, <2>1
  <2>3. d.handles \in Partial(Nat, Handle(K, V))
    BY <1>6, <2>2, RemovedPartial
  <2>4. DOMAIN d.handles = DOMAIN b.handles \ {e}
    BY <2>2, RemovedIs
  <2>5. \A x \in DOMAIN b.handles \ {e} : d.handles[x] = b.handles[x]
    BY <2>2, RemovedIs
  <2> QED BY <1>6, <1>7, <2>2, <2>3, <2>4, <2>5 DEF IsLeft
<1>8. CASE c.handles[e].refs # 1
  <2>0. b.handles[e].refs # 1 /\ ~b.handles[e].in_cache
        /\ [b.handles[e] EXCEPT !.refs = @ - 1] = h
    BY <1>2, <1>6, <1>8 DEF h
  <2>1. d = [b EXCEPT !.handles = [b.handles EXCEPT ![e] = h]]
    <3>1. d = [b EXCEPT !.handles[e].refs = @ - 1, !.lru = b.lru, !.in_use = b.in_use]
      BY <1>4, <2>0 DEF Unref
    <3>2. d = [b EXCEPT !.handles = [b.handles EXCEPT ![e] = [b.handles[e] EXCEPT !.refs = @ - 1]],
                        !.lru = b.lru, !.in_use = b.in_use]
      BY <1>3, <3>1
    <3>3. d = [b EXCEPT !.handles = [b.handles EXCEPT ![e] = h], !.lru = b.lru, !.in_use = b.in_use]
      BY <2>0, <3>2
    <3>4. PICK f : f = [b.handles EXCEPT ![e] = h]
      OBVIOUS
    <3>5. d = [b EXCEPT !.handles = f, !.lru = b.lru, !.in_use = b.in_use]
      BY <3>3, <3>4
    <3>6. b = [handles |-> b.handles, lru |-> b.lru, in_use |-> b.in_use, table |-> b.table,
               usage |-> b.usage, capacity |-> b.capacity, last |-> b.last]
      BY <1>3
    <3>7. d = [b EXCEPT !.handles = f]
      BY <3>5, <3>6
    <3> QED BY <3>4, <3>7
  <2>2. d = [handles |-> d.handles, lru |-> LRU_Remove(c.lru, e), in_use |-> c.in_use \ {e},
             table |-> c.table, usage |-> c.usage - c.handles[e].charge,
             capacity |-> c.capacity, last |-> c.last]
        /\ d.handles = [b.handles EXCEPT ![e] = h]
    BY <1>3, <2>1
  <2>3. LET f == [b.handles EXCEPT ![e] = h] IN
            /\ f \in Partial(Nat, Handle(K, V)) /\ DOMAIN f = DOMAIN b.handles /\ f[e] = h
            /\ \A x \in DOMAIN b.handles \ {e} : f[x] = b.handles[x]
    BY <1>1, <1>2a, <1>6, <1>8, ChangedPartial
  <2> QED BY <1>2a, <1>6, <1>8, <2>2, <2>3 DEF IsLeft
<1> QED BY <1>7, <1>8

\* The handles in E have left the cache, and some of them, which nobody holds,
\* have been freed.
Erased(c, d, E, H) ==
    /\ Shrinks(c, d) /\ InCache(d) = InCache(c) \ E /\ ToSet(d.lru) = ToSet(c.lru) \ E
    /\ \A x \in DOMAIN c.handles \ DOMAIN d.handles : x \in E /\ H[x] = 0

\* FinishErase() of a handle that has left the table, or lost its place in it
LEMMA FinishEraseInv ==
    ASSUME NEW K, NEW V, NEW c, NEW H, NEW e \in InCache(c), ShardInv(c, H, {e}, K, V),
           NEW d, d = FinishErase(c, e)
    PROVE  ShardInv(d, H, {}, K, V) /\ Erased(c, d, {e}, H)
<1>1. ShardType(c, K, V) /\ CountsInv(c, H) /\ TableInv(c, {e}) /\ ListsInv(c)
      /\ c.usage = Charges(c.handles, InCache(c))
  BY DEF ShardInv
<1>2. /\ e \in DOMAIN c.handles /\ e \in Nat /\ c.handles[e] \in Handle(K, V)
      /\ c.handles[e].refs \in Nat \ {0} /\ c.handles[e].in_cache /\ c.handles[e].charge \in Nat
  BY <1>1, HandlesAre DEF InCache, Handle
<1>3. /\ d = [handles |-> d.handles, lru |-> LRU_Remove(c.lru, e), in_use |-> c.in_use \ {e},
              table |-> c.table, usage |-> c.usage - c.handles[e].charge,
              capacity |-> c.capacity, last |-> c.last]
      /\ d.handles \in Partial(Nat, Handle(K, V))
      /\ DOMAIN d.handles = (IF c.handles[e].refs = 1 THEN DOMAIN c.handles \ {e}
                             ELSE DOMAIN c.handles)
      /\ \A x \in DOMAIN c.handles \ {e} : d.handles[x] = c.handles[x]
      /\ c.handles[e].refs # 1 =>
            /\ ~d.handles[e].in_cache /\ d.handles[e].refs = c.handles[e].refs - 1
            /\ d.handles[e].key = c.handles[e].key /\ d.handles[e].value = c.handles[e].value
  <2>0. ShardType(c, K, V)
    BY <1>1
  <2>1. IsLeft(c, d, e) /\ d.handles \in Partial(Nat, Handle(K, V))
    BY <2>0, FinishEraseIs
  <2> QED BY <2>1 DEF IsLeft
<1>5. InCache(d) = InCache(c) \ {e}
  BY <1>2, <1>3 DEF InCache
<1>6. \A x \in InCache(d) : x \in DOMAIN c.handles /\ x \in DOMAIN d.handles /\ x # e
                            /\ d.handles[x] = c.handles[x]
  BY <1>3, <1>5 DEF InCache
<1>7. H[e] \in Nat /\ H[e] = c.handles[e].refs - 1
  BY <1>1, <1>2 DEF CountsInv
<1>8. /\ d.lru = LRU_Remove(c.lru, e) /\ d.in_use = c.in_use \ {e} /\ d.table = c.table
      /\ d.usage = c.usage - c.handles[e].charge /\ d.capacity = c.capacity /\ d.last = c.last
  BY <1>3
<1>9. d.lru \in Seq(Nat) /\ NoTwice(d.lru) /\ ToSet(d.lru) = ToSet(c.lru) \ {e}
  <2>1. c.lru \in Seq(Nat) /\ NoTwice(c.lru)
    BY <1>1, HandlesAre DEF ListsInv
  <2>2. LET q == LRU_Remove(c.lru, e) IN
            q \in Seq(Nat) /\ NoTwice(q) /\ ToSet(q) = ToSet(c.lru) \ {e}
    BY <1>2, <2>1, RemovedFromList
  <2> QED BY <1>8, <2>2
<1>10. /\ Charges(c.handles, InCache(c)) \in Nat
       /\ Charges(c.handles, InCache(c)) = c.handles[e].charge + Charges(c.handles, InCache(d))
       /\ Charges(c.handles, InCache(d)) \in Nat
       /\ Charges(d.handles, InCache(d)) = Charges(c.handles, InCache(d))
  <2>0. \A x \in InCache(c) : x \in DOMAIN c.handles
    BY DEF InCache
  <2>1. IsFiniteSet(InCache(c)) /\ \A x \in InCache(c) : c.handles[x].charge \in Nat
    BY <1>1, <2>0, HandlesAre
  <2>2. IsFiniteSet(InCache(d)) /\ InCache(d) \subseteq InCache(c)
    BY <1>5, <2>1, FS_Subset
  <2>3. Charges(d.handles, InCache(d)) = Charges(c.handles, InCache(d))
    BY <1>6, <2>1, <2>2, ChargesSame
  <2> QED BY <1>5, <2>1, <2>3, ChargesWithout
<1>11. d.usage = Charges(d.handles, InCache(d)) /\ d.usage \in Nat /\ d.usage <= c.usage
  BY <1>1, <1>2, <1>8, <1>10
<1>12. ShardType(d, K, V)
  <2>1. /\ d.in_use \in SUBSET Nat /\ d.table \in Partial(K, Nat) /\ d.capacity \in Nat
        /\ d.last \in Nat
    BY <1>1, <1>8, HandlesAre
  <2>2. d = [handles |-> d.handles, lru |-> d.lru, in_use |-> d.in_use, table |-> d.table,
             usage |-> d.usage, capacity |-> d.capacity, last |-> d.last]
    BY <1>3
  <2>3. d \in Shards(K, V)
    BY <1>3, <1>9, <1>11, <2>1, <2>2 DEF Shards
  <2>4. DOMAIN d.handles \subseteq DOMAIN c.handles
    BY <1>3
  <2> QED BY <1>1, <1>8, <2>3, <2>4 DEF ShardType
<1>13. CountsInv(d, H)
  BY <1>1, <1>2, <1>3, <1>7 DEF CountsInv
<1>14. TableInv(d, {})
  BY <1>1, <1>5, <1>6, <1>8 DEF TableInv
<1>15. ListsInv(d)
  BY <1>1, <1>5, <1>6, <1>8, <1>9 DEF ListsInv
<1>16. Shrinks(c, d)
  BY <1>3, <1>5, <1>8, <1>11 DEF Shrinks
<1>17. \A x \in DOMAIN c.handles \ DOMAIN d.handles : x = e /\ H[x] = 0
  BY <1>3, <1>7
<1> QED BY <1>5, <1>8, <1>9, <1>11, <1>12, <1>13, <1>14, <1>15, <1>16, <1>17 DEF ShardInv, Erased

\* What two erasures one after the other erase
LEMMA ErasedTwice ==
    ASSUME NEW c, NEW d, NEW f, NEW E, NEW F, NEW H, Erased(c, d, E, H), Erased(d, f, F, H),
           {c.usage, d.usage, f.usage} \subseteq Nat
    PROVE  Erased(c, f, E \cup F, H)
<1>1. Shrinks(c, d) /\ Shrinks(d, f)
  BY DEF Erased
<1>2. Shrinks(c, f)
  BY <1>1 DEF Shrinks
<1> QED BY <1>2 DEF Erased

\* No step erases nothing.
LEMMA NothingErased == ASSUME NEW c, NEW H, c.usage \in Nat PROVE Erased(c, c, {}, H)
BY DEF Erased, Shrinks

ErasedBy(c, key) == IF key \in DOMAIN c.table THEN {c.table[key]} ELSE {}

\* Erase() keeps a shard in order and frees only what nobody holds.
LEMMA EraseInv ==
    ASSUME NEW K, NEW V, NEW c, NEW H, ShardInv(c, H, {}, K, V), NEW key, NEW d, d = Erase(c, key)
    PROVE  ShardInv(d, H, {}, K, V) /\ Erased(c, d, ErasedBy(c, key), H)
<1>1. ShardType(c, K, V) /\ CountsInv(c, H) /\ TableInv(c, {}) /\ ListsInv(c)
      /\ c.usage = Charges(c.handles, InCache(c))
  BY DEF ShardInv
<1>2. CASE key \notin DOMAIN c.table
  <2>1. d = c /\ c.usage \in Nat
    BY <1>1, <1>2, HandlesAre DEF Erase, Holds
  <2> QED BY <1>2, <2>1, NothingErased DEF ErasedBy
<1>3. CASE key \in DOMAIN c.table
  <2> DEFINE e == c.table[key]
             t == Removed(c.table, key)
             b == [c EXCEPT !.table = Removed(@, key)]
  <2>1. e \in InCache(c) /\ c.handles[e].key = key /\ e \in DOMAIN c.handles
    BY <1>1, <1>3 DEF TableInv, InCache
  <2>2. d = FinishErase(b, e)
    BY <1>3 DEF Erase, Holds
  <2>3. /\ b = [handles |-> c.handles, lru |-> c.lru, in_use |-> c.in_use, table |-> t,
                usage |-> c.usage, capacity |-> c.capacity, last |-> c.last]
    <3>1. c = [handles |-> c.handles, lru |-> c.lru, in_use |-> c.in_use, table |-> c.table,
               usage |-> c.usage, capacity |-> c.capacity, last |-> c.last]
      BY <1>1, ShardIs
    <3> QED BY <3>1
  <2> HIDE DEF b
  <2>4. DOMAIN t = DOMAIN c.table \ {key}
    BY RemovedIs
  <2>5. \A k \in DOMAIN c.table \ {key} : t[k] = c.table[k]
    BY RemovedIs
  <2>6. t \in Partial(K, Nat)
    <3>1. c.table \in Partial(K, Nat)
      BY <1>1, HandlesAre
    <3> QED BY <3>1, RemovedPartial
  <2> HIDE DEF t
  <2>7. /\ b.handles = c.handles /\ b.lru = c.lru /\ b.in_use = c.in_use /\ b.table = t
        /\ b.usage = c.usage /\ b.capacity = c.capacity /\ b.last = c.last
    BY <2>3
  <2>8. InCache(b) = InCache(c)
    BY <2>7 DEF InCache
  <2>9. ShardType(b, K, V)
    <3>1. b \in Shards(K, V)
      BY <1>1, <2>3, <2>6 DEF ShardType, Shards
    <3> QED BY <1>1, <2>7, <3>1 DEF ShardType
  <2>10. TableInv(b, {e})
    <3>1. \A k \in DOMAIN c.table \ {key} : c.table[k] # e
      BY <1>1, <2>1 DEF TableInv
    <3>2. \A x \in InCache(c) \ {e} : c.handles[x].key # key
      BY <1>1 DEF TableInv
    <3> HIDE DEF e
    <3> QED BY <1>1, <2>4, <2>5, <2>7, <2>8, <3>1, <3>2 DEF TableInv
  <2>11. CountsInv(b, H) /\ ListsInv(b)
    BY <1>1, <2>7, <2>8 DEF CountsInv, ListsInv
  <2>12. ShardInv(b, H, {e}, K, V)
    BY <1>1, <2>7, <2>8, <2>9, <2>10, <2>11 DEF ShardInv
  <2>13. ShardInv(d, H, {}, K, V) /\ Erased(b, d, {e}, H)
    BY <2>1, <2>2, <2>8, <2>12, FinishEraseInv
  <2>14. Erased(c, d, {e}, H)
    BY <2>7, <2>8, <2>13 DEF Erased, Shrinks
  <2> QED BY <1>3, <2>13, <2>14 DEF ErasedBy
<1> QED BY <1>2, <1>3

----------------------------------------------------------------------------
(* Shed() and Prune(), which take one handle after the other from lru_.    *)

\* A bounded set of numbers that is not empty has a greatest one.
LEMMA GreatestMember ==
    ASSUME NEW T \in SUBSET Nat, T # {}, NEW b \in Nat, \A y \in T : y <= b
    PROVE  \E x \in T : \A y \in T : x >= y
<1> DEFINE U == {b - y : y \in T}
<1>1. \A y \in T : b - y \in Nat
  OBVIOUS
<1>2. U \in SUBSET Nat /\ U # {}
  BY <1>1
<1>3. PICK u \in U : \A w \in U : u <= w
  BY <1>2, LeastMember
<1>4. PICK x \in T : u = b - x
  BY <1>3
<1>5. ASSUME NEW y \in T PROVE x >= y
  BY <1>3, <1>4, b - y \in U
<1> QED BY <1>4, <1>5

\* One turn of the loop: of Prune(), or of Insert().
Turn(all, d, e) ==
    IF all THEN Erase(d, d.handles[e].key)
    ELSE IF d.usage > d.capacity THEN Erase(d, d.handles[e].key) ELSE d

IsLoop(it, c, all, S) ==
    it = [s \in SUBSET S |-> IF s = {} THEN c ELSE Turn(all, it[s \ {Max(s)}], c.lru[Max(s)])]

\* The loop at the end of Insert() is a loop over the places of lru_.
LEMMA ShedIs == \A c : Shed(c) = (CHOOSE it : IsLoop(it, c, FALSE, DOMAIN c.lru))[DOMAIN c.lru]
BY Zenon DEF Shed, FoldLeft, MapThenFoldSet, IsLoop, Turn

\* The loop of Prune() is a loop over the places of lru_.
LEMMA PruneIs == \A c : Prune(c) = (CHOOSE it : IsLoop(it, c, TRUE, DOMAIN c.lru))[DOMAIN c.lru]
BY Zenon DEF Prune, FoldLeft, MapThenFoldSet, IsLoop, Turn

\* What such a loop has after the turns in s
LEMMA LoopAt ==
    \A it, c, all, S : IsLoop(it, c, all, S) =>
        \A s \in SUBSET S : it[s] = IF s = {} THEN c
                                    ELSE Turn(all, it[s \ {Max(s)}], c.lru[Max(s)])
BY Zenon DEF IsLoop

\* The greatest of some of the first n numbers
LEMMA MaxUpTo ==
    \A n \in Nat : \A s \in SUBSET (1..n) : s # {} => Max(s) \in s /\ (n \in s => Max(s) = n)
<1> SUFFICES ASSUME NEW n \in Nat, NEW s \in SUBSET (1..n), s # {}
             PROVE  Max(s) \in s /\ (n \in s => Max(s) = n)
  OBVIOUS
<1>1. s \in SUBSET Nat /\ \A y \in s : y <= n
  OBVIOUS
<1>2. \E x \in s : \A y \in s : x >= y
  BY <1>1, GreatestMember
<1>3. Max(s) \in s /\ \A y \in s : Max(s) >= y
  BY <1>2, Zenon DEF Max
<1>4. Max(s) \in 1..n
  BY <1>3
<1> QED BY <1>3, <1>4

\* There is such a loop for every length, by the least that has none.
LEMMA LoopExists ==
    ASSUME NEW c, NEW all, NEW m \in Nat
    PROVE  \E it : IsLoop(it, c, all, 1..m)
<1> DEFINE Bad == {n \in Nat : ~\E it : IsLoop(it, c, all, 1..n)}
<1>1. SUFFICES ASSUME Bad # {} PROVE FALSE
  OBVIOUS
<1>2. PICK n \in Bad : \A k \in Bad : n <= k
  <2>1. Bad \in SUBSET Nat
    OBVIOUS
  <2> HIDE DEF Bad
  <2> QED BY <1>1, <2>1, LeastMember
<1>3. n \in Nat /\ ~\E it : IsLoop(it, c, all, 1..n)
  BY <1>2
<1>4. CASE n = 0
  <2> DEFINE g == [s \in SUBSET (1..0) |-> c]
  <2>1. \A s \in SUBSET (1..0) : s = {}
    OBVIOUS
  <2>2. g = [s \in SUBSET (1..0) |-> IF s = {} THEN c ELSE Turn(all, g[s \ {Max(s)}], c.lru[Max(s)])]
    BY <2>1
  <2>3. IsLoop(g, c, all, 1..0)
    BY <2>2, Zenon DEF IsLoop
  <2> QED BY <1>3, <1>4, <2>3
<1>5. CASE n # 0
  <2>1. n - 1 \in Nat /\ n - 1 < n
    BY <1>3, <1>5
  <2>2. n - 1 \notin Bad
    <3> HIDE DEF Bad
    <3> QED BY <1>2, <1>3, <2>1
  <2>3. PICK f : IsLoop(f, c, all, 1..n - 1)
    BY <2>1, <2>2
  <2> DEFINE g == [s \in SUBSET (1..n) |-> IF n \in s THEN Turn(all, f[s \ {n}], c.lru[n]) ELSE f[s]]
  <2>4. ASSUME NEW s \in SUBSET (1..n)
        PROVE  g[s] = IF s = {} THEN c ELSE Turn(all, g[s \ {Max(s)}], c.lru[Max(s)])
    <3>1. CASE s = {}
      <4>1. g[s] = f[s] /\ s \in SUBSET (1..n - 1)
        BY <3>1
      <4> QED BY <2>3, <3>1, <4>1, LoopAt
    <3>2. CASE n \in s
      <4>1. Max(s) = n
        BY <1>3, <3>2, MaxUpTo
      <4>2. g[s] = Turn(all, f[s \ {n}], c.lru[n])
        BY <3>2
      <4>3. g[s \ {n}] = f[s \ {n}]
        OBVIOUS
      <4> QED BY <3>2, <4>1, <4>2, <4>3, Zenon
    <3>3. CASE s # {} /\ n \notin s
      <4>1. Max(s) \in s
        BY <1>3, <3>3, MaxUpTo
      <4>2. s \in SUBSET (1..n - 1)
        BY <1>3, <3>3
      <4>3. f[s] = Turn(all, f[s \ {Max(s)}], c.lru[Max(s)])
        <5>1. \A r \in SUBSET (1..n - 1) : f[r] = IF r = {} THEN c
                                     ELSE Turn(all, f[r \ {Max(r)}], c.lru[Max(r)])
          BY <2>3, Zenon DEF IsLoop
        <5> QED BY <3>3, <4>2, <5>1, Zenon
      <4>4. g[s] = f[s]
        BY <3>3
      <4>5. g[s \ {Max(s)}] = f[s \ {Max(s)}]
        BY <3>3
      <4> QED BY <3>3, <4>3, <4>4, <4>5, Zenon
    <3> QED BY <3>1, <3>2, <3>3
  <2>5. g = [s \in SUBSET (1..n) |-> g[s]]
    OBVIOUS
  <2> HIDE DEF g
  <2>6. IsLoop(g, c, all, 1..n)
    BY <2>4, <2>5, Zenon DEF IsLoop
  <2> QED BY <1>3, <2>6
<1> QED BY <1>4, <1>5

\* The states of the shard after each turn
LEMMA LoopTurns ==
    ASSUME NEW c, NEW all, NEW n \in Nat, NEW it, IsLoop(it, c, all, 1..n)
    PROVE  /\ it[{}] = c
           /\ \A i \in 1..n : it[1..i] = Turn(all, it[1..i - 1], c.lru[i])
<1>1. it[{}] = c
  BY LoopAt
<1>2. ASSUME NEW i \in 1..n
      PROVE  it[1..i] = Turn(all, it[1..i - 1], c.lru[i])
  <2>1. /\ 1..i \in SUBSET (1..n) /\ 1..i # {} /\ i \in Nat /\ i \in 1..i
        /\ 1..i \in SUBSET (1..i)
    <3>1. i \in Nat /\ 1 <= i /\ i <= n
      OBVIOUS
    <3>2. i \in 1..i
      BY <3>1
    <3> QED BY <3>1, <3>2
  <2>2. Max(1..i) = i
    BY <2>1, MaxUpTo
  <2>3. (1..i) \ {i} = 1..i - 1
    OBVIOUS
  <2>4. it[1..i] = Turn(all, it[(1..i) \ {Max(1..i)}], c.lru[Max(1..i)])
    <3>1. \A s \in SUBSET (1..n) : it[s] = IF s = {} THEN c
                                ELSE Turn(all, it[s \ {Max(s)}], c.lru[Max(s)])
      BY Zenon DEF IsLoop
    <3> QED BY <2>1, <3>1, Zenon
  <2> QED BY <2>2, <2>3, <2>4
<1> QED BY <1>1, <1>2

\* A turn takes e from the shard, or the loop is over.
LEMMA TurnInv ==
    ASSUME NEW K, NEW V, NEW c, NEW H, ShardInv(c, H, {}, K, V), NEW e \in ToSet(c.lru),
           NEW all \in BOOLEAN, NEW d, d = Turn(all, c, e)
    PROVE  /\ ShardInv(d, H, {}, K, V)
           /\ Erased(c, d, {e}, H) \/ (d = c /\ ~all /\ c.usage <= c.capacity)
<1>1. CASE ~all /\ ~(c.usage > c.capacity)
  <2>1. d = c
    BY <1>1 DEF Turn
  <2>2. c.usage \in Nat /\ c.capacity \in Nat
    BY HandlesAre DEF ShardInv
  <2> QED BY <1>1, <2>1, <2>2
<1>2. CASE all \/ c.usage > c.capacity
  <2>1. d = Erase(c, c.handles[e].key)
    BY <1>2 DEF Turn
  <2>2. e \in InCache(c)
    BY DEF ShardInv, ListsInv
  <2>3. c.handles[e].key \in DOMAIN c.table /\ c.table[c.handles[e].key] = e
    BY <2>2 DEF ShardInv, TableInv
  <2>4. ErasedBy(c, c.handles[e].key) = {e}
    BY <2>3 DEF ErasedBy
  <2>5. ShardInv(d, H, {}, K, V) /\ Erased(c, d, ErasedBy(c, c.handles[e].key), H)
    BY <2>1, EraseInv
  <2> QED BY <2>4, <2>5
<1> QED BY <1>1, <1>2

\* Each turn keeps the shard in order; when all are over lru_ is empty, or the
\* loop of Insert() stopped within the capacity.
LEMMA LoopInv ==
    ASSUME NEW K, NEW V, NEW c, NEW H, ShardInv(c, H, {}, K, V), NEW all \in BOOLEAN,
           NEW it, IsLoop(it, c, all, 1..Len(c.lru)), NEW d, d = it[1..Len(c.lru)]
    PROVE  /\ ShardInv(d, H, {}, K, V) /\ \E E : Erased(c, d, E, H)
           /\ d.lru = <<>> \/ (~all /\ d.usage <= d.capacity)
<1> DEFINE S(i) == it[1..i]
           First(i) == {c.lru[j] : j \in 1..i}
           P(i) == /\ ShardInv(S(i), H, {}, K, V)
                   /\ \E E \in SUBSET First(i) :
                         /\ Erased(c, S(i), E, H)
                         /\ E = First(i) \/ (~all /\ S(i).usage <= S(i).capacity)
           Bad == {i \in Nat : i <= Len(c.lru) /\ ~P(i)}
<1>0. ShardType(c, K, V) /\ ListsInv(c)
  BY DEF ShardInv
<1>1. PICK n \in Nat : n = Len(c.lru) /\ c.lru \in Seq(Nat) /\ c.usage \in Nat
  BY <1>0, HandlesAre
<1>1a. /\ it[{}] = c /\ \A i \in 1..n : it[1..i] = Turn(all, it[1..i - 1], c.lru[i])
  <2>1. IsLoop(it, c, all, 1..n)
    BY <1>1
  <2> QED BY <1>1, <2>1, LoopTurns
<1>2. Bad = {}
  <2> SUFFICES ASSUME Bad # {} PROVE FALSE
    OBVIOUS
  <2>1. PICK i \in Bad : \A k \in Bad : i <= k
    <3>1. Bad \in SUBSET Nat
      OBVIOUS
    <3> HIDE DEF Bad
    <3> QED BY <3>1, LeastMember
  <2>2. i \in Nat /\ i <= n /\ ~P(i)
    BY <1>1, <2>1
  <2>3. CASE i = 0
    <3>1. S(0) = c
      <4>1. 1..0 = {}
        OBVIOUS
      <4> QED BY <1>1a, <4>1
    <3>2. Erased(c, c, {}, H) /\ First(0) = {}
      BY <1>1, NothingErased
    <3> QED BY <2>2, <2>3, <3>1, <3>2
  <2>4. CASE i # 0
    <3>1. i - 1 \in Nat /\ i - 1 <= n /\ i \in 1..n /\ i - 1 < i
      BY <2>2, <2>4
    <3>2. i - 1 \notin Bad
      <4> HIDE DEF Bad
      <4> QED BY <2>1, <2>2, <3>1
    <3>3. P(i - 1)
      <4> HIDE DEF P
      <4> QED BY <1>1, <3>1, <3>2
    <3> DEFINE b == S(i - 1)
               f == S(i)
               e == c.lru[i]
    <3>4. PICK E \in SUBSET First(i - 1) :
             /\ Erased(c, b, E, H)
             /\ E = First(i - 1) \/ (~all /\ b.usage <= b.capacity)
      BY <3>3
    <3>5. ShardInv(b, H, {}, K, V)
      BY <3>3
    <3>6. f = Turn(all, b, e)
      BY <1>1a, <3>1
    <3>7. First(i) = First(i - 1) \cup {e}
      <4>1. 1..i = (1..i - 1) \cup {i}
        BY <3>1
      <4> QED BY <4>1
    <3>8. e \in ToSet(b.lru)
      <4>1. e \in ToSet(c.lru)
        BY <1>1, <3>1 DEF ToSet
      <4>2. e \notin First(i - 1)
        BY <1>0, <1>1, <3>1 DEF ListsInv, NoTwice
      <4> QED BY <3>4, <4>1, <4>2 DEF Erased
    <3> HIDE DEF b, f, e
    <3>9. /\ ShardInv(f, H, {}, K, V)
          /\ Erased(b, f, {e}, H) \/ (f = b /\ ~all /\ b.usage <= b.capacity)
      BY <3>5, <3>6, <3>8, TurnInv
    <3>10. CASE Erased(b, f, {e}, H)
      <4>1. b.usage \in Nat /\ f.usage \in Nat /\ b.capacity \in Nat
        BY <3>5, <3>9, HandlesAre DEF ShardInv
      <4>2. Erased(c, f, E \cup {e}, H)
        BY <1>1, <3>4, <3>10, <4>1, ErasedTwice
      <4>3. f.usage <= b.usage /\ f.capacity = b.capacity
        BY <3>10 DEF Erased, Shrinks
      <4>4. E \cup {e} \in SUBSET First(i)
            /\ (E \cup {e} = First(i) \/ (~all /\ f.usage <= f.capacity))
        <5> HIDE DEF First
        <5> QED BY <3>4, <3>7, <4>1, <4>3
      <4> HIDE DEF First
      <4> QED BY <2>2, <3>9, <4>2, <4>4 DEF f
    <3>11. CASE f = b /\ ~all /\ b.usage <= b.capacity
      <4>1. E \in SUBSET First(i)
        <5> HIDE DEF First
        <5> QED BY <3>7
      <4> HIDE DEF First
      <4> QED BY <2>2, <3>4, <3>9, <3>11, <4>1 DEF f
    <3> QED BY <3>9, <3>10, <3>11
  <2> QED BY <2>3, <2>4
<1>3. P(n)
  <2> HIDE DEF P
  <2> QED BY <1>1, <1>2
<1>4. S(n) = d
  BY <1>1
<1>5. PICK E \in SUBSET First(n) : /\ Erased(c, d, E, H)
                                   /\ E = First(n) \/ (~all /\ d.usage <= d.capacity)
  BY <1>3, <1>4
<1>6. ShardInv(d, H, {}, K, V)
  BY <1>3, <1>4
<1>7. E = First(n) => d.lru = <<>>
  <2>1. First(n) = ToSet(c.lru)
    BY <1>1 DEF ToSet
  <2>2. E = First(n) => ToSet(d.lru) = {}
    <3> HIDE DEF First
    <3> QED BY <1>5, <2>1 DEF Erased
  <2>3. d.lru \in Seq(Nat)
    BY <1>6, HandlesAre DEF ShardInv
  <2>4. ToSet(d.lru) = {} => d.lru = <<>>
    <3>1. d.lru # <<>> => 1 \in DOMAIN d.lru
      BY <2>3
    <3>2. 1 \in DOMAIN d.lru => d.lru[1] \in ToSet(d.lru)
      BY DEF ToSet
    <3> QED BY <3>1, <3>2
  <2> QED BY <2>2, <2>4
<1> QED BY <1>5, <1>6, <1>7

\* After the loop of Insert() usage_ is within the capacity or all is in use.
LEMMA ShedInv ==
    ASSUME NEW K, NEW V, NEW c, NEW H, ShardInv(c, H, {}, K, V), NEW d, d = Shed(c)
    PROVE  /\ ShardInv(d, H, {}, K, V) /\ \E E : Erased(c, d, E, H)
           /\ d.lru = <<>> \/ d.usage <= d.capacity
<1>1. c.lru \in Seq(Nat)
  BY HandlesAre DEF ShardInv
<1>2. DOMAIN c.lru = 1..Len(c.lru) /\ Len(c.lru) \in Nat
  BY <1>1
<1> DEFINE it == CHOOSE it : IsLoop(it, c, FALSE, 1..Len(c.lru))
<1>3. \E f : IsLoop(f, c, FALSE, 1..Len(c.lru))
  BY <1>2, LoopExists
<1>4. IsLoop(it, c, FALSE, 1..Len(c.lru))
  BY <1>3, Zenon
<1>5. d = it[1..Len(c.lru)]
  BY <1>2, ShedIs, Zenon
<1> HIDE DEF it
<1>6. PICK all \in BOOLEAN : all = FALSE
  OBVIOUS
<1>7. IsLoop(it, c, all, 1..Len(c.lru))
  BY <1>4, <1>6
<1>8. /\ ShardInv(d, H, {}, K, V) /\ \E E : Erased(c, d, E, H)
      /\ d.lru = <<>> \/ (~all /\ d.usage <= d.capacity)
  BY <1>5, <1>7, LoopInv
<1> QED BY <1>8

\* Prune() keeps a shard in order.
LEMMA PruneInv ==
    ASSUME NEW K, NEW V, NEW c, NEW H, ShardInv(c, H, {}, K, V), NEW d, d = Prune(c)
    PROVE  ShardInv(d, H, {}, K, V) /\ \E E : Erased(c, d, E, H)
<1>1. c.lru \in Seq(Nat)
  BY HandlesAre DEF ShardInv
<1>2. DOMAIN c.lru = 1..Len(c.lru) /\ Len(c.lru) \in Nat
  BY <1>1
<1> DEFINE it == CHOOSE it : IsLoop(it, c, TRUE, 1..Len(c.lru))
<1>3. \E f : IsLoop(f, c, TRUE, 1..Len(c.lru))
  BY <1>2, LoopExists
<1>4. IsLoop(it, c, TRUE, 1..Len(c.lru))
  BY <1>3, Zenon
<1>5. d = it[1..Len(c.lru)]
  BY <1>2, PruneIs, Zenon
<1> HIDE DEF it
<1> QED BY <1>4, <1>5, LoopInv

\* What the handles in T are charged is what those in S are, and x.
Adds(F, S, T, x) == Charges(F, T) = F[x].charge + Charges(F, S) /\ Charges(F, S) \in Nat
Chargeable(F, T) == IsFiniteSet(T) /\ \A y \in T : F[y].charge \in Nat

\* The sum over a set with one member more
LEMMA ChargesWith ==
    ASSUME NEW F, NEW S, NEW T, NEW x \in T, T \ {x} = S, Chargeable(F, T)
    PROVE Adds(F, S, T, x)
<1>0. IsFiniteSet(T) /\ \A y \in T : F[y].charge \in Nat
 BY DEF Chargeable
<1>1. /\ \A y \in T : /\ Charges(F, T) = F[y].charge + Charges(F, T \ {y})
                      /\ Charges(F, T \ {y}) \in Nat
 BY <1>0, ChargesWithout
<1>2. Charges(F, T) = F[x].charge + Charges(F, T \ {x}) /\ Charges(F, T \ {x}) \in Nat
 BY <1>1
<1> QED BY <1>2 DEF Adds

----------------------------------------------------------------------------
(* Insert().                                                               *)

\* e has been placed in the shard, by a client that has a reference.
IsPlaced(c, p, e, key, value) ==
    /\ DOMAIN p.handles = DOMAIN c.handles \cup {e}
    /\ \A x \in DOMAIN c.handles : p.handles[x] = c.handles[x]
    /\ p.handles[e].key = key /\ p.handles[e].value = value
    /\ InCache(p) \subseteq InCache(c) \cup {e}
    /\ p.capacity = c.capacity /\ p.last = e /\ p.lru = c.lru

\* The new handle in its place: one holder more, while one that it replaces has
\* yet to leave.
LEMMA PlacedInv ==
    ASSUME NEW K, NEW V, NEW c, NEW H, ShardInv(c, H, {}, K, V),
           NEW key \in K, NEW value \in V, NEW charge \in Nat,
           NEW p, p = Placed(c, key, value, charge), NEW e, e = c.last + 1
    PROVE  /\ ShardInv(p, [H EXCEPT ![e] = @ + 1],
                       IF c.capacity > 0 THEN ErasedBy(c, key) ELSE {}, K, V)
           /\ IsPlaced(c, p, e, key, value)
           /\ e \in Nat /\ e \notin DOMAIN c.handles
<1> DEFINE cached == c.capacity > 0
           h == [key |-> key, value |-> value, charge |-> charge,
                 in_cache |-> cached, refs |-> IF cached THEN 2 ELSE 1]
           G == [H EXCEPT ![e] = @ + 1]
           L == IF cached THEN ErasedBy(c, key) ELSE {}
<1>1. ShardType(c, K, V) /\ CountsInv(c, H) /\ TableInv(c, {}) /\ ListsInv(c)
      /\ c.usage = Charges(c.handles, InCache(c))
  BY DEF ShardInv
<1>2. /\ e \in Nat /\ e \notin DOMAIN c.handles /\ c.last \in Nat
      /\ c.handles \in Partial(Nat, Handle(K, V)) /\ c.table \in Partial(K, Nat)
  <2>1. c.last \in Nat /\ DOMAIN c.handles \subseteq 1..c.last
    BY <1>1, HandlesAre DEF ShardType
  <2> QED BY <1>1, <2>1, HandlesAre
<1>3. h \in Handle(K, V) /\ (cached => h.refs = 2) /\ (~cached => h.refs = 1)
      /\ h.in_cache = cached /\ h.key = key /\ h.value = value /\ h.charge = charge
  BY DEF Handle
<1>4. p = [c EXCEPT !.handles = Put(c.handles, e, h), !.last = e,
                    !.in_use  = IF cached THEN c.in_use \cup {e} ELSE c.in_use,
                    !.usage   = IF cached THEN c.usage + charge ELSE c.usage,
                    !.table   = IF cached THEN Put(c.table, key, e) ELSE c.table]
  <2>1. c = [handles |-> c.handles, lru |-> c.lru, in_use |-> c.in_use, table |-> c.table,
             usage |-> c.usage, capacity |-> c.capacity, last |-> c.last]
    BY <1>1, ShardIs
  <2> QED BY <2>1 DEF Placed
<1> HIDE DEF h
<1>5. /\ p.handles = Put(c.handles, e, h) /\ p.last = e /\ p.lru = c.lru /\ p.capacity = c.capacity
      /\ p.in_use = (IF cached THEN c.in_use \cup {e} ELSE c.in_use)
      /\ p.usage = (IF cached THEN c.usage + charge ELSE c.usage)
      /\ p.table = (IF cached THEN Put(c.table, key, e) ELSE c.table)
      /\ p = [handles |-> p.handles, lru |-> p.lru, in_use |-> p.in_use, table |-> p.table,
              usage |-> p.usage, capacity |-> p.capacity, last |-> p.last]
  <2>1. c = [handles |-> c.handles, lru |-> c.lru, in_use |-> c.in_use, table |-> c.table,
             usage |-> c.usage, capacity |-> c.capacity, last |-> c.last]
    BY <1>1, ShardIs
  <2> QED BY <1>4, <2>1
<1>6. /\ p.handles \in Partial(Nat, Handle(K, V)) /\ DOMAIN p.handles = DOMAIN c.handles \cup {e}
      /\ p.handles[e] = h /\ \A x \in DOMAIN c.handles : p.handles[x] = c.handles[x]
  <2>1. p.handles \in Partial(Nat, Handle(K, V))
    BY <1>2, <1>3, <1>5, PutPartial
  <2>2. /\ DOMAIN p.handles = DOMAIN c.handles \cup {e}
        /\ p.handles[e] = h /\ \A x \in DOMAIN c.handles : p.handles[x] = c.handles[x]
    BY <1>2, <1>5 DEF Put
  <2> QED BY <2>1, <2>2
<1>7. InCache(p) = IF cached THEN InCache(c) \cup {e} ELSE InCache(c)
  BY <1>2, <1>3, <1>6 DEF InCache
<1>8. /\ \A x \in InCache(c) : x \in DOMAIN c.handles /\ x # e /\ p.handles[x] = c.handles[x]
      /\ e \notin InCache(c)
  BY <1>2, <1>6 DEF InCache
<1>9. ShardType(p, K, V)
  <2>1. p.table \in Partial(K, Nat)
    BY <1>2, <1>5, PutPartial
  <2>2. /\ p.lru \in Seq(Nat) /\ p.in_use \in SUBSET Nat /\ p.usage \in Nat
        /\ p.capacity \in Nat /\ p.last \in Nat
    BY <1>1, <1>2, <1>5, HandlesAre
  <2>3. p \in Shards(K, V)
    BY <1>5, <1>6, <2>1, <2>2 DEF Shards
  <2>4. DOMAIN p.handles \subseteq 1..p.last
    BY <1>1, <1>2, <1>5, <1>6 DEF ShardType
  <2> QED BY <2>3, <2>4 DEF ShardType
<1>10. CountsInv(p, G)
  <2>1. H \in [Nat -> Nat] /\ H[e] = 0
    BY <1>1, <1>2 DEF CountsInv
  <2>2. G \in [Nat -> Nat] /\ G[e] = 1 /\ \A x \in Nat \ {e} : G[x] = H[x]
    BY <1>2, <2>1
  <2>3. p.handles[e].refs = G[e] + (IF p.handles[e].in_cache THEN 1 ELSE 0)
    <3>1. CASE cached
      <4>1. p.handles[e].refs = 2 /\ p.handles[e] = h
        BY <1>3, <1>6, <3>1
      <4>2. p.handles[e].in_cache = TRUE
        BY <1>3, <3>1, <4>1
      <4> HIDE DEF G, cached
      <4> QED BY <2>2, <4>1, <4>2
    <3>2. CASE ~cached
      <4>1. p.handles[e].refs = 1 /\ ~p.handles[e].in_cache
        BY <1>3, <1>6, <3>2
      <4> QED BY <2>2, <4>1
    <3> QED BY <3>1, <3>2
  <2>4. \A x \in DOMAIN c.handles : x \in Nat /\ x # e
    BY <1>1, <1>2, HandlesAre
  <2> HIDE DEF G, cached
  <2> QED BY <1>1, <1>6, <2>1, <2>2, <2>3, <2>4 DEF CountsInv
<1>11. TableInv(p, L)
  <2>1. CASE ~cached
    <3>1. p.table = c.table /\ InCache(p) = InCache(c) /\ L = {}
      BY <1>5, <1>7, <2>1
    <3> QED BY <1>1, <1>8, <3>1 DEF TableInv
  <2>2. CASE cached
    <3>1. InCache(p) = InCache(c) \cup {e} /\ L = ErasedBy(c, key)
      BY <1>7, <2>2
    <3>2. /\ DOMAIN p.table = DOMAIN c.table \cup {key} /\ p.table[key] = e
          /\ \A k \in DOMAIN c.table \ {key} : p.table[k] = c.table[k]
      BY <1>5, <2>2 DEF Put
    <3>3. \A k \in DOMAIN c.table : c.table[k] \in InCache(c) /\ c.handles[c.table[k]].key = k
      BY <1>1 DEF TableInv
    <3>4. \A x \in InCache(c) : c.handles[x].key \in DOMAIN c.table
                                /\ c.table[c.handles[x].key] = x
      BY <1>1 DEF TableInv
    <3>5. e \notin L /\ \A k \in DOMAIN c.table \ {key} : c.table[k] \notin L
      BY <1>8, <3>1, <3>3 DEF ErasedBy
    <3>6. \A x \in InCache(c) \ L : c.handles[x].key # key
      BY <3>1, <3>4 DEF ErasedBy
    <3>7. ASSUME NEW k \in DOMAIN p.table
          PROVE  p.table[k] \in InCache(p) \ L /\ p.handles[p.table[k]].key = k
      <4> HIDE DEF L, cached
      <4> QED BY <1>3, <1>6, <1>8, <3>1, <3>2, <3>3, <3>5
    <3>8. ASSUME NEW x \in InCache(p) \ L
          PROVE  p.handles[x].key \in DOMAIN p.table /\ p.table[p.handles[x].key] = x
      <4> HIDE DEF L, cached
      <4> QED BY <1>3, <1>6, <1>8, <3>1, <3>2, <3>4, <3>6
    <3> HIDE DEF L
    <3> QED BY <3>7, <3>8 DEF TableInv
  <2> QED BY <2>1, <2>2
<1>12. ListsInv(p)
  <2>1. \A x \in DOMAIN c.handles : c.handles[x].refs \in Nat
    BY <1>1, HandlesAre DEF Handle
  <2>2. {x \in InCache(p) : p.handles[x].refs = 1} = {x \in InCache(c) : c.handles[x].refs = 1}
    BY <1>3, <1>6, <1>7, <1>8
  <2>3. {x \in InCache(p) : p.handles[x].refs > 1}
            = {x \in InCache(c) : c.handles[x].refs > 1} \cup (IF cached THEN {e} ELSE {})
    BY <1>3, <1>6, <1>7, <1>8
  <2> QED BY <1>1, <1>5, <2>2, <2>3 DEF ListsInv
<1>13. p.usage = Charges(p.handles, InCache(p))
  <2>1. IsFiniteSet(InCache(c)) /\ IsFiniteSet(InCache(p))
    BY <1>1, <1>9, HandlesAre
  <2>2. \A x \in InCache(c) : c.handles[x].charge \in Nat /\ p.handles[x].charge = c.handles[x].charge
    BY <1>1, <1>8, HandlesAre
  <2>3. Charges(p.handles, InCache(c)) = Charges(c.handles, InCache(c))
    BY <2>1, <2>2, ChargesSame
  <2>4. CASE ~cached
    BY <1>1, <1>5, <1>7, <2>3, <2>4
  <2>5. CASE cached
    <3>1. e \in InCache(p) /\ InCache(p) \ {e} = InCache(c) /\ p.handles[e].charge = charge
      BY <1>3, <1>6, <1>7, <1>8, <2>5
    <3>2. \A x \in InCache(p) : p.handles[x].charge \in Nat
      BY <1>7, <2>2, <2>5, <3>1
    <3>3. Chargeable(p.handles, InCache(p))
      BY <2>1, <3>2 DEF Chargeable
    <3>4. Adds(p.handles, InCache(c), InCache(p), e)
      BY <3>1, <3>3, ChargesWith
    <3>5. Charges(p.handles, InCache(p)) = charge + Charges(p.handles, InCache(c))
          /\ Charges(p.handles, InCache(c)) \in Nat
      BY <3>1, <3>4 DEF Adds
    <3> QED BY <1>1, <1>5, <2>3, <2>5, <3>5
  <2> QED BY <2>4, <2>5
<1>14. IsPlaced(c, p, e, key, value)
  BY <1>3, <1>5, <1>6, <1>7 DEF IsPlaced
<1> QED BY <1>2, <1>9, <1>10, <1>11, <1>12, <1>13, <1>14 DEF ShardInv

\* What Insert() gives: the new handle e, in a shard from which others may have
\* gone, but none that a client has.
IsInserted(c, d, e, key, value, H) ==
    /\ e = c.last + 1 /\ d.last = e /\ d.capacity = c.capacity
    /\ e \in DOMAIN d.handles /\ d.handles[e].key = key /\ d.handles[e].value = value
    /\ \A x \in DOMAIN d.handles \ {e} : /\ x \in DOMAIN c.handles
                                         /\ d.handles[x].key = c.handles[x].key
                                         /\ d.handles[x].value = c.handles[x].value
    /\ \A x \in DOMAIN c.handles \ DOMAIN d.handles : H[x] = 0
    /\ InCache(d) \subseteq InCache(c) \cup {e}
    /\ d.lru = <<>> \/ d.usage <= d.capacity

\* What the steps of Insert() do with the other handles
Sheds(c, d, H) == \E E : Erased(c, d, E, H)

\* FinishErase() of the handle that the new one replaces
LEMMA ReplacedInv ==
    ASSUME NEW K, NEW V, NEW c, NEW H, ShardInv(c, H, {}, K, V),
           NEW key \in K, NEW value \in V, NEW charge \in Nat,
           NEW p, p = Placed(c, key, value, charge), NEW e, e = c.last + 1,
           NEW q, q = IF c.capacity > 0 /\ Holds(c.table, key)
                      THEN FinishErase(p, c.table[key]) ELSE p
    PROVE  /\ ShardInv(q, [H EXCEPT ![e] = @ + 1], {}, K, V)
           /\ Sheds(p, q, [H EXCEPT ![e] = @ + 1])
<1> DEFINE G == [H EXCEPT ![e] = @ + 1]
           L == IF c.capacity > 0 THEN ErasedBy(c, key) ELSE {}
<1>1. ShardInv(p, G, L, K, V) /\ IsPlaced(c, p, e, key, value)
  BY PlacedInv
<1>2. p.usage \in Nat
  BY <1>1, HandlesAre DEF ShardInv
<1> HIDE DEF G
<1>3. CASE c.capacity > 0 /\ key \in DOMAIN c.table
  <2>1. PICK old : old = c.table[key]
    OBVIOUS
  <2>2. L = {old} /\ q = FinishErase(p, old)
    BY <1>3, <2>1 DEF ErasedBy, Holds
  <2>3. old \in InCache(c)
    BY <1>3, <2>1 DEF ShardInv, TableInv
  <2>4. old \in InCache(p)
    BY <1>1, <2>3 DEF InCache, IsPlaced
  <2>5. ShardInv(p, G, {old}, K, V)
    BY <1>1, <2>2
  <2>6. ShardInv(q, G, {}, K, V) /\ Erased(p, q, {old}, G)
    BY <2>2, <2>4, <2>5, FinishEraseInv
  <2> QED BY <2>6 DEF G, Sheds
<1>4. CASE ~(c.capacity > 0 /\ key \in DOMAIN c.table)
  <2>1. L = {} /\ q = p
    BY <1>4 DEF ErasedBy, Holds
  <2>2. ShardInv(q, G, {}, K, V) /\ Erased(p, q, {}, G)
    BY <1>1, <1>2, <2>1, NothingErased
  <2> QED BY <2>2 DEF G, Sheds
<1> QED BY <1>3, <1>4

\* The whole of Insert(), step by step
LEMMA ShedPlacedInv ==
    ASSUME NEW K, NEW V, NEW c, NEW H, ShardInv(c, H, {}, K, V),
           NEW key \in K, NEW value \in V, NEW charge \in Nat,
           NEW p, p = Placed(c, key, value, charge), NEW e, e = c.last + 1,
           NEW q, q = IF c.capacity > 0 /\ Holds(c.table, key)
                      THEN FinishErase(p, c.table[key]) ELSE p,
           NEW d, d = Shed(q)
    PROVE  /\ ShardInv(d, [H EXCEPT ![e] = @ + 1], {}, K, V)
           /\ IsInserted(c, d, e, key, value, H)
<1> DEFINE G == [H EXCEPT ![e] = @ + 1]
<1>1. ShardInv(q, G, {}, K, V) /\ Sheds(p, q, G)
  BY ReplacedInv
<1>2. /\ ShardInv(p, G, IF c.capacity > 0 THEN ErasedBy(c, key) ELSE {}, K, V)
      /\ IsPlaced(c, p, e, key, value) /\ e \in Nat /\ e \notin DOMAIN c.handles
  BY PlacedInv
<1>3. H \in [Nat -> Nat] /\ DOMAIN c.handles \subseteq Nat
  <2>1. ShardType(c, K, V)
    BY DEF ShardInv
  <2> QED BY <2>1, HandlesAre DEF ShardInv, CountsInv
<1>4. G[e] > 0 /\ \A x \in DOMAIN c.handles : G[x] = H[x]
  BY <1>2, <1>3
<1> HIDE DEF G
<1>5. /\ ShardInv(d, G, {}, K, V) /\ (\E E : Erased(q, d, E, G))
      /\ d.lru = <<>> \/ d.usage <= d.capacity
  BY <1>1, ShedInv
<1>6. {p.usage, q.usage, d.usage} \subseteq Nat
  <2>1. ShardType(p, K, V) /\ ShardType(q, K, V) /\ ShardType(d, K, V)
    BY <1>1, <1>2, <1>5 DEF ShardInv
  <2> QED BY <2>1, HandlesAre
<1>7. PICK E : Erased(p, d, E, G)
  <2>1. PICK E1, E2 : Erased(p, q, E1, G) /\ Erased(q, d, E2, G)
    BY <1>1, <1>5 DEF Sheds
  <2>2. Erased(p, d, E1 \cup E2, G)
    BY <1>6, <2>1, ErasedTwice
  <2> QED BY <2>2
<1>8. IsInserted(c, d, e, key, value, H)
  <2>1. /\ DOMAIN p.handles = DOMAIN c.handles \cup {e}
        /\ \A x \in DOMAIN c.handles : p.handles[x] = c.handles[x]
        /\ p.handles[e].key = key /\ p.handles[e].value = value
        /\ InCache(p) \subseteq InCache(c) \cup {e} /\ p.capacity = c.capacity /\ p.last = e
    BY <1>2 DEF IsPlaced
  <2>2. /\ DOMAIN d.handles \subseteq DOMAIN p.handles
        /\ \A x \in DOMAIN d.handles : /\ d.handles[x].key = p.handles[x].key
                                       /\ d.handles[x].value = p.handles[x].value
        /\ InCache(d) \subseteq InCache(p) /\ d.capacity = p.capacity /\ d.last = p.last
        /\ \A x \in DOMAIN p.handles \ DOMAIN d.handles : G[x] = 0
    BY <1>7 DEF Erased, Shrinks
  <2>3. e \in DOMAIN d.handles
    BY <1>4, <2>1, <2>2
  <2>4. \A x \in DOMAIN c.handles \ DOMAIN d.handles : H[x] = 0
    BY <1>4, <2>1, <2>2
  <2>5. /\ e = c.last + 1 /\ d.last = e /\ d.capacity = c.capacity
        /\ d.handles[e].key = key /\ d.handles[e].value = value
    BY <2>1, <2>2, <2>3
  <2>6. ASSUME NEW x \in DOMAIN d.handles \ {e}
        PROVE  /\ x \in DOMAIN c.handles
               /\ d.handles[x].key = c.handles[x].key
               /\ d.handles[x].value = c.handles[x].value
    <3>1. x \in DOMAIN c.handles /\ p.handles[x] = c.handles[x]
      BY <2>1, <2>2
    <3> QED BY <2>2, <3>1
  <2>7. InCache(d) \subseteq InCache(c) \cup {e}
    BY <2>1, <2>2
  <2> QED BY <1>5, <2>3, <2>4, <2>5, <2>6, <2>7, Zenon DEF IsInserted
<1> QED BY <1>5, <1>8 DEF G

\* Insert() keeps a shard in order, gives its caller the handle and takes none
\* from other holders.
LEMMA InsertEntryInv ==
    ASSUME NEW K, NEW V, NEW c, NEW H, ShardInv(c, H, {}, K, V),
           NEW key \in K, NEW value \in V, NEW charge \in Nat,
           NEW d, d = InsertEntry(c, key, value, charge), NEW e, e = c.last + 1
    PROVE  /\ ShardInv(d, [H EXCEPT ![e] = @ + 1], {}, K, V)
           /\ IsInserted(c, d, e, key, value, H)
<1>1. PICK p : p = Placed(c, key, value, charge)
  OBVIOUS
<1>2. PICK q : q = IF c.capacity > 0 /\ Holds(c.table, key)
                   THEN FinishErase(p, c.table[key]) ELSE p
  OBVIOUS
<1>3. d = Shed(q)
  BY <1>1, <1>2 DEF InsertEntry
<1> QED BY <1>1, <1>2, <1>3, ShedPlacedInv

----------------------------------------------------------------------------
(* What ShardInv says of the definitions of the model.                     *)

\* A list without duplicates is as long as the set of its members.
LEMMA ListLength ==
    ASSUME NEW q \in Seq(Nat), NoTwice(q)
    PROVE  Cardinality(ToSet(q)) = Len(q)
<1> DEFINE f == [i \in 1..Len(q) |-> q[i]]
<1>1. Len(q) \in Nat /\ IsFiniteSet(1..Len(q)) /\ Cardinality(1..Len(q)) = Len(q)
  <2>1. Len(q) \in Nat /\ 1 \in Int /\ Len(q) \in Int
    OBVIOUS
  <2>2. /\ IsFiniteSet(1..Len(q))
        /\ Cardinality(1..Len(q)) = IF 1 > Len(q) THEN 0 ELSE Len(q) - 1 + 1
    BY <2>1, FS_Interval
  <2> QED BY <2>1, <2>2
<1>2. ToSet(q) = {q[i] : i \in 1..Len(q)}
  BY DEF ToSet
<1>3. f \in Bijection(1..Len(q), ToSet(q))
  BY <1>2 DEF NoTwice, Bijection, Injection, Surjection, IsInjective
<1>4. ExistsBijection(1..Len(q), ToSet(q))
  BY <1>3 DEF ExistsBijection
<1> QED BY <1>1, <1>4, FS_Bijection

\* ShardOK() without its operator
ShardAgrees(c, H) ==
    /\ \A e \in DOMAIN c.handles :
          c.handles[e].refs = H[e] + IF e \in InCache(c) THEN 1 ELSE 0
    /\ ToSet(c.lru) = {e \in InCache(c) : c.handles[e].refs = 1}
    /\ Cardinality(ToSet(c.lru)) = Len(c.lru)
    /\ c.in_use = {e \in InCache(c) : c.handles[e].refs > 1}
    /\ {c.table[k] : k \in DOMAIN c.table} = InCache(c)
    /\ \A k \in DOMAIN c.table : c.handles[c.table[k]].key = k
    /\ c.usage = Charges(c.handles, InCache(c))

\* The conditions of ShardOK hold in a shard that is in order.
LEMMA ShardInvAgrees ==
    ASSUME NEW K, NEW V, NEW c, NEW H, ShardInv(c, H, {}, K, V)
    PROVE  ShardAgrees(c, H)
<1>1. ShardType(c, K, V) /\ CountsInv(c, H) /\ TableInv(c, {}) /\ ListsInv(c)
      /\ c.usage = Charges(c.handles, InCache(c))
  BY DEF ShardInv
<1>2. Cardinality(ToSet(c.lru)) = Len(c.lru)
  BY <1>1, HandlesAre, ListLength DEF ListsInv
<1>3. \A e \in DOMAIN c.handles :
          c.handles[e].refs = H[e] + IF e \in InCache(c) THEN 1 ELSE 0
  BY <1>1 DEF CountsInv, InCache
<1>4. {c.table[k] : k \in DOMAIN c.table} = InCache(c)
  BY <1>1 DEF TableInv
<1>5. \A k \in DOMAIN c.table : c.handles[c.table[k]].key = k
  BY <1>1 DEF TableInv
<1> QED BY <1>1, <1>2, <1>3, <1>4, <1>5 DEF ShardAgrees, ListsInv

\* A new shard is in order.
LEMMA EmptyShardInv ==
    ASSUME NEW K, NEW V, NEW capacity \in Nat, NEW c, c = Shard(capacity),
           NEW H, H = [e \in Nat |-> 0]
    PROVE  /\ ShardInv(c, H, {}, K, V) /\ DOMAIN c.handles = {} /\ c.usage = 0
           /\ c.capacity = capacity
<1>1. /\ c = [handles |-> <<>>, lru |-> <<>>, in_use |-> {}, table |-> <<>>, usage |-> 0,
              capacity |-> capacity, last |-> 0]
      /\ c.handles = <<>> /\ c.lru = <<>> /\ c.in_use = {} /\ c.table = <<>> /\ c.usage = 0
      /\ c.capacity = capacity /\ c.last = 0
  BY DEF Shard
<1>2. DOMAIN c.handles = {} /\ DOMAIN c.table = {} /\ ToSet(c.lru) = {} /\ InCache(c) = {}
      /\ Len(c.lru) = 0 /\ c.lru \in Seq(Nat)
  BY <1>1 DEF ToSet, InCache
<1>3. \A S, T : <<>> \in Partial(S, T)
  <2> SUFFICES ASSUME NEW S, NEW T PROVE <<>> \in Partial(S, T)
    OBVIOUS
  <2>1. <<>> \in [{} -> T]
    OBVIOUS
  <2> QED BY <2>1 DEF Partial
<1>4. c \in Shards(K, V)
  BY <1>1, <1>3 DEF Shards
<1>5. ShardType(c, K, V)
  BY <1>2, <1>4 DEF ShardType
<1>6. CountsInv(c, H)
  BY <1>2 DEF CountsInv
<1>7. TableInv(c, {}) /\ ListsInv(c)
  <2>1. TableInv(c, {})
    BY <1>1, <1>2 DEF TableInv
  <2>2. NoTwice(c.lru)
    BY <1>2 DEF NoTwice
  <2>3. /\ ToSet(c.lru) = {e \in InCache(c) : c.handles[e].refs = 1}
        /\ c.in_use = {e \in InCache(c) : c.handles[e].refs > 1}
    <3> HIDE DEF InCache
    <3> QED BY <1>1, <1>2
  <2> QED BY <2>1, <2>2, <2>3 DEF ListsInv
<1>8. c.usage = Charges(c.handles, InCache(c))
  BY <1>1, <1>2, ChargesStep, FS_EmptySet
<1> QED BY <1>1, <1>2, <1>5, <1>6, <1>7, <1>8 DEF ShardInv

\* The block iterator has at most one handle to give back.
UnrefAll(c, B) == FoldSet(LAMBDA e, d : Unref(d, e), c, B)

IsUnrefs(it, c, B) ==
    it = [s \in SUBSET B |-> IF s = {} THEN c ELSE Unref(it[s \ {Chosen(s)}], Chosen(s))]

\* The release of a set of handles is the function that FoldSet() chooses.
LEMMA UnrefAllDef == \A c, B : UnrefAll(c, B) = (CHOOSE it : IsUnrefs(it, c, B))[B]
BY Zenon DEF UnrefAll, FoldSet, MapThenFoldSet, IsUnrefs, Chosen

\* What such a function is at each of the sets below B
LEMMA UnrefsAt ==
    \A it, c, B : IsUnrefs(it, c, B) =>
        /\ it[{}] = c
        /\ \A s \in SUBSET B : s # {} => it[s] = Unref(it[s \ {Chosen(s)}], Chosen(s))
BY Zenon DEF IsUnrefs

\* A block iterator without a handle releases none.
LEMMA UnrefNone == \A c : UnrefAll(c, {}) = c
<1> SUFFICES ASSUME NEW c PROVE UnrefAll(c, {}) = c
  OBVIOUS
<1> DEFINE g == [s \in SUBSET {} |-> c]
<1>1. \A s \in SUBSET {} : s = {}
  OBVIOUS
<1>2. g = [s \in SUBSET {} |-> IF s = {} THEN c ELSE Unref(g[s \ {Chosen(s)}], Chosen(s))]
  BY <1>1
<1> HIDE DEF g
<1>3. IsUnrefs(g, c, {})
  BY <1>2, Zenon DEF IsUnrefs
<1>4. IsUnrefs(CHOOSE it : IsUnrefs(it, c, {}), c, {})
  BY <1>3, Zenon
<1> QED BY <1>4, UnrefAllDef, UnrefsAt

\* A block iterator with a handle releases it.
LEMMA UnrefOne == \A c, e : UnrefAll(c, {e}) = Unref(c, e)
<1> SUFFICES ASSUME NEW c, NEW e PROVE UnrefAll(c, {e}) = Unref(c, e)
  OBVIOUS
<1> DEFINE g == [s \in SUBSET {e} |-> IF s = {} THEN c ELSE Unref(c, e)]
<1>1. \A s \in SUBSET {e} : s # {} => s = {e}
  OBVIOUS
<1>2. Chosen({e}) = e
  BY Zenon DEF Chosen
<1>3. g[{}] = c /\ {e} \ {e} = {}
  OBVIOUS
<1>4. \A s \in SUBSET {e} : s # {} => Chosen(s) = e /\ s \ {e} = {}
  BY <1>1, <1>2
<1>5. g = [s \in SUBSET {e} |-> IF s = {} THEN c ELSE Unref(g[s \ {Chosen(s)}], Chosen(s))]
  <2>1. ASSUME NEW s \in SUBSET {e}
        PROVE  g[s] = IF s = {} THEN c ELSE Unref(g[s \ {Chosen(s)}], Chosen(s))
    BY <1>3, <1>4
  <2>2. g = [s \in SUBSET {e} |-> g[s]]
    OBVIOUS
  <2> HIDE DEF g
  <2> QED BY <2>1, <2>2, Zenon
<1> HIDE DEF g
<1>6. IsUnrefs(g, c, {e})
  BY <1>5, Zenon DEF IsUnrefs
<1>7. PICK i : i = CHOOSE it : IsUnrefs(it, c, {e})
  OBVIOUS
<1>8. IsUnrefs(i, c, {e})
  BY <1>6, <1>7, Zenon
<1>9. UnrefAll(c, {e}) = i[{e}] /\ i[{}] = c
  BY <1>7, <1>8, UnrefAllDef, UnrefsAt, Zenon
<1>10. i[{e}] = Unref(i[{e} \ {Chosen({e})}], Chosen({e}))
  BY <1>8, UnrefsAt
<1> QED BY <1>2, <1>3, <1>9, <1>10

----------------------------------------------------------------------------
(* The references that threads have.                                       *)

Holders(f, e) == {t \in Threads : e \in f[t]}
Count(f) == [e \in Nat |-> Cardinality(Holders(f, e))]

\* The holders of a handle are threads, of which there are finitely many.
LEMMA HoldersFinite == \A f, e : IsFiniteSet(Holders(f, e)) /\ Cardinality(Holders(f, e)) \in Nat
BY CachesAssumption, FS_Subset, FS_CardinalityType DEF CachesAssumption, Holders

\* Every handle has a number of holders.
LEMMA CountType == \A f : Count(f) \in [Nat -> Nat]
BY HoldersFinite DEF Count

\* The thread t takes a reference to e, which is then counted.
Takes(f, g, t, e) ==
    /\ t \in Threads /\ e \in Nat /\ f = [u \in Threads |-> f[u]]
    /\ f[t] = {} /\ g = [f EXCEPT ![t] = {e}]
CountsUp(f, g, e)   == Count(g) = [Count(f) EXCEPT ![e] = @ + 1]
CountsDown(f, g, e) == Count(g) = [Count(f) EXCEPT ![e] = @ - 1] /\ Count(f)[e] > 0

\* A thread that takes a handle counts.
LEMMA CountTaken == \A f, g, t, e : Takes(f, g, t, e) => CountsUp(f, g, e)
<1> SUFFICES ASSUME NEW f, NEW g, NEW t, NEW e, Takes(f, g, t, e) PROVE CountsUp(f, g, e)
  OBVIOUS
<1> USE DEF Takes, CountsUp
<1>1. Holders(g, e) = Holders(f, e) \cup {t} /\ t \notin Holders(f, e)
  BY DEF Holders
<1>2. \A x \in Nat \ {e} : Holders(g, x) = Holders(f, x)
  BY DEF Holders
<1>3. Cardinality(Holders(g, e)) = Cardinality(Holders(f, e)) + 1
  BY <1>1, HoldersFinite, FS_AddElement
<1> QED BY <1>2, <1>3 DEF Count

\* A thread that releases a handle does not count any more.
LEMMA CountReleased == \A f, g, t, e : Takes(g, f, t, e) => CountsDown(f, g, e)
<1> SUFFICES ASSUME NEW f, NEW g, NEW t, NEW e, Takes(g, f, t, e) PROVE CountsDown(f, g, e)
  OBVIOUS
<1>1. Count(f) = [Count(g) EXCEPT ![e] = @ + 1]
  BY CountTaken DEF CountsUp
<1>2. e \in Nat /\ Count(g) \in [Nat -> Nat] /\ Count(f) \in [Nat -> Nat]
  BY CountType DEF Takes
<1>3. PICK a, b : a = Count(g) /\ b = Count(f)
  OBVIOUS
<1>4. a \in [Nat -> Nat] /\ b = [a EXCEPT ![e] = @ + 1]
  BY <1>1, <1>2, <1>3
<1>5. a = [b EXCEPT ![e] = @ - 1] /\ b[e] > 0
  <2>1. b[e] = a[e] + 1 /\ a[e] \in Nat /\ \A x \in Nat \ {e} : b[x] = a[x]
    BY <1>2, <1>4
  <2>2. b[e] - 1 = a[e] /\ b[e] > 0 /\ DOMAIN b = Nat /\ DOMAIN a = Nat
    BY <1>2, <1>3, <1>4, <2>1
  <2>3. a = [x \in Nat |-> IF x = e THEN b[e] - 1 ELSE b[x]]
    BY <1>4, <2>1, <2>2
  <2> QED BY <1>2, <2>2, <2>3
<1> QED BY <1>3, <1>5 DEF CountsDown

\* What a thread holds has a holder.
LEMMA CountHeld ==
    ASSUME NEW f, NEW t \in Threads, NEW e \in f[t], e \in Nat
    PROVE  Count(f)[e] > 0
<1>1. Holders(f, e) # {}
  BY DEF Holders
<1> QED BY <1>1, HoldersFinite, FS_EmptySet DEF Count

\* What has a holder is held by a thread.
LEMMA CountHolder ==
    ASSUME NEW f, NEW e \in Nat, Count(f)[e] > 0
    PROVE  \E t \in Threads : e \in f[t]
<1>1. Cardinality(Holders(f, e)) > 0
  BY DEF Count
<1>2. Holders(f, e) # {}
  BY <1>1, FS_EmptySet
<1> QED BY <1>2 DEF Holders

\* The tables and the blocks that a call has
TablesOf(r) == IF "th" \in DOMAIN r THEN {r.th} ELSE {}
BlocksOf(r) == IF "bh" \in DOMAIN r THEN r.bh ELSE {}
TableRefs   == [t \in Threads |-> TablesOf(thread[t])]
BlockRefs   == [t \in Threads |-> BlocksOf(thread[t])]

\* TableHeld and BlockHeld of the model are these counts.
LEMMA HeldAreCounted ==
    \A e \in Nat : TableHeld(e) = Count(TableRefs)[e] /\ BlockHeld(e) = Count(BlockRefs)[e]
<1> SUFFICES ASSUME NEW e \in Nat
             PROVE  TableHeld(e) = Count(TableRefs)[e] /\ BlockHeld(e) = Count(BlockRefs)[e]
  OBVIOUS
<1>1. Holders(TableRefs, e) = {t \in Threads : "th" \in DOMAIN thread[t] /\ thread[t].th = e}
  BY DEF Holders, TableRefs, TablesOf
<1>2. Holders(BlockRefs, e) = {t \in Threads : "bh" \in DOMAIN thread[t] /\ e \in thread[t].bh}
  BY DEF Holders, BlockRefs, BlocksOf
<1> QED BY <1>1, <1>2 DEF Count, TableHeld, BlockHeld

\* A step of the thread t, whose call goes on with some fields new
LEMMA GoesIs ==
    ASSUME NEW t \in Threads, thread = [u \in Threads |-> thread[u]], NEW to, Goes(t, to)
    PROVE  /\ thread' = [u \in Threads |-> thread'[u]]
           /\ \A u \in Threads \ {t} : thread'[u] = thread[u]
           /\ DOMAIN thread'[t] = DOMAIN to \cup DOMAIN thread[t]
           /\ \A x \in DOMAIN to : thread'[t][x] = to[x]
           /\ \A x \in DOMAIN thread[t] \ DOMAIN to : thread'[t][x] = thread[t][x]
BY DEF Goes

----------------------------------------------------------------------------
(* The invariant.                                                          *)

File        == [kind : {"mmap", "fd", "temporary"}, content : Nat, id : Nat]
BlockKeys   == Nat \X Offsets
BlockValues == Nat \X Offsets

\* The fields of a call, as far as it has come
Reading == {"read", "load", "block"}
CallOK(r) ==
    /\ r.pc \in {"none", "find", "open", "insert"} \cup Reading
    /\ r.pc = "none" => r = Quiet
    /\ r.pc # "none" => {"n", "content"} \subseteq DOMAIN r
    /\ r.pc = "insert" => r.file \in File /\ r.file.content = r.content
    /\ ("th" \in DOMAIN r) <=> r.pc \in Reading
    /\ "th" \in DOMAIN r => r.th \in Nat
    /\ "bh" \in DOMAIN r => r.pc \in Reading /\ (r.bh = {} \/ (r.pc = "block" /\ \E b \in Nat : r.bh = {b}))
    /\ r.pc \in {"load", "block"} => "off" \in DOMAIN r /\ r.off \in Offsets
    /\ r.pc = "block" => {"bh", "data"} \subseteq DOMAIN r /\ r.data = <<r.content, r.off>>

TypeInv ==
    /\ {contents, ids, mmaps, fds} \subseteq Nat
    /\ files \in Partial(Numbers, Nat)
    /\ thread = [t \in Threads |-> thread[t]] /\ \A t \in Threads : CallOK(thread[t])

\* A file that is read is not deleted, and the table is that of the file.
ReadersInv ==
    \A t \in Threads :
        /\ thread[t].pc # "none" => thread[t].n \in DOMAIN files /\ thread[t].content = files[thread[t].n]
        /\ "th" \in DOMAIN thread[t] => tables.handles[thread[t].th].value.content = thread[t].content

\* The cache has no table of a file that was deleted.
CachedInv ==
    \A e \in InCache(tables) :
        LET n == tables.handles[e].key
        IN  n \in DOMAIN files /\ tables.handles[e].value.content = files[n]

\* The files that are open, each by one handle or one thread that opens it, as
\* their ids tell
Openers   == {t \in Threads : thread[t].pc = "insert"}
TableFile(e) == tables.handles[e].value
Files     == {TableFile(e) : e \in DOMAIN tables.handles} \cup {thread[t].file : t \in Openers}

OpenInv ==
    /\ \A e \in DOMAIN tables.handles : TableFile(e).id <= ids
    /\ \A t \in Openers : thread[t].file.id <= ids
    /\ \A e, x \in DOMAIN tables.handles : TableFile(e).id = TableFile(x).id => e = x
    /\ \A t, u \in Openers : thread[t].file.id = thread[u].file.id => t = u
    /\ \A e \in DOMAIN tables.handles, t \in Openers : TableFile(e).id # thread[t].file.id

\* A block has the content of the file that has, or had, its id.
BlockIs(key, value) ==
    /\ key[1] <= ids /\ value[2] = key[2]
    /\ \A f \in Files : f.id = key[1] => f.content = value[1]
BlocksInv ==
    \A b \in DOMAIN blocks.handles : BlockIs(blocks.handles[b].key, blocks.handles[b].value)

LimitsInv ==
    mmaps + MappedFiles(Files) = MmapLimit /\ fds + FdFiles(Files) = FdLimit

TablesShard == ShardInv(tables, Count(TableRefs), {}, Numbers, File)
BlocksShard == ShardInv(blocks, Count(BlockRefs), {}, BlockKeys, BlockValues)

CachesInv ==
    /\ TypeInv /\ TablesShard /\ BlocksShard /\ ReadersInv /\ CachedInv /\ OpenInv /\ BlocksInv
    /\ LimitsInv

\* The step of one thread
LEMMA RefsStep ==
    ASSUME NEW t \in Threads, thread = [u \in Threads |-> thread[u]],
           thread' = [u \in Threads |-> thread'[u]],
           \A u \in Threads \ {t} : thread'[u] = thread[u]
    PROVE  /\ TableRefs' = [TableRefs EXCEPT ![t] = TablesOf(thread'[t])]
           /\ BlockRefs' = [BlockRefs EXCEPT ![t] = BlocksOf(thread'[t])]
           /\ TableRefs = [u \in Threads |-> TableRefs[u]]
           /\ BlockRefs = [u \in Threads |-> BlockRefs[u]]
           /\ TableRefs[t] = TablesOf(thread[t]) /\ BlockRefs[t] = BlocksOf(thread[t])
           /\ TablesOf(thread'[t]) = TablesOf(thread[t]) => TableRefs' = TableRefs
           /\ BlocksOf(thread'[t]) = BlocksOf(thread[t]) => BlockRefs' = BlockRefs
<1>1. \A u \in Threads \ {t} : TablesOf(thread'[u]) = TablesOf(thread[u])
                               /\ BlocksOf(thread'[u]) = BlocksOf(thread[u])
  OBVIOUS
<1> QED BY <1>1 DEF TableRefs, BlockRefs

\* The table and the blocks of a reader are there.
LEMMA ReadersHave ==
    ASSUME TypeInv, TablesShard, BlocksShard, NEW t \in Threads
    PROVE  /\ "th" \in DOMAIN thread[t] => /\ thread[t].th \in Nat /\ Count(TableRefs)[thread[t].th] > 0
                                           /\ thread[t].th \in DOMAIN tables.handles
           /\ \A b \in BlocksOf(thread[t]) : b \in DOMAIN blocks.handles
<1>1. CallOK(thread[t])
  BY DEF TypeInv
<1>2. ASSUME "th" \in DOMAIN thread[t]
      PROVE  /\ thread[t].th \in Nat /\ Count(TableRefs)[thread[t].th] > 0
             /\ thread[t].th \in DOMAIN tables.handles
  <2>1. thread[t].th \in Nat
    BY <1>1, <1>2 DEF CallOK
  <2>2. thread[t].th \in TableRefs[t]
    BY <1>2 DEF TableRefs, TablesOf
  <2>3. Count(TableRefs)[thread[t].th] > 0
    BY <2>1, <2>2, CountHeld
  <2>4. thread[t].th \in DOMAIN tables.handles
    BY <2>1, <2>3, HeldIsThere DEF TablesShard
  <2> QED BY <2>1, <2>3, <2>4
<1>3. ASSUME NEW b \in BlocksOf(thread[t])
      PROVE  b \in DOMAIN blocks.handles
  <2>1. b \in Nat
    BY <1>1, <1>3 DEF CallOK, BlocksOf
  <2>2. b \in BlockRefs[t]
    BY <1>3 DEF BlockRefs
  <2>3. Count(BlockRefs)[b] > 0
    BY <2>1, <2>2, CountHeld
  <2> QED BY <2>1, <2>3, HeldIsThere DEF BlocksShard
<1> QED BY <1>2, <1>3

\* What the shard of the tables says of the files
LEMMA TableFilesAre ==
    ASSUME TypeInv, TablesShard
    PROVE  /\ \A e \in DOMAIN tables.handles : /\ e \in Nat /\ TableFile(e) \in File
                                               /\ tables.handles[e].key \in Numbers
           /\ \A t \in Openers : thread[t].file \in File
           /\ Files \in SUBSET File /\ IsFiniteSet(Files)
<1>1. IsFiniteSet(DOMAIN tables.handles) /\ tables.handles \in Partial(Nat, Handle(Numbers, File))
      /\ \A e \in DOMAIN tables.handles : e \in Nat /\ tables.handles[e] \in Handle(Numbers, File)
  BY HandlesAre DEF TablesShard, ShardInv
<1>2. \A e \in DOMAIN tables.handles : TableFile(e) \in File /\ tables.handles[e].key \in Numbers
  BY <1>1 DEF Handle, TableFile
<1>3. \A t \in Openers : thread[t].file \in File
  BY DEF TypeInv, CallOK, Openers
<1>4. IsFiniteSet({TableFile(e) : e \in DOMAIN tables.handles})
  <2> DEFINE A == {TableFile(e) : e \in DOMAIN tables.handles}
             f == [e \in DOMAIN tables.handles |-> TableFile(e)]
  <2>1. f \in Surjection(DOMAIN tables.handles, A)
    BY DEF Surjection
  <2> QED BY <1>1, <2>1, FS_Surjection
<1>5. IsFiniteSet({thread[t].file : t \in Openers})
  <2> DEFINE A == {thread[t].file : t \in Openers}
             f == [t \in Openers |-> thread[t].file]
  <2>1. f \in Surjection(Openers, A)
    BY DEF Surjection
  <2>2. IsFiniteSet(Openers)
    BY CachesAssumption, FS_Subset DEF CachesAssumption, Openers
  <2> QED BY <2>1, <2>2, FS_Surjection
<1>6. IsFiniteSet(Files)
  BY <1>4, <1>5, FS_Union DEF Files
<1> QED BY <1>1, <1>2, <1>3, <1>6 DEF Files

----------------------------------------------------------------------------
(* What the open files took from the Limiters.                             *)

\* The files of a kind, when some of the files are closed
LEMMA KindsWithout ==
    ASSUME NEW F, IsFiniteSet(F), NEW G \in SUBSET F
    PROVE  /\ MappedFiles(F \ G) = MappedFiles(F) - MappedFiles(G)
           /\ FdFiles(F \ G) = FdFiles(F) - FdFiles(G)
           /\ {MappedFiles(F), MappedFiles(G), FdFiles(F), FdFiles(G)} \subseteq Nat
<1> DEFINE M(X) == {f \in X : f.kind = "mmap"}
           D(X) == {f \in X : f.kind = "fd"}
<1>1. /\ M(F \ G) = M(F) \ M(G) /\ M(F) \cap M(G) = M(G)
      /\ D(F \ G) = D(F) \ D(G) /\ D(F) \cap D(G) = D(G)
  OBVIOUS
<1>2. IsFiniteSet(M(F)) /\ IsFiniteSet(M(G)) /\ IsFiniteSet(D(F)) /\ IsFiniteSet(D(G))
  <2>1. M(F) \in SUBSET F /\ M(G) \in SUBSET F /\ D(F) \in SUBSET F /\ D(G) \in SUBSET F
    OBVIOUS
  <2> HIDE DEF M, D
  <2> QED BY <2>1, FS_Subset
<1>3. /\ MappedFiles(F) = Cardinality(M(F)) /\ MappedFiles(G) = Cardinality(M(G))
      /\ MappedFiles(F \ G) = Cardinality(M(F \ G))
      /\ FdFiles(F) = Cardinality(D(F)) /\ FdFiles(G) = Cardinality(D(G))
      /\ FdFiles(F \ G) = Cardinality(D(F \ G))
  BY DEF MappedFiles, FdFiles
<1> HIDE DEF M, D
<1>4. /\ Cardinality(M(F) \ M(G)) = Cardinality(M(F)) - Cardinality(M(F) \cap M(G))
      /\ Cardinality(D(F) \ D(G)) = Cardinality(D(F)) - Cardinality(D(F) \cap D(G))
  BY <1>2, FS_Difference
<1>5. {Cardinality(M(F)), Cardinality(M(G)), Cardinality(D(F)), Cardinality(D(G))} \subseteq Nat
  BY <1>2, FS_CardinalityType
<1> QED BY <1>1, <1>3, <1>4, <1>5

\* What one file takes from each Limiter
LEMMA KindsOfOne ==
    ASSUME NEW f
    PROVE  /\ MappedFiles({f}) = IF f.kind = "mmap" THEN 1 ELSE 0
           /\ FdFiles({f}) = IF f.kind = "fd" THEN 1 ELSE 0
<1>1. /\ {g \in {f} : g.kind = "mmap"} = IF f.kind = "mmap" THEN {f} ELSE {}
      /\ {g \in {f} : g.kind = "fd"} = IF f.kind = "fd" THEN {f} ELSE {}
  OBVIOUS
<1>2. Cardinality({f}) = 1 /\ Cardinality({}) = 0
  BY FS_Singleton, FS_EmptySet
<1> QED BY <1>1, <1>2 DEF MappedFiles, FdFiles

\* When handles go, their files are closed, and the others stay as they are.
LEMMA ClosedInv ==
    ASSUME TypeInv, TablesShard, OpenInv, LimitsInv, NEW d, CloseTables(d), ids' = ids,
           DOMAIN d.handles \subseteq DOMAIN tables.handles,
           \A e \in DOMAIN d.handles : d.handles[e].value = tables.handles[e].value,
           Openers' = Openers, \A t \in Openers : thread'[t].file = thread[t].file
    PROVE  OpenInv' /\ LimitsInv' /\ Files' \subseteq Files /\ mmaps' \in Nat /\ fds' \in Nat
<1>1. /\ tables' = d /\ mmaps' = mmaps + MappedFiles(Freed(tables, d))
      /\ fds' = fds + FdFiles(Freed(tables, d))
  BY DEF CloseTables
<1>2. \A e \in DOMAIN d.handles : e \in DOMAIN tables.handles /\ TableFile(e)' = TableFile(e)
  BY <1>1 DEF TableFile
<1>3. OpenInv'
  BY <1>1, <1>2 DEF OpenInv
<1>4. Freed(tables, d) = {TableFile(e) : e \in DOMAIN tables.handles \ DOMAIN d.handles}
  BY DEF Freed, TableFile
<1>5. Files' = {TableFile(e) : e \in DOMAIN d.handles} \cup {thread[t].file : t \in Openers}
  BY <1>1, <1>2 DEF Files
<1>6. Freed(tables, d) \in SUBSET Files
  BY <1>4 DEF Files
<1>7. Files' = Files \ Freed(tables, d)
  <2>1. \A e \in DOMAIN d.handles : TableFile(e) \notin Freed(tables, d)
    BY <1>2, <1>4 DEF OpenInv
  <2>2. \A t \in Openers : thread[t].file \notin Freed(tables, d)
    BY <1>4 DEF OpenInv
  <2>3. \A e \in DOMAIN tables.handles \ DOMAIN d.handles : TableFile(e) \in Freed(tables, d)
    BY <1>4
  <2>4. Files = {TableFile(e) : e \in DOMAIN tables.handles} \cup {thread[t].file : t \in Openers}
    BY DEF Files
  <2> QED BY <1>2, <1>5, <2>1, <2>2, <2>3, <2>4
<1>8. /\ MappedFiles(Files') = MappedFiles(Files) - MappedFiles(Freed(tables, d))
      /\ FdFiles(Files') = FdFiles(Files) - FdFiles(Freed(tables, d))
      /\ {MappedFiles(Files), MappedFiles(Freed(tables, d)), FdFiles(Files),
          FdFiles(Freed(tables, d))} \subseteq Nat
  BY <1>6, <1>7, TableFilesAre, KindsWithout
<1>9. mmaps \in Nat /\ fds \in Nat
  BY DEF TypeInv
<1>10. MappedFiles(Files)' = MappedFiles(Files') /\ FdFiles(Files)' = FdFiles(Files')
  BY DEF MappedFiles, FdFiles
<1>11. LimitsInv'
  BY <1>1, <1>8, <1>9, <1>10 DEF LimitsInv
<1> QED BY <1>1, <1>3, <1>7, <1>8, <1>9, <1>11

----------------------------------------------------------------------------
(* Each step keeps the invariant.                                          *)

\* The counts after a step, by what threads then hold
LEMMA CountsPrime ==
    /\ Count(TableRefs)' = Count(TableRefs') /\ Count(BlockRefs)' = Count(BlockRefs')
    /\ thread' = thread => /\ TableRefs' = TableRefs /\ BlockRefs' = BlockRefs
                           /\ Openers' = Openers
BY DEF Count, Holders, TableRefs, BlockRefs, Openers

\* Blocks stay right when no file is opened and blocks only go.
LEMMA BlocksKept ==
    ASSUME BlocksInv, Files' \subseteq Files, ids' \in Nat, ids \in Nat, ids' >= ids, BlocksShard,
           \A b \in DOMAIN blocks'.handles :
               /\ b \in DOMAIN blocks.handles
               /\ blocks'.handles[b].key = blocks.handles[b].key
               /\ blocks'.handles[b].value = blocks.handles[b].value
    PROVE  BlocksInv'
<1> SUFFICES ASSUME NEW b \in DOMAIN blocks'.handles
             PROVE  BlockIs(blocks.handles[b].key, blocks.handles[b].value)'
  BY DEF BlocksInv
<1>1. b \in DOMAIN blocks.handles /\ BlockIs(blocks.handles[b].key, blocks.handles[b].value)
  BY DEF BlocksInv
<1>2. blocks.handles[b].key \in BlockKeys
  BY <1>1, HandlesAre DEF BlocksShard, ShardInv, Handle
<1>3. blocks.handles[b].key[1] \in Nat
  BY <1>2 DEF BlockKeys
<1> QED BY <1>1, <1>3 DEF BlockIs

\* Blocks stay right when no file is opened.
LEMMA BlocksSame ==
    ASSUME BlocksInv, Files' \subseteq Files, ids \in Nat, ids' = ids, BlocksShard,
           blocks' = blocks
    PROVE  BlocksInv'
BY BlocksKept

\* NewTable keeps the invariant.
LEMMA NewTableInv == ASSUME CachesInv, NEW n \in Numbers, NewTable(n) PROVE CachesInv'
<1>1. /\ n \notin DOMAIN files /\ files' = Put(files, n, contents + 1) /\ contents' = contents + 1
      /\ UNCHANGED <<tables, blocks, mmaps, fds, ids, thread>>
  BY DEF NewTable, cacheVars, limitVars
<1>2. TypeInv /\ TablesShard /\ BlocksShard /\ ReadersInv /\ CachedInv /\ OpenInv /\ BlocksInv
      /\ LimitsInv
  BY DEF CachesInv
<1>3. \A m \in DOMAIN files : m \in DOMAIN files' /\ files'[m] = files[m]
  BY <1>1 DEF Put
<1>4. TypeInv'
  BY <1>1, <1>2, PutPartial DEF TypeInv
<1>5. TablesShard' /\ BlocksShard'
  BY <1>1, <1>2, CountsPrime DEF TablesShard, BlocksShard
<1>6. ReadersInv' /\ CachedInv'
  BY <1>1, <1>2, <1>3 DEF ReadersInv, CachedInv
<1>7. Openers' = Openers /\ Files' = Files
  BY <1>1 DEF Openers, Files, TableFile
<1>8. OpenInv' /\ LimitsInv'
  BY <1>1, <1>2, <1>7 DEF OpenInv, LimitsInv, TableFile, MappedFiles, FdFiles
<1>9. BlocksInv'
  BY <1>1, <1>2, <1>7, BlocksSame DEF TypeInv
<1> QED BY <1>4, <1>5, <1>6, <1>8, <1>9 DEF CachesInv

\* DeleteTable keeps the invariant: Erase() takes the table of the file.
LEMMA DeleteTableInv == ASSUME CachesInv, NEW n \in Numbers, DeleteTable(n) PROVE CachesInv'
<1>1. /\ n \in DOMAIN files /\ ~InUse(n) /\ files' = Removed(files, n)
      /\ CloseTables(Erase(tables, n)) /\ UNCHANGED <<blocks, contents, ids, thread>>
  BY DEF DeleteTable, Evicted
<1>2. TypeInv /\ TablesShard /\ BlocksShard /\ ReadersInv /\ CachedInv /\ OpenInv /\ BlocksInv
      /\ LimitsInv
  BY DEF CachesInv
<1>3. PICK d : d = Erase(tables, n)
  OBVIOUS
<1>4. ShardInv(d, Count(TableRefs), {}, Numbers, File)
      /\ Erased(tables, d, ErasedBy(tables, n), Count(TableRefs))
  BY <1>2, <1>3, EraseInv DEF TablesShard
<1>5. /\ DOMAIN d.handles \subseteq DOMAIN tables.handles
      /\ \A e \in DOMAIN d.handles : /\ d.handles[e].key = tables.handles[e].key
                                     /\ d.handles[e].value = tables.handles[e].value
      /\ InCache(d) = InCache(tables) \ ErasedBy(tables, n)
      /\ \A e \in DOMAIN tables.handles \ DOMAIN d.handles : Count(TableRefs)[e] = 0
  BY <1>4 DEF Erased, Shrinks
<1>6. tables' = d /\ CloseTables(d)
  BY <1>1, <1>3 DEF CloseTables
<1>7. /\ TableRefs' = TableRefs /\ BlockRefs' = BlockRefs /\ Openers' = Openers
      /\ \A t \in Openers : thread'[t].file = thread[t].file
  BY <1>1, CountsPrime
<1>8. OpenInv' /\ LimitsInv' /\ Files' \subseteq Files /\ mmaps' \in Nat /\ fds' \in Nat
  BY <1>1, <1>2, <1>5, <1>6, <1>7, ClosedInv
<1>9. \A m \in DOMAIN files \ {n} : m \in DOMAIN files' /\ files'[m] = files[m]
  BY <1>1, RemovedIs
<1>10. TypeInv'
  BY <1>1, <1>2, <1>8, RemovedPartial DEF TypeInv
<1>11. TablesShard' /\ BlocksShard'
  BY <1>1, <1>2, <1>4, <1>6, <1>7, CountsPrime DEF TablesShard, BlocksShard
<1>12. ReadersInv'
  <2> SUFFICES ASSUME NEW t \in Threads
               PROVE  /\ thread[t].pc # "none" => thread[t].n \in DOMAIN files'
                                                  /\ thread[t].content = files'[thread[t].n]
                      /\ "th" \in DOMAIN thread[t] =>
                            d.handles[thread[t].th].value.content = thread[t].content
    BY <1>1, <1>6 DEF ReadersInv
  <2>1. thread[t].pc # "none" => thread[t].n # n
    BY <1>1 DEF InUse
  <2>2. "th" \in DOMAIN thread[t] => thread[t].th \in DOMAIN d.handles
    BY <1>2, <1>5, ReadersHave
  <2> QED BY <1>2, <1>5, <1>9, <2>1, <2>2 DEF ReadersInv
<1>13. CachedInv'
  <2> SUFFICES ASSUME NEW e \in InCache(d)
               PROVE  /\ tables.handles[e].key \in DOMAIN files'
                      /\ tables.handles[e].value.content = files'[tables.handles[e].key]
    BY <1>5, <1>6 DEF CachedInv, InCache
  <2>1. e \in InCache(tables) /\ e \notin ErasedBy(tables, n)
    BY <1>5
  <2>2. tables.handles[e].key # n
    BY <1>2, <2>1 DEF ErasedBy, TablesShard, ShardInv, TableInv
  <2> QED BY <1>2, <1>9, <2>1, <2>2 DEF CachedInv
<1>14. BlocksInv'
  BY <1>1, <1>2, <1>8, BlocksSame DEF TypeInv
<1> QED BY <1>8, <1>10, <1>11, <1>12, <1>13, <1>14 DEF CachesInv

\* The open files stay what they are, and with them the Limiters.
LEMMA OpenSame ==
    ASSUME OpenInv, LimitsInv, UNCHANGED <<mmaps, fds, ids>>, Openers' = Openers,
           \A t \in Openers : thread'[t].file = thread[t].file,
           DOMAIN tables'.handles = DOMAIN tables.handles,
           \A e \in DOMAIN tables.handles : tables'.handles[e].value = tables.handles[e].value
    PROVE  OpenInv' /\ LimitsInv' /\ Files' = Files
<1>1. \A e \in DOMAIN tables.handles : TableFile(e)' = TableFile(e)
  BY DEF TableFile
<1>2. OpenInv'
  BY <1>1 DEF OpenInv
<1>3. Files' = Files
  BY <1>1 DEF Files
<1> QED BY <1>2, <1>3 DEF LimitsInv, MappedFiles, FdFiles

\* The handles are for what they were for.
SameHandles(c, d) ==
    /\ DOMAIN d.handles = DOMAIN c.handles /\ InCache(d) \subseteq InCache(c)
    /\ \A e \in DOMAIN c.handles : /\ d.handles[e].key = c.handles[e].key
                                   /\ d.handles[e].value = c.handles[e].value

\* What stays when the thread t goes on, but opens no file and closes none
LEMMA ReaderGoes ==
    ASSUME CachesInv, NEW t \in Threads, thread' = [u \in Threads |-> thread'[u]],
           \A u \in Threads \ {t} : thread'[u] = thread[u],
           CallOK(thread'[t]), thread[t].pc # "insert", thread'[t].pc \notin {"insert", "none"},
           thread'[t].n \in DOMAIN files, thread'[t].content = files[thread'[t].n],
           "th" \in DOMAIN thread'[t] =>
              /\ thread'[t].th \in DOMAIN tables.handles
              /\ tables.handles[thread'[t].th].value.content = thread'[t].content,
           SameHandles(tables, tables'), UNCHANGED <<files, contents, mmaps, fds, ids>>
    PROVE  TypeInv' /\ ReadersInv' /\ CachedInv' /\ OpenInv' /\ LimitsInv' /\ Files' = Files
<1>1. TypeInv /\ TablesShard /\ BlocksShard /\ ReadersInv /\ CachedInv /\ OpenInv /\ LimitsInv
  BY DEF CachesInv
<1>2. Openers' = Openers /\ t \notin Openers
  BY DEF Openers
<1>3. OpenInv' /\ LimitsInv' /\ Files' = Files
  <2>1. \A u \in Openers : thread'[u].file = thread[u].file
    BY <1>2 DEF Openers
  <2> QED BY <1>1, <1>2, <2>1, OpenSame DEF SameHandles
<1>4. TypeInv'
  <2>1. \A u \in Threads : CallOK(thread'[u])
    BY <1>1 DEF TypeInv
  <2> QED BY <1>1, <2>1 DEF TypeInv
<1>5. ReadersInv'
  <2> SUFFICES ASSUME NEW u \in Threads
               PROVE  /\ thread'[u].pc # "none" => thread'[u].n \in DOMAIN files
                                                   /\ thread'[u].content = files[thread'[u].n]
                      /\ "th" \in DOMAIN thread'[u] =>
                            tables'.handles[thread'[u].th].value.content = thread'[u].content
    BY DEF ReadersInv
  <2>1. CASE u = t
    BY <2>1 DEF SameHandles
  <2>2. CASE u # t
    <3>1. thread'[u] = thread[u]
      BY <2>2
    <3>2. "th" \in DOMAIN thread[u] => thread[u].th \in DOMAIN tables.handles
      BY <1>1, ReadersHave
    <3> QED BY <1>1, <3>1, <3>2 DEF ReadersInv, SameHandles
  <2> QED BY <2>1, <2>2
<1>6. CachedInv'
  BY <1>1 DEF CachedInv, SameHandles, InCache
<1> QED BY <1>3, <1>4, <1>5, <1>6

\* A shard that is unchanged has the same handles.
LEMMA SameHandlesSame == \A c : SameHandles(c, c)
BY DEF SameHandles

\* StartRead keeps the invariant.
LEMMA StartReadInv ==
    ASSUME CachesInv, NEW t \in Threads, NEW n \in Numbers, StartRead(t, n)
    PROVE  CachesInv'
<1> DEFINE r == [pc |-> "find", n |-> n, content |-> files[n]]
<1>1. /\ thread[t] = Quiet /\ n \in DOMAIN files /\ thread' = [thread EXCEPT ![t] = r]
      /\ UNCHANGED <<tables, blocks, files, contents, mmaps, fds, ids>>
  BY DEF StartRead, cacheVars, fileVars, limitVars
<1>2. TypeInv /\ TablesShard /\ BlocksShard /\ BlocksInv
  BY DEF CachesInv
<1>3. /\ thread = [u \in Threads |-> thread[u]] /\ thread' = [u \in Threads |-> thread'[u]]
      /\ thread'[t] = r /\ \A u \in Threads \ {t} : thread'[u] = thread[u]
  BY <1>1, <1>2 DEF TypeInv
<1>4. /\ r.pc = "find" /\ r.n = n /\ r.content = files[n] /\ DOMAIN r = {"pc", "n", "content"}
      /\ Quiet.pc = "none" /\ DOMAIN Quiet = {"pc"}
  BY DEF Quiet
<1> HIDE DEF r
<1>5. CallOK(r) /\ TablesOf(r) = {} /\ BlocksOf(r) = {}
  BY <1>4 DEF CallOK, TablesOf, BlocksOf, Reading
<1>6. TablesOf(thread[t]) = {} /\ BlocksOf(thread[t]) = {}
  BY <1>1, <1>4 DEF TablesOf, BlocksOf
<1>7. TypeInv' /\ ReadersInv' /\ CachedInv' /\ OpenInv' /\ LimitsInv' /\ Files' = Files
  BY <1>1, <1>3, <1>4, <1>5, SameHandlesSame, ReaderGoes
<1>8. TablesShard' /\ BlocksShard'
  BY <1>1, <1>2, <1>3, <1>5, <1>6, RefsStep, CountsPrime DEF TablesShard, BlocksShard
<1>9. BlocksInv'
  BY <1>1, <1>2, <1>7, BlocksSame DEF TypeInv
<1> QED BY <1>7, <1>8, <1>9 DEF CachesInv

\* FindTable keeps the invariant when the table is not in the cache.
LEMMA FindTableMissInv ==
    ASSUME CachesInv, NEW t \in Threads, thread[t].pc = "find", Goes(t, [pc |-> "open"]),
           UNCHANGED <<tables, blocks, files, contents, mmaps, fds, ids>>
    PROVE  CachesInv'
<1> DEFINE r == thread[t]
           q == thread'[t]
<1>1. TypeInv /\ TablesShard /\ BlocksShard /\ ReadersInv /\ BlocksInv
  BY DEF CachesInv
<1>2. /\ thread = [u \in Threads |-> thread[u]] /\ thread' = [u \in Threads |-> thread'[u]]
      /\ \A u \in Threads \ {t} : thread'[u] = thread[u]
      /\ DOMAIN q = {"pc"} \cup DOMAIN r /\ q.pc = "open"
      /\ \A x \in DOMAIN r \ {"pc"} : q[x] = r[x]
  <2>1. thread = [u \in Threads |-> thread[u]]
    BY <1>1 DEF TypeInv
  <2>2. DOMAIN [pc |-> "open"] = {"pc"} /\ [pc |-> "open"]["pc"] = "open"
    OBVIOUS
  <2> QED BY <2>1, <2>2, GoesIs
<1>3. /\ CallOK(r) /\ r.pc = "find" /\ {"n", "content"} \subseteq DOMAIN r
      /\ "th" \notin DOMAIN r /\ "bh" \notin DOMAIN r
  BY <1>1 DEF TypeInv, CallOK, Reading
<1>4. q.n = r.n /\ q.content = r.content /\ "th" \notin DOMAIN q /\ "bh" \notin DOMAIN q
  BY <1>2, <1>3
<1> HIDE DEF q, r
<1>5. CallOK(q)
  BY <1>2, <1>3, <1>4 DEF CallOK, Reading
<1>6. TablesOf(q) = TablesOf(r) /\ BlocksOf(q) = BlocksOf(r)
  BY <1>3, <1>4 DEF TablesOf, BlocksOf
<1>7. r.n \in DOMAIN files /\ r.content = files[r.n]
  BY <1>1, <1>3 DEF ReadersInv, r
<1>8. TypeInv' /\ ReadersInv' /\ CachedInv' /\ OpenInv' /\ LimitsInv' /\ Files' = Files
  BY <1>2, <1>3, <1>4, <1>5, <1>7, SameHandlesSame, ReaderGoes DEF q, r
<1>9. TablesShard' /\ BlocksShard'
  BY <1>1, <1>2, <1>6, RefsStep, CountsPrime DEF TablesShard, BlocksShard, q, r
<1>10. BlocksInv'
  BY <1>1, <1>8, BlocksSame DEF TypeInv
<1> QED BY <1>8, <1>9, <1>10 DEF CachesInv

\* FindTable keeps the invariant when the table is in the cache.
LEMMA FindTableHitInv ==
    ASSUME CachesInv, NEW t \in Threads, thread[t].pc = "find", Holds(tables.table, thread[t].n),
           NEW e, e = tables.table[thread[t].n], tables' = Ref(tables, e),
           Goes(t, [pc |-> "read", th |-> e]),
           UNCHANGED <<blocks, files, contents, mmaps, fds, ids>>
    PROVE  CachesInv'
<1> DEFINE r  == thread[t]
           q  == thread'[t]
           to == [pc |-> "read", th |-> e]
<1>1. TypeInv /\ TablesShard /\ BlocksShard /\ ReadersInv /\ CachedInv /\ BlocksInv
  BY DEF CachesInv
<1>2. /\ thread = [u \in Threads |-> thread[u]] /\ thread' = [u \in Threads |-> thread'[u]]
      /\ \A u \in Threads \ {t} : thread'[u] = thread[u]
      /\ DOMAIN q = {"pc", "th"} \cup DOMAIN r /\ q.pc = "read" /\ q.th = e
      /\ \A x \in DOMAIN r \ {"pc", "th"} : q[x] = r[x]
  <2>1. thread = [u \in Threads |-> thread[u]]
    BY <1>1 DEF TypeInv
  <2>2. DOMAIN to = {"pc", "th"} /\ to["pc"] = "read" /\ to["th"] = e
    OBVIOUS
  <2> HIDE DEF to
  <2> QED BY <2>1, <2>2, GoesIs DEF to
<1>3. /\ CallOK(r) /\ r.pc = "find" /\ {"n", "content"} \subseteq DOMAIN r
      /\ "th" \notin DOMAIN r /\ "bh" \notin DOMAIN r
  BY <1>1 DEF TypeInv, CallOK, Reading
<1>4. q.n = r.n /\ q.content = r.content /\ "th" \in DOMAIN q /\ "bh" \notin DOMAIN q
  BY <1>2, <1>3
<1>5. r.n \in DOMAIN files /\ r.content = files[r.n]
  BY <1>1, <1>3 DEF ReadersInv
<1>6. e \in InCache(tables) /\ tables.handles[e].key = r.n
  BY <1>1 DEF TablesShard, ShardInv, TableInv, Holds
<1>7. e \in DOMAIN tables.handles /\ e \in Nat /\ tables.handles[e].value.content = r.content
  <2>1. e \in DOMAIN tables.handles
    BY <1>6 DEF InCache
  <2>2. tables.handles[e].value.content = files[r.n]
    BY <1>1, <1>6 DEF CachedInv
  <2> QED BY <1>1, <1>5, <2>1, <2>2, TableFilesAre
<1> HIDE DEF q, r
<1>8. CallOK(q)
  BY <1>2, <1>3, <1>4, <1>7 DEF CallOK, Reading
<1>9. /\ ShardInv(tables', [Count(TableRefs) EXCEPT ![e] = @ + 1], {}, Numbers, File)
      /\ Shrinks(tables, tables') /\ DOMAIN tables'.handles = DOMAIN tables.handles
  BY <1>1, <1>6, RefInv DEF TablesShard
<1>10. SameHandles(tables, tables')
  BY <1>9 DEF SameHandles, Shrinks
<1>11. TypeInv' /\ ReadersInv' /\ CachedInv' /\ OpenInv' /\ LimitsInv' /\ Files' = Files
  <2>1. q.th = e /\ tables.handles[q.th].value.content = q.content
    BY <1>2, <1>4, <1>7
  <2>2. thread[t].pc # "insert" /\ thread'[t].pc \notin {"insert", "none"}
    BY <1>2, <1>3 DEF q, r
  <2> QED BY <1>2, <1>4, <1>5, <1>7, <1>8, <1>10, <2>1, <2>2, ReaderGoes DEF q, r
<1>12. /\ TablesOf(r) = {} /\ TablesOf(q) = {e} /\ BlocksOf(q) = BlocksOf(r)
  BY <1>2, <1>3, <1>4 DEF TablesOf, BlocksOf
<1>13. /\ TableRefs' = [TableRefs EXCEPT ![t] = {e}] /\ BlockRefs' = BlockRefs
       /\ TableRefs[t] = {} /\ TableRefs = [u \in Threads |-> TableRefs[u]]
  BY <1>2, <1>12, RefsStep DEF q, r
<1>14. Count(TableRefs') = [Count(TableRefs) EXCEPT ![e] = @ + 1]
  <2>1. Takes(TableRefs, TableRefs', t, e)
    BY <1>7, <1>13 DEF Takes
  <2>2. CountsUp(TableRefs, TableRefs', e)
    BY <2>1, CountTaken
  <2> QED BY <2>2 DEF CountsUp
<1>15. TablesShard' /\ BlocksShard'
  BY <1>1, <1>9, <1>13, <1>14, CountsPrime DEF TablesShard, BlocksShard
<1>16. BlocksInv'
  BY <1>1, <1>11, BlocksSame DEF TypeInv
<1> QED BY <1>11, <1>15, <1>16 DEF CachesInv

\* FindTable keeps the invariant.
LEMMA FindTableInv ==
    ASSUME CachesInv, NEW t \in Threads, FindTable(t)
    PROVE  CachesInv'
<1>1. thread[t].pc = "find" /\ UNCHANGED <<blocks, files, contents, mmaps, fds, ids>>
  BY DEF FindTable, fileVars, limitVars
<1>2. CASE Holds(tables.table, thread[t].n)
  BY <1>1, <1>2, FindTableHitInv DEF FindTable, Lookup
<1>3. CASE ~Holds(tables.table, thread[t].n)
  BY <1>1, <1>3, FindTableMissInv DEF FindTable
<1> QED BY <1>2, <1>3

\* OpenFails keeps the invariant: the Limiters get back what the file took.
LEMMA OpenFailsInv ==
    ASSUME CachesInv, NEW t \in Threads, OpenFails(t)
    PROVE  CachesInv'
<1> DEFINE f == thread[t].file
<1>1. /\ thread[t].pc = "insert" /\ thread' = [thread EXCEPT ![t] = Quiet]
      /\ mmaps' = mmaps + MappedFiles({f}) /\ fds' = fds + FdFiles({f})
      /\ UNCHANGED <<tables, blocks, files, contents, ids>>
  BY DEF OpenFails, cacheVars, fileVars
<1>2. TypeInv /\ TablesShard /\ BlocksShard /\ ReadersInv /\ CachedInv /\ OpenInv /\ BlocksInv
      /\ LimitsInv
  BY DEF CachesInv
<1>3. /\ thread = [u \in Threads |-> thread[u]] /\ thread' = [u \in Threads |-> thread'[u]]
      /\ thread'[t] = Quiet /\ \A u \in Threads \ {t} : thread'[u] = thread[u]
  BY <1>1, <1>2 DEF TypeInv
<1>4. Quiet.pc = "none" /\ DOMAIN Quiet = {"pc"}
  BY DEF Quiet
<1>5. CallOK(Quiet) /\ TablesOf(Quiet) = {} /\ BlocksOf(Quiet) = {}
  BY <1>4 DEF CallOK, TablesOf, BlocksOf, Reading
<1>6. TablesOf(thread[t]) = {} /\ BlocksOf(thread[t]) = {}
  BY <1>1, <1>2 DEF TypeInv, CallOK, TablesOf, BlocksOf, Reading
<1>7. TablesShard' /\ BlocksShard'
  BY <1>1, <1>2, <1>3, <1>5, <1>6, RefsStep, CountsPrime DEF TablesShard, BlocksShard
<1>8. t \in Openers /\ Openers' = Openers \ {t}
  BY <1>1, <1>3, <1>4 DEF Openers
<1>9. Files' = Files \ {f} /\ f \in Files
  <2>1. Files' = {TableFile(e) : e \in DOMAIN tables.handles}
                 \cup {thread[u].file : u \in Openers \ {t}}
    BY <1>1, <1>3, <1>8 DEF Files, TableFile
  <2>2. \A u \in Openers \ {t} : thread[u].file # f
    BY <1>2, <1>8 DEF OpenInv
  <2>3. \A e \in DOMAIN tables.handles : TableFile(e) # f
    BY <1>2, <1>8 DEF OpenInv
  <2> QED BY <1>8, <2>1, <2>2, <2>3 DEF Files
<1>10. OpenInv'
  <2>1. \A u \in Openers' : u \in Openers /\ thread'[u] = thread[u]
    BY <1>3, <1>8 DEF Openers
  <2>2. \A e \in DOMAIN tables.handles : TableFile(e)' = TableFile(e)
    BY <1>1 DEF TableFile
  <2> QED BY <1>1, <1>2, <2>1, <2>2 DEF OpenInv
<1>11. LimitsInv' /\ mmaps' \in Nat /\ fds' \in Nat
  <2>1. /\ MappedFiles(Files') = MappedFiles(Files) - MappedFiles({f})
        /\ FdFiles(Files') = FdFiles(Files) - FdFiles({f})
        /\ {MappedFiles(Files), MappedFiles({f}), FdFiles(Files), FdFiles({f})} \subseteq Nat
    <3>1. IsFiniteSet(Files) /\ {f} \in SUBSET Files
      BY <1>2, <1>9, TableFilesAre
    <3> QED BY <1>9, <3>1, KindsWithout
  <2>2. MappedFiles(Files)' = MappedFiles(Files') /\ FdFiles(Files)' = FdFiles(Files')
    BY DEF MappedFiles, FdFiles
  <2>3. mmaps \in Nat /\ fds \in Nat
    BY <1>2 DEF TypeInv
  <2> QED BY <1>1, <1>2, <2>1, <2>2, <2>3 DEF LimitsInv
<1>12. TypeInv'
  <2>1. \A u \in Threads : CallOK(thread'[u])
    BY <1>2, <1>3, <1>5 DEF TypeInv
  <2> QED BY <1>1, <1>2, <1>3, <1>11, <2>1 DEF TypeInv
<1>13. ReadersInv'
  BY <1>1, <1>2, <1>3, <1>4 DEF ReadersInv
<1>14. CachedInv'
  BY <1>1, <1>2 DEF CachedInv
<1>15. BlocksInv'
  BY <1>1, <1>2, <1>9, BlocksSame DEF TypeInv
<1> QED BY <1>7, <1>10, <1>11, <1>12, <1>13, <1>14, <1>15 DEF CachesInv

\* OpenFile keeps the invariant: the new id is that of no open file and no block.
LEMMA OpenFileInv ==
    ASSUME CachesInv, NEW t \in Threads, OpenFile(t)
    PROVE  CachesInv'
<1> DEFINE r  == thread[t]
           q  == thread'[t]
           f  == [kind |-> IF mmaps > 0 THEN "mmap" ELSE IF fds > 0 THEN "fd" ELSE "temporary",
                  content |-> files[r.n], id |-> ids']
           to == [pc |-> "insert", file |-> f]
<1>1. /\ r.pc = "open" /\ mmaps' = Acquired(mmaps) /\ ids' = ids + 1 /\ Goes(t, to)
      /\ fds' = (IF mmaps = 0 THEN Acquired(fds) ELSE fds)
      /\ UNCHANGED <<tables, blocks, files, contents>>
  BY DEF OpenFile, cacheVars, fileVars
<1>2. TypeInv /\ TablesShard /\ BlocksShard /\ ReadersInv /\ CachedInv /\ OpenInv /\ BlocksInv
      /\ LimitsInv
  BY DEF CachesInv
<1>3. /\ thread = [u \in Threads |-> thread[u]] /\ thread' = [u \in Threads |-> thread'[u]]
      /\ \A u \in Threads \ {t} : thread'[u] = thread[u]
      /\ DOMAIN q = {"pc", "file"} \cup DOMAIN r /\ q.pc = "insert" /\ q.file = f
      /\ \A x \in DOMAIN r \ {"pc", "file"} : q[x] = r[x]
  <2>1. thread = [u \in Threads |-> thread[u]]
    BY <1>2 DEF TypeInv
  <2>2. DOMAIN to = {"pc", "file"} /\ to["pc"] = "insert" /\ to["file"] = f
    OBVIOUS
  <2> HIDE DEF to
  <2> QED BY <1>1, <2>1, <2>2, GoesIs
<1>4. /\ CallOK(r) /\ {"n", "content"} \subseteq DOMAIN r
      /\ "th" \notin DOMAIN r /\ "bh" \notin DOMAIN r
  BY <1>1, <1>2 DEF TypeInv, CallOK, Reading
<1>5. q.n = r.n /\ q.content = r.content /\ "th" \notin DOMAIN q /\ "bh" \notin DOMAIN q
  BY <1>3, <1>4
<1>6. r.n \in DOMAIN files /\ r.content = files[r.n]
  BY <1>1, <1>2 DEF ReadersInv
<1>7. /\ {ids, ids', mmaps, fds, mmaps', fds'} \subseteq Nat /\ ids < ids'
      /\ mmaps' = mmaps - (IF f.kind = "mmap" THEN 1 ELSE 0)
      /\ fds' = fds - (IF f.kind = "fd" THEN 1 ELSE 0)
  BY <1>1, <1>2 DEF TypeInv, Acquired
<1>8. f \in File /\ f.content = r.content /\ f.id = ids'
  <2>1. files[r.n] \in Nat
    BY <1>2, <1>6, PartialIs DEF TypeInv
  <2>2. f.kind \in {"mmap", "fd", "temporary"} /\ f.content = files[r.n] /\ f.id = ids'
    OBVIOUS
  <2> QED BY <1>6, <1>7, <2>1, <2>2 DEF File
<1> HIDE DEF q, r, f
<1>9. CallOK(q)
  BY <1>3, <1>4, <1>5, <1>8 DEF CallOK, Reading
<1>10. TablesShard' /\ BlocksShard'
  <2>1. TablesOf(q) = TablesOf(r) /\ BlocksOf(q) = BlocksOf(r)
    BY <1>4, <1>5 DEF TablesOf, BlocksOf
  <2> QED BY <1>1, <1>2, <1>3, <2>1, RefsStep, CountsPrime DEF TablesShard, BlocksShard, q, r
<1>11. t \notin Openers /\ Openers' = Openers \cup {t}
  BY <1>1, <1>3 DEF Openers, q, r
<1>12. \A u \in Openers : thread'[u].file = thread[u].file /\ thread[u].file.id <= ids
  BY <1>2, <1>3, <1>11 DEF Openers, OpenInv
<1>13. thread'[t].file = f /\ \A e \in DOMAIN tables.handles : TableFile(e)' = TableFile(e)
  BY <1>1, <1>3 DEF TableFile, q
<1>14. Files' = Files \cup {f}
  BY <1>1, <1>11, <1>12, <1>13 DEF Files
<1>15. \A g \in Files : g.id \in Nat /\ g.id <= ids /\ g # f
  <2>1. \A g \in Files : g.id \in Nat
    BY <1>2, TableFilesAre DEF File
  <2>2. \A g \in Files : g.id <= ids
    BY <1>2, <1>12 DEF Files, OpenInv
  <2> QED BY <1>7, <1>8, <2>1, <2>2
<1>16. OpenInv'
  <2>1. \A e \in DOMAIN tables.handles : TableFile(e) \in Files
    BY DEF Files
  <2>2. \A u \in Openers : thread[u].file \in Files
    BY DEF Files
  <2>3. \A e \in DOMAIN tables.handles : TableFile(e).id # f.id /\ TableFile(e).id <= ids'
    BY <1>7, <1>8, <1>15, <2>1
  <2>4. \A u \in Openers : thread[u].file.id # f.id /\ thread[u].file.id <= ids'
    BY <1>7, <1>8, <1>15, <2>2
  <2>5. f.id <= ids'
    BY <1>7, <1>8
  <2> QED BY <1>1, <1>2, <1>11, <1>12, <1>13, <2>3, <2>4, <2>5 DEF OpenInv
<1>17. LimitsInv'
  <2>1. Files' \ {f} = Files /\ {f} \in SUBSET Files'
    BY <1>14, <1>15
  <2>2. IsFiniteSet(Files')
    BY <1>2, <1>14, TableFilesAre, FS_AddElement
  <2>3. /\ MappedFiles(Files) = MappedFiles(Files') - MappedFiles({f})
        /\ FdFiles(Files) = FdFiles(Files') - FdFiles({f})
        /\ {MappedFiles(Files'), MappedFiles({f}), FdFiles(Files'), FdFiles({f})} \subseteq Nat
    BY <2>1, <2>2, KindsWithout
  <2>4. MappedFiles(Files)' = MappedFiles(Files') /\ FdFiles(Files)' = FdFiles(Files')
    BY DEF MappedFiles, FdFiles
  <2> QED BY <1>2, <1>7, <2>3, <2>4, KindsOfOne DEF LimitsInv
<1>18. TypeInv'
  <2>1. \A u \in Threads : CallOK(thread'[u])
    BY <1>2, <1>3, <1>9 DEF TypeInv, q
  <2> QED BY <1>1, <1>2, <1>3, <1>7, <2>1 DEF TypeInv
<1>19. ReadersInv'
  BY <1>1, <1>2, <1>3, <1>5, <1>6 DEF ReadersInv, q, r
<1>20. CachedInv'
  BY <1>1, <1>2 DEF CachedInv
<1>21. BlocksInv'
  <2> SUFFICES ASSUME NEW b \in DOMAIN blocks.handles
               PROVE  BlockIs(blocks.handles[b].key, blocks.handles[b].value)'
    BY <1>1 DEF BlocksInv
  <2>1. BlockIs(blocks.handles[b].key, blocks.handles[b].value)
    BY <1>2 DEF BlocksInv
  <2>2. blocks.handles[b].key \in BlockKeys
    BY <1>2, HandlesAre DEF BlocksShard, ShardInv, Handle
  <2>3. blocks.handles[b].key[1] \in Nat
    BY <2>2 DEF BlockKeys
  <2>4. blocks.handles[b].key[1] <= ids /\ blocks.handles[b].key[1] # f.id
    BY <1>7, <1>8, <2>1, <2>3 DEF BlockIs
  <2> QED BY <1>1, <1>7, <1>14, <2>1, <2>3, <2>4 DEF BlockIs
<1> QED BY <1>10, <1>16, <1>17, <1>18, <1>19, <1>20, <1>21 DEF CachesInv

\* InsertTable keeps the invariant: the tables that it frees are closed.
LEMMA InsertTableInv ==
    ASSUME CachesInv, NEW t \in Threads, InsertTable(t)
    PROVE  CachesInv'
<1> DEFINE r  == thread[t]
           q  == thread'[t]
           f  == thread[t].file
<1>1. PICK d : d = InsertEntry(tables, r.n, f, 1)
  OBVIOUS
<1>2. PICK e : e = tables.last + 1
  OBVIOUS
<1> DEFINE to == [pc |-> "read", th |-> d.last]
<1>3. /\ r.pc = "insert" /\ CloseTables(d) /\ Goes(t, to)
      /\ UNCHANGED <<blocks, files, contents, ids>>
  BY <1>1 DEF InsertTable, fileVars
<1>4. TypeInv /\ TablesShard /\ BlocksShard /\ ReadersInv /\ CachedInv /\ OpenInv /\ BlocksInv
      /\ LimitsInv
  BY DEF CachesInv
<1>5. /\ CallOK(r) /\ {"n", "content"} \subseteq DOMAIN r
      /\ "th" \notin DOMAIN r /\ "bh" \notin DOMAIN r
  BY <1>3, <1>4 DEF TypeInv, CallOK, Reading
<1>6. r.n \in DOMAIN files /\ r.content = files[r.n] /\ r.n \in Numbers
  <2>1. r.n \in DOMAIN files /\ r.content = files[r.n]
    BY <1>3, <1>4 DEF ReadersInv
  <2> QED BY <1>4, <2>1, PartialIs DEF TypeInv
<1>7. f \in File /\ f.content = r.content
  BY <1>3, <1>5 DEF CallOK
<1>8. /\ ShardInv(d, [Count(TableRefs) EXCEPT ![e] = @ + 1], {}, Numbers, File)
      /\ IsInserted(tables, d, e, r.n, f, Count(TableRefs))
  <2>1. ShardInv(tables, Count(TableRefs), {}, Numbers, File) /\ 1 \in Nat
    BY <1>4 DEF TablesShard
  <2> HIDE DEF r, f
  <2> QED BY <1>1, <1>2, <1>6, <1>7, <2>1, InsertEntryInv
<1>9. /\ d.last = e /\ e \in DOMAIN d.handles
      /\ d.handles[e].key = r.n /\ d.handles[e].value = f
      /\ \A x \in DOMAIN d.handles \ {e} : /\ x \in DOMAIN tables.handles
                                           /\ d.handles[x].key = tables.handles[x].key
                                           /\ d.handles[x].value = tables.handles[x].value
      /\ \A x \in DOMAIN tables.handles \ DOMAIN d.handles : Count(TableRefs)[x] = 0
      /\ InCache(d) \subseteq InCache(tables) \cup {e}
  BY <1>8 DEF IsInserted
<1>10. e \in Nat /\ e \notin DOMAIN tables.handles
  <2>1. DOMAIN tables.handles \subseteq 1..tables.last /\ tables.last \in Nat
    BY <1>4, HandlesAre DEF TablesShard, ShardInv, ShardType
  <2> QED BY <1>2, <2>1
<1>11. /\ thread = [u \in Threads |-> thread[u]] /\ thread' = [u \in Threads |-> thread'[u]]
       /\ \A u \in Threads \ {t} : thread'[u] = thread[u]
       /\ DOMAIN q = {"pc", "th"} \cup DOMAIN r /\ q.pc = "read" /\ q.th = e
       /\ \A x \in DOMAIN r \ {"pc", "th"} : q[x] = r[x]
  <2>1. thread = [u \in Threads |-> thread[u]]
    BY <1>4 DEF TypeInv
  <2>2. DOMAIN to = {"pc", "th"} /\ to["pc"] = "read" /\ to["th"] = e
    BY <1>9
  <2> HIDE DEF to
  <2> QED BY <1>3, <2>1, <2>2, GoesIs
<1>12. q.n = r.n /\ q.content = r.content /\ "th" \in DOMAIN q /\ "bh" \notin DOMAIN q
  BY <1>5, <1>11
<1> HIDE DEF q, r, f, to
<1>13. CallOK(q)
  BY <1>5, <1>10, <1>11, <1>12 DEF CallOK, Reading
<1>14. /\ tables' = d /\ mmaps' = mmaps + MappedFiles(Freed(tables, d))
       /\ fds' = fds + FdFiles(Freed(tables, d))
  BY <1>3 DEF CloseTables
<1>15. TablesShard' /\ BlocksShard'
  <2>1. TablesOf(r) = {} /\ TablesOf(q) = {e} /\ BlocksOf(q) = BlocksOf(r)
    BY <1>5, <1>11, <1>12 DEF TablesOf, BlocksOf
  <2>2. /\ TableRefs' = [TableRefs EXCEPT ![t] = {e}] /\ BlockRefs' = BlockRefs
        /\ TableRefs[t] = {} /\ TableRefs = [u \in Threads |-> TableRefs[u]]
    BY <1>11, <2>1, RefsStep DEF q, r
  <2>3. Takes(TableRefs, TableRefs', t, e)
    BY <1>10, <2>2 DEF Takes
  <2>4. Count(TableRefs') = [Count(TableRefs) EXCEPT ![e] = @ + 1]
    BY <2>3, CountTaken DEF CountsUp
  <2> QED BY <1>3, <1>4, <1>8, <1>14, <2>2, <2>4, CountsPrime DEF TablesShard, BlocksShard
<1>16. t \in Openers /\ Openers' = Openers \ {t} /\ thread[t].file = f
  BY <1>3, <1>11 DEF Openers, q, r, f
<1>17. /\ \A u \in Openers \ {t} : thread'[u].file = thread[u].file
       /\ TableFile(e)' = f /\ \A x \in DOMAIN d.handles \ {e} : TableFile(x)' = TableFile(x)
  BY <1>9, <1>11, <1>14, <1>16 DEF TableFile, Openers
<1>18. Freed(tables, d) = {TableFile(x) : x \in DOMAIN tables.handles \ DOMAIN d.handles}
  BY DEF Freed, TableFile
<1>19. Files' = Files \ Freed(tables, d) /\ Freed(tables, d) \in SUBSET Files
  <2>1. Files' = {TableFile(x) : x \in DOMAIN d.handles \ {e}} \cup {f}
                 \cup {thread[u].file : u \in Openers \ {t}}
    BY <1>9, <1>14, <1>16, <1>17 DEF Files
  <2>2. Files = {TableFile(x) : x \in DOMAIN tables.handles} \cup {f}
                \cup {thread[u].file : u \in Openers \ {t}}
    BY <1>16 DEF Files
  <2>3. f \notin Freed(tables, d) /\ \A u \in Openers : thread[u].file \notin Freed(tables, d)
    BY <1>4, <1>16, <1>18 DEF OpenInv
  <2>4. \A x \in DOMAIN d.handles \ {e} : TableFile(x) \notin Freed(tables, d)
    BY <1>4, <1>9, <1>18 DEF OpenInv
  <2>5. \A x \in DOMAIN tables.handles : x \in DOMAIN d.handles \ {e} \/ TableFile(x) \in Freed(tables, d)
    BY <1>10, <1>18
  <2>6. Freed(tables, d) \in SUBSET Files
    BY <1>18, <2>2
  <2>7. \A x \in DOMAIN d.handles \ {e} : x \in DOMAIN tables.handles
    BY <1>9
  <2>8. ASSUME NEW x PROVE x \in Files' <=> x \in Files \ Freed(tables, d)
    BY <2>1, <2>2, <2>3, <2>4, <2>5, <2>7
  <2> QED BY <2>6, <2>8
<1>20. OpenInv'
  <2>1. \A x \in DOMAIN d.handles \ {e} : x \in DOMAIN tables.handles /\ x # e
    BY <1>9
  <2>2. \A u \in Openers' : u \in Openers /\ u # t /\ thread'[u].file = thread[u].file
    BY <1>16, <1>17
  <2>3. DOMAIN tables'.handles = DOMAIN d.handles
    BY <1>14
  <2>4. \A x \in DOMAIN d.handles : TableFile(x)'.id <= ids'
    BY <1>3, <1>4, <1>16, <1>17, <2>1 DEF OpenInv
  <2>5. \A u \in Openers' : thread'[u].file.id <= ids'
    BY <1>3, <1>4, <2>2 DEF OpenInv
  <2>6. \A x, y \in DOMAIN d.handles : TableFile(x)'.id = TableFile(y)'.id => x = y
    BY <1>4, <1>16, <1>17, <2>1 DEF OpenInv
  <2>7. \A u, v \in Openers' : thread'[u].file.id = thread'[v].file.id => u = v
    BY <1>4, <2>2 DEF OpenInv
  <2>8. \A x \in DOMAIN d.handles, u \in Openers' : TableFile(x)'.id # thread'[u].file.id
    BY <1>4, <1>16, <1>17, <2>1, <2>2 DEF OpenInv
  <2> QED BY <2>3, <2>4, <2>5, <2>6, <2>7, <2>8 DEF OpenInv
<1>21. LimitsInv' /\ mmaps' \in Nat /\ fds' \in Nat
  <2>1. /\ MappedFiles(Files') = MappedFiles(Files) - MappedFiles(Freed(tables, d))
        /\ FdFiles(Files') = FdFiles(Files) - FdFiles(Freed(tables, d))
        /\ {MappedFiles(Files), MappedFiles(Freed(tables, d)), FdFiles(Files),
            FdFiles(Freed(tables, d))} \subseteq Nat
    BY <1>4, <1>19, TableFilesAre, KindsWithout
  <2>2. MappedFiles(Files)' = MappedFiles(Files') /\ FdFiles(Files)' = FdFiles(Files')
    BY DEF MappedFiles, FdFiles
  <2>3. mmaps \in Nat /\ fds \in Nat
    BY <1>4 DEF TypeInv
  <2> QED BY <1>4, <1>14, <2>1, <2>2, <2>3 DEF LimitsInv
<1>22. TypeInv'
  <2>1. \A u \in Threads : CallOK(thread'[u])
    BY <1>4, <1>11, <1>13 DEF TypeInv, q
  <2> QED BY <1>3, <1>4, <1>11, <1>21, <2>1 DEF TypeInv
<1>23. ReadersInv'
  <2> SUFFICES ASSUME NEW u \in Threads
               PROVE  /\ thread'[u].pc # "none" => thread'[u].n \in DOMAIN files
                                                   /\ thread'[u].content = files[thread'[u].n]
                      /\ "th" \in DOMAIN thread'[u] =>
                            d.handles[thread'[u].th].value.content = thread'[u].content
    BY <1>3, <1>14 DEF ReadersInv
  <2>1. CASE u = t
    BY <1>6, <1>7, <1>9, <1>11, <1>12, <2>1 DEF q
  <2>2. CASE u # t
    <3>1. thread'[u] = thread[u]
      BY <1>11, <2>2
    <3>2. "th" \in DOMAIN thread[u] => /\ thread[u].th \in DOMAIN tables.handles
                                       /\ Count(TableRefs)[thread[u].th] > 0
      BY <1>4, ReadersHave
    <3>3. "th" \in DOMAIN thread[u] => thread[u].th \in DOMAIN d.handles \ {e}
      BY <1>9, <1>10, <3>2
    <3> QED BY <1>4, <1>9, <3>1, <3>3 DEF ReadersInv
  <2> QED BY <2>1, <2>2
<1>24. CachedInv'
  <2> SUFFICES ASSUME NEW x \in InCache(d)
               PROVE  /\ d.handles[x].key \in DOMAIN files
                      /\ d.handles[x].value.content = files[d.handles[x].key]
    BY <1>3, <1>14 DEF CachedInv, InCache
  <2>1. CASE x = e
    BY <1>6, <1>7, <1>9, <2>1
  <2>2. CASE x # e
    <3>1. x \in InCache(tables) /\ x \in DOMAIN d.handles \ {e}
      BY <1>9, <2>2 DEF InCache
    <3> QED BY <1>4, <1>9, <3>1 DEF CachedInv
  <2> QED BY <2>1, <2>2
<1>25. BlocksInv'
  BY <1>3, <1>4, <1>19, BlocksSame DEF TypeInv
<1> QED BY <1>15, <1>20, <1>21, <1>22, <1>23, <1>24, <1>25 DEF CachesInv

\* The table that a reader has
LEMMA ReaderIs ==
    ASSUME CachesInv, NEW t \in Threads, thread[t].pc \in Reading
    PROVE  /\ CallOK(thread[t]) /\ {"n", "content", "th"} \subseteq DOMAIN thread[t]
           /\ thread[t].n \in DOMAIN files /\ thread[t].content = files[thread[t].n]
           /\ thread[t].content \in Nat
           /\ thread[t].th \in DOMAIN tables.handles /\ thread[t].th \in Nat
           /\ Count(TableRefs)[thread[t].th] > 0
           /\ TableOf(t) = TableFile(thread[t].th)
           /\ TableOf(t) \in Files /\ TableOf(t).content = thread[t].content
           /\ TableOf(t).id \in Nat /\ TableOf(t).id <= ids
           /\ \A f \in Files : f.id = TableOf(t).id => f.content = thread[t].content
<1>1. TypeInv /\ TablesShard /\ BlocksShard /\ ReadersInv /\ OpenInv
  BY DEF CachesInv
<1>2. CallOK(thread[t]) /\ {"n", "content", "th"} \subseteq DOMAIN thread[t] /\ thread[t].pc # "none"
  BY <1>1 DEF TypeInv, CallOK, Reading
<1>3. thread[t].n \in DOMAIN files /\ thread[t].content = files[thread[t].n]
  BY <1>1, <1>2 DEF ReadersInv
<1>4. thread[t].content \in Nat
  BY <1>1, <1>3, PartialIs DEF TypeInv
<1>5. /\ thread[t].th \in DOMAIN tables.handles /\ thread[t].th \in Nat
      /\ Count(TableRefs)[thread[t].th] > 0
  BY <1>1, <1>2, ReadersHave
<1>6. TableOf(t) = TableFile(thread[t].th) /\ TableOf(t).content = thread[t].content
  BY <1>1, <1>2 DEF TableOf, TableFile, ReadersInv
<1>7. TableOf(t) \in Files
  BY <1>5, <1>6 DEF Files
<1>8. TableOf(t).id \in Nat /\ TableOf(t).id <= ids
  BY <1>1, <1>5, <1>6, <1>7, TableFilesAre DEF File, OpenInv
<1>9. ASSUME NEW f \in Files, f.id = TableOf(t).id
      PROVE  f.content = thread[t].content
  <2>1. CASE \E e \in DOMAIN tables.handles : f = TableFile(e)
    BY <1>1, <1>5, <1>6, <1>9, <2>1 DEF OpenInv
  <2>2. CASE \E u \in Openers : f = thread[u].file
    BY <1>1, <1>5, <1>6, <1>9, <2>2 DEF OpenInv
  <2> QED BY <2>1, <2>2 DEF Files
<1> QED BY <1>2, <1>3, <1>4, <1>5, <1>6, <1>7, <1>8, <1>9

\* FindBlock keeps the invariant when the block is not in the cache.
LEMMA FindBlockMissInv ==
    ASSUME CachesInv, NEW t \in Threads, thread[t].pc = "read", NEW off \in Offsets,
           Goes(t, [pc |-> "load", off |-> off]),
           UNCHANGED <<tables, blocks, files, contents, mmaps, fds, ids>>
    PROVE  CachesInv'
<1> DEFINE r  == thread[t]
           q  == thread'[t]
           to == [pc |-> "load", off |-> off]
<1>1. TypeInv /\ TablesShard /\ BlocksShard /\ ReadersInv /\ BlocksInv
  BY DEF CachesInv
<1>2. /\ thread = [u \in Threads |-> thread[u]] /\ thread' = [u \in Threads |-> thread'[u]]
      /\ \A u \in Threads \ {t} : thread'[u] = thread[u]
      /\ DOMAIN q = {"pc", "off"} \cup DOMAIN r /\ q.pc = "load" /\ q.off = off
      /\ \A x \in DOMAIN r \ {"pc", "off"} : q[x] = r[x]
  <2>1. thread = [u \in Threads |-> thread[u]]
    BY <1>1 DEF TypeInv
  <2>2. DOMAIN to = {"pc", "off"} /\ to["pc"] = "load" /\ to["off"] = off
    OBVIOUS
  <2> HIDE DEF to
  <2> QED BY <2>1, <2>2, GoesIs DEF to
<1>3. /\ CallOK(r) /\ {"n", "content", "th"} \subseteq DOMAIN r
      /\ r.n \in DOMAIN files /\ r.content = files[r.n]
      /\ r.th \in DOMAIN tables.handles /\ TableFile(r.th).content = r.content
  BY ReaderIs DEF Reading
<1>4. /\ q.n = r.n /\ q.content = r.content /\ q.th = r.th /\ {"n", "content", "th"} \subseteq DOMAIN q
      /\ ("bh" \in DOMAIN q) <=> ("bh" \in DOMAIN r)
      /\ "bh" \in DOMAIN r => q.bh = r.bh
  BY <1>2, <1>3
<1> HIDE DEF q, r
<1>5. r.pc = "read" /\ ("bh" \in DOMAIN r => r.bh = {}) /\ r.th \in Nat
  BY <1>3 DEF CallOK, r
<1>6. CallOK(q)
  BY <1>2, <1>3, <1>4, <1>5 DEF CallOK, Reading
<1>7. TablesOf(q) = TablesOf(r) /\ BlocksOf(q) = BlocksOf(r)
  BY <1>3, <1>4 DEF TablesOf, BlocksOf
<1>8. TypeInv' /\ ReadersInv' /\ CachedInv' /\ OpenInv' /\ LimitsInv' /\ Files' = Files
  <2>1. tables.handles[q.th].value.content = q.content
    BY <1>3, <1>4 DEF TableFile
  <2>2. thread[t].pc # "insert" /\ thread'[t].pc \notin {"insert", "none"}
    BY <1>2, <1>5 DEF q, r
  <2> QED BY <1>2, <1>3, <1>4, <1>6, <2>1, <2>2, SameHandlesSame, ReaderGoes DEF q, r
<1>9. TablesShard' /\ BlocksShard'
  BY <1>1, <1>2, <1>7, RefsStep, CountsPrime DEF TablesShard, BlocksShard, q, r
<1>10. BlocksInv'
  BY <1>1, <1>8, BlocksSame DEF TypeInv
<1> QED BY <1>8, <1>9, <1>10 DEF CachesInv

\* The thread t, which reads, has got the block b, or one that is not cached.
LEMMA GotBlock ==
    ASSUME CachesInv, NEW t \in Threads, thread[t].pc \in {"read", "load"}, NEW to, Goes(t, to),
           {"pc", "bh", "data"} \subseteq DOMAIN to, DOMAIN to \subseteq {"pc", "off", "bh", "data"},
           to.pc = "block", to.bh = {} \/ \E b \in Nat : to.bh = {b},
           "off" \notin DOMAIN to => thread[t].pc = "load",
           NEW off \in Offsets, off = IF "off" \in DOMAIN to THEN to.off ELSE thread[t].off,
           to.data = <<thread[t].content, off>>,
           UNCHANGED <<tables, files, contents, mmaps, fds, ids>>
    PROVE  /\ TypeInv' /\ ReadersInv' /\ CachedInv' /\ OpenInv' /\ LimitsInv' /\ Files' = Files
           /\ TablesShard' /\ BlockRefs' = [BlockRefs EXCEPT ![t] = to.bh] /\ BlockRefs[t] = {}
           /\ BlockRefs = [u \in Threads |-> BlockRefs[u]]
<1> DEFINE r  == thread[t]
           q  == thread'[t]
<1>1. TypeInv /\ TablesShard /\ BlocksShard /\ ReadersInv /\ BlocksInv
  BY DEF CachesInv
<1>2. /\ thread = [u \in Threads |-> thread[u]] /\ thread' = [u \in Threads |-> thread'[u]]
      /\ \A u \in Threads \ {t} : thread'[u] = thread[u]
      /\ DOMAIN q = DOMAIN to \cup DOMAIN r /\ q.pc = "block" /\ q.bh = to.bh /\ q.data = to.data
      /\ \A x \in DOMAIN r \ DOMAIN to : q[x] = r[x]
      /\ "off" \in DOMAIN to => q.off = to.off
  <2>1. thread = [u \in Threads |-> thread[u]]
    BY <1>1 DEF TypeInv
  <2> QED BY <2>1, GoesIs
<1>3. /\ CallOK(r) /\ {"n", "content", "th"} \subseteq DOMAIN r
      /\ r.n \in DOMAIN files /\ r.content = files[r.n] /\ r.th \in Nat
      /\ r.th \in DOMAIN tables.handles /\ TableFile(r.th).content = r.content
  BY ReaderIs DEF Reading
<1>4. /\ q.n = r.n /\ q.content = r.content /\ q.th = r.th
      /\ {"n", "content", "th", "bh", "data"} \subseteq DOMAIN q
  BY <1>2, <1>3
<1>5. "off" \in DOMAIN q /\ q.off = off
  <2>1. CASE "off" \in DOMAIN to
    BY <1>2, <2>1
  <2>2. CASE "off" \notin DOMAIN to
    <3>1. "off" \in DOMAIN r
      BY <1>3, <2>2 DEF CallOK
    <3> QED BY <1>2, <2>2, <3>1
  <2> QED BY <2>1, <2>2
<1> HIDE DEF q, r
<1>6. CallOK(q)
  BY <1>2, <1>3, <1>4, <1>5 DEF CallOK, Reading, r
<1>7. TablesOf(q) = TablesOf(r) /\ BlocksOf(q) = to.bh
  BY <1>2, <1>3, <1>4 DEF TablesOf, BlocksOf
<1>8. BlocksOf(r) = {}
  <2>1. "bh" \in DOMAIN r => r.bh = {}
    BY <1>3 DEF CallOK, r
  <2> QED BY <2>1 DEF BlocksOf
<1>9. TypeInv' /\ ReadersInv' /\ CachedInv' /\ OpenInv' /\ LimitsInv' /\ Files' = Files
  <2>1. tables.handles[q.th].value.content = q.content
    BY <1>3, <1>4 DEF TableFile
  <2>2. thread[t].pc # "insert" /\ thread'[t].pc \notin {"insert", "none"}
    BY <1>2 DEF q
  <2> QED BY <1>2, <1>3, <1>4, <1>6, <2>1, <2>2, SameHandlesSame, ReaderGoes DEF q, r
<1>10. TableRefs' = TableRefs
  BY <1>2, <1>7, RefsStep DEF q, r
<1>11. /\ BlockRefs' = [BlockRefs EXCEPT ![t] = to.bh] /\ BlockRefs[t] = {}
       /\ BlockRefs = [u \in Threads |-> BlockRefs[u]]
  BY <1>2, <1>7, <1>8, RefsStep DEF q, r
<1>12. TablesShard'
  BY <1>1, <1>10, CountsPrime DEF TablesShard
<1> QED BY <1>9, <1>11, <1>12

\* FindBlock keeps the invariant when the block is in the cache: by its id it is
\* one of the file that is read.
LEMMA FindBlockHitInv ==
    ASSUME CachesInv, NEW t \in Threads, thread[t].pc = "read", NEW off \in Offsets,
           Holds(blocks.table, BlockKey(t, off)), NEW b, b = blocks.table[BlockKey(t, off)],
           blocks' = Ref(blocks, b),
           Goes(t, [pc |-> "block", off |-> off, bh |-> {b}, data |-> blocks.handles[b].value]),
           UNCHANGED <<tables, files, contents, mmaps, fds, ids>>
    PROVE  CachesInv'
<1> DEFINE r  == thread[t]
           k  == BlockKey(t, off)
           v  == blocks.handles[b].value
           to == [pc |-> "block", off |-> off, bh |-> {b}, data |-> v]
<1>1. TypeInv /\ TablesShard /\ BlocksShard /\ ReadersInv /\ BlocksInv
  BY DEF CachesInv
<1>2. /\ TableOf(t) \in Files /\ TableOf(t).content = r.content
      /\ TableOf(t).id \in Nat
  BY ReaderIs DEF Reading
<1>3. k = <<TableOf(t).id, off>> /\ k[1] = TableOf(t).id /\ k[2] = off
  BY DEF BlockKey
<1>4. b \in InCache(blocks) /\ blocks.handles[b].key = k
  BY <1>1 DEF BlocksShard, ShardInv, TableInv, Holds
<1>5. b \in DOMAIN blocks.handles /\ b \in Nat /\ v \in BlockValues
  <2>1. b \in DOMAIN blocks.handles
    BY <1>4 DEF InCache
  <2>2. b \in Nat /\ blocks.handles[b] \in Handle(BlockKeys, BlockValues)
    BY <1>1, <2>1, HandlesAre DEF BlocksShard, ShardInv
  <2> QED BY <2>1, <2>2 DEF Handle
<1>6. v = <<r.content, off>>
  <2>1. BlockIs(k, v)
    BY <1>1, <1>4, <1>5 DEF BlocksInv
  <2>2. v[2] = off /\ v[1] = r.content
    BY <1>2, <1>3, <2>1 DEF BlockIs
  <2>3. v = <<v[1], v[2]>>
    BY <1>5 DEF BlockValues
  <2> QED BY <2>2, <2>3
<1>7. /\ DOMAIN to = {"pc", "off", "bh", "data"} /\ to.pc = "block" /\ to.off = off
      /\ to.bh = {b} /\ to.data = v
  OBVIOUS
<1> HIDE DEF to, v, k
<1>8. /\ TypeInv' /\ ReadersInv' /\ CachedInv' /\ OpenInv' /\ LimitsInv' /\ Files' = Files
      /\ TablesShard' /\ BlockRefs' = [BlockRefs EXCEPT ![t] = {b}] /\ BlockRefs[t] = {}
      /\ BlockRefs = [u \in Threads |-> BlockRefs[u]]
  <2>1. /\ {"pc", "bh", "data"} \subseteq DOMAIN to /\ DOMAIN to \subseteq {"pc", "off", "bh", "data"}
        /\ to.bh = {} \/ \E x \in Nat : to.bh = {x}
        /\ off = IF "off" \in DOMAIN to THEN to.off ELSE thread[t].off
        /\ "off" \in DOMAIN to
    BY <1>5, <1>7
  <2>2. Goes(t, to) /\ thread[t].pc \in {"read", "load"}
    BY DEF to, v
  <2> QED BY <1>6, <1>7, <2>1, <2>2, GotBlock
<1>9. /\ ShardInv(blocks', [Count(BlockRefs) EXCEPT ![b] = @ + 1], {}, BlockKeys, BlockValues)
      /\ Shrinks(blocks, blocks') /\ DOMAIN blocks'.handles = DOMAIN blocks.handles
  BY <1>1, <1>4, RefInv DEF BlocksShard
<1>10. BlocksShard'
  <2>1. Takes(BlockRefs, BlockRefs', t, b)
    BY <1>5, <1>8 DEF Takes
  <2>2. Count(BlockRefs') = [Count(BlockRefs) EXCEPT ![b] = @ + 1]
    BY <2>1, CountTaken DEF CountsUp
  <2> QED BY <1>9, <2>2, CountsPrime DEF BlocksShard
<1>11. BlocksInv'
  BY <1>1, <1>8, <1>9, BlocksKept DEF TypeInv, Shrinks
<1> QED BY <1>8, <1>10, <1>11 DEF CachesInv

\* FindBlock keeps the invariant.
LEMMA FindBlockInv ==
    ASSUME CachesInv, NEW t \in Threads, NEW off \in Offsets, FindBlock(t, off)
    PROVE  CachesInv'
<1>1. thread[t].pc = "read" /\ UNCHANGED <<tables, files, contents, mmaps, fds, ids>>
  BY DEF FindBlock, fileVars, limitVars
<1>2. CASE Holds(blocks.table, BlockKey(t, off))
  BY <1>1, <1>2, FindBlockHitInv DEF FindBlock, Lookup
<1>3. CASE ~Holds(blocks.table, BlockKey(t, off))
  BY <1>1, <1>3, FindBlockMissInv DEF FindBlock
<1> QED BY <1>2, <1>3

\* LoadBlock keeps the invariant, whether the block is cached or not.
LEMMA LoadBlockInv ==
    ASSUME CachesInv, NEW t \in Threads, NEW fill \in BOOLEAN, LoadBlock(t, fill)
    PROVE  CachesInv'
<1> DEFINE r    == thread[t]
           kept == Copied(t) /\ fill
<1>a. PICK off : off = thread[t].off
  OBVIOUS
<1>b. PICK key, data : key = BlockKey(t, off) /\ data = <<Read(t), off>>
  OBVIOUS
<1>c. PICK d : d = InsertEntry(blocks, key, data, BlockCharge[off])
  OBVIOUS
<1>d. PICK to : to = [pc |-> "block", data |-> data, bh |-> IF kept THEN {d.last} ELSE {}]
  OBVIOUS
<1>1. /\ r.pc = "load" /\ blocks' = (IF kept THEN d ELSE blocks) /\ Goes(t, to)
      /\ UNCHANGED <<tables, files, contents, mmaps, fds, ids>>
  BY <1>a, <1>b, <1>c, <1>d DEF LoadBlock, fileVars, limitVars
<1>2. TypeInv /\ TablesShard /\ BlocksShard /\ ReadersInv /\ BlocksInv
  BY DEF CachesInv
<1>3. /\ CallOK(r) /\ r.content = files[r.n] /\ r.content \in Nat
      /\ TableOf(t) \in Files /\ TableOf(t).content = r.content
      /\ TableOf(t).id \in Nat /\ TableOf(t).id <= ids
      /\ \A f \in Files : f.id = TableOf(t).id => f.content = r.content
  BY <1>1, ReaderIs DEF Reading
<1>4. off \in Offsets /\ BlockCharge[off] \in Nat
  BY <1>1, <1>3, <1>a, CachesAssumption DEF CallOK, CachesAssumption
<1>5. data = <<r.content, off>> /\ data \in BlockValues /\ data[1] = r.content /\ data[2] = off
  BY <1>3, <1>4, <1>b DEF Read, BlockValues
<1>6. /\ key = <<TableOf(t).id, off>> /\ key \in BlockKeys
      /\ key[1] = TableOf(t).id /\ key[2] = off
  BY <1>3, <1>4, <1>b DEF BlockKey, BlockKeys
<1>7. PICK e : e = blocks.last + 1
  OBVIOUS
<1>8. /\ ShardInv(d, [Count(BlockRefs) EXCEPT ![e] = @ + 1], {}, BlockKeys, BlockValues)
      /\ IsInserted(blocks, d, e, key, data, Count(BlockRefs))
  <2>1. ShardInv(blocks, Count(BlockRefs), {}, BlockKeys, BlockValues)
    BY <1>2 DEF BlocksShard
  <2> QED BY <1>c, <1>4, <1>5, <1>6, <1>7, <2>1, InsertEntryInv
<1>9. e \in Nat /\ d.last = e
  <2>1. blocks.last \in Nat
    BY <1>2, HandlesAre DEF BlocksShard, ShardInv
  <2>2. d.last = e
    BY <1>8 DEF IsInserted
  <2> QED BY <1>7, <2>1, <2>2
<1> HIDE DEF kept
<1>10. /\ DOMAIN to = {"pc", "data", "bh"} /\ to.pc = "block" /\ to.data = data
       /\ to.bh = IF kept THEN {e} ELSE {}
  BY <1>9, <1>d
<1>11. /\ TypeInv' /\ ReadersInv' /\ CachedInv' /\ OpenInv' /\ LimitsInv' /\ Files' = Files
       /\ TablesShard' /\ BlockRefs' = [BlockRefs EXCEPT ![t] = to.bh] /\ BlockRefs[t] = {}
       /\ BlockRefs = [u \in Threads |-> BlockRefs[u]]
  <2>1. /\ {"pc", "bh", "data"} \subseteq DOMAIN to /\ DOMAIN to \subseteq {"pc", "off", "bh", "data"}
        /\ to.bh = {} \/ \E x \in Nat : to.bh = {x}
        /\ "off" \notin DOMAIN to
    BY <1>9, <1>10
  <2>2. off = IF "off" \in DOMAIN to THEN to.off ELSE thread[t].off
    BY <2>1, <1>a
  <2>3. to.data = <<thread[t].content, off>>
    BY <1>5, <1>10
  <2>4. /\ thread[t].pc \in {"read", "load"} /\ Goes(t, to) /\ to.pc = "block"
        /\ "off" \notin DOMAIN to => thread[t].pc = "load"
        /\ UNCHANGED <<tables, files, contents, mmaps, fds, ids>>
    BY <1>1, <1>10
  <2> HIDE DEF r, kept
  <2> QED BY <1>4, <2>1, <2>2, <2>3, <2>4, GotBlock
<1>12. CASE kept
  <2>1. blocks' = d /\ to.bh = {e}
    BY <1>1, <1>10, <1>12
  <2>2. Takes(BlockRefs, BlockRefs', t, e)
    BY <1>9, <1>11, <2>1 DEF Takes
  <2>3. Count(BlockRefs') = [Count(BlockRefs) EXCEPT ![e] = @ + 1]
    BY <2>2, CountTaken DEF CountsUp
  <2>4. BlocksShard'
    BY <1>8, <2>1, <2>3, CountsPrime DEF BlocksShard
  <2>5. BlocksInv'
    <3> SUFFICES ASSUME NEW x \in DOMAIN d.handles
                 PROVE  BlockIs(d.handles[x].key, d.handles[x].value)'
      BY <2>1 DEF BlocksInv
    <3>1. CASE x = e
      <4>1. d.handles[x].key = key /\ d.handles[x].value = data
        BY <1>8, <3>1 DEF IsInserted
      <4> QED BY <1>1, <1>3, <1>5, <1>6, <1>11, <4>1 DEF BlockIs
    <3>2. CASE x # e
      <4>1. /\ x \in DOMAIN blocks.handles /\ d.handles[x].key = blocks.handles[x].key
            /\ d.handles[x].value = blocks.handles[x].value
        BY <1>8, <3>2 DEF IsInserted
      <4> QED BY <1>1, <1>2, <1>11, <4>1 DEF BlocksInv, BlockIs
    <3> QED BY <3>1, <3>2
  <2> QED BY <1>11, <2>4, <2>5 DEF CachesInv
<1>13. CASE ~kept
  <2>1. blocks' = blocks /\ to.bh = {}
    BY <1>1, <1>10, <1>13
  <2>2. BlockRefs' = BlockRefs
    BY <1>11, <2>1
  <2>3. BlocksShard' /\ BlocksInv'
    BY <1>1, <1>2, <1>11, <2>1, <2>2, CountsPrime, BlocksSame DEF BlocksShard, TypeInv
  <2> QED BY <1>11, <2>3 DEF CachesInv
<1> QED BY <1>12, <1>13

\* DropBlock keeps the invariant.
LEMMA DropBlockInv ==
    ASSUME CachesInv, NEW t \in Threads, DropBlock(t)
    PROVE  CachesInv'
<1> DEFINE r  == thread[t]
           q  == thread'[t]
           to == [pc |-> "read", bh |-> {}]
<1>1. /\ r.pc = "block" /\ blocks' = UnrefAll(blocks, r.bh) /\ Goes(t, to)
      /\ UNCHANGED <<tables, files, contents, mmaps, fds, ids>>
  BY Zenon DEF DropBlock, fileVars, limitVars, UnrefAll
<1>2. TypeInv /\ TablesShard /\ BlocksShard /\ ReadersInv /\ BlocksInv
  BY DEF CachesInv
<1>3. /\ thread = [u \in Threads |-> thread[u]] /\ thread' = [u \in Threads |-> thread'[u]]
      /\ \A u \in Threads \ {t} : thread'[u] = thread[u]
      /\ DOMAIN q = {"pc", "bh"} \cup DOMAIN r /\ q.pc = "read" /\ q.bh = {}
      /\ \A x \in DOMAIN r \ {"pc", "bh"} : q[x] = r[x]
  <2>1. thread = [u \in Threads |-> thread[u]]
    BY <1>2 DEF TypeInv
  <2>2. DOMAIN to = {"pc", "bh"} /\ to["pc"] = "read" /\ to["bh"] = {}
    OBVIOUS
  <2> HIDE DEF to
  <2> QED BY <1>1, <2>1, <2>2, GoesIs
<1>4. /\ CallOK(r) /\ {"n", "content", "th"} \subseteq DOMAIN r
      /\ r.n \in DOMAIN files /\ r.content = files[r.n]
      /\ r.th \in DOMAIN tables.handles /\ TableFile(r.th).content = r.content
  BY <1>1, ReaderIs DEF Reading
<1>5. q.n = r.n /\ q.content = r.content /\ q.th = r.th /\ {"n", "content", "th", "bh"} \subseteq DOMAIN q
  BY <1>3, <1>4
<1> HIDE DEF q, r, to
<1>6. "bh" \in DOMAIN r /\ r.th \in Nat /\ (r.bh = {} \/ \E b \in Nat : r.bh = {b})
  BY <1>1, <1>4 DEF CallOK
<1>7. CallOK(q)
  BY <1>3, <1>4, <1>5, <1>6 DEF CallOK, Reading
<1>8. TablesOf(q) = TablesOf(r) /\ BlocksOf(q) = {} /\ BlocksOf(r) = r.bh
  BY <1>3, <1>4, <1>5, <1>6 DEF TablesOf, BlocksOf
<1>9. TypeInv' /\ ReadersInv' /\ CachedInv' /\ OpenInv' /\ LimitsInv' /\ Files' = Files
  <2>1. tables.handles[q.th].value.content = q.content
    BY <1>4, <1>5 DEF TableFile
  <2>2. thread[t].pc # "insert" /\ thread'[t].pc \notin {"insert", "none"}
    BY <1>1, <1>3 DEF q, r
  <2>3. SameHandles(tables, tables')
    BY <1>1, SameHandlesSame
  <2> QED BY <1>1, <1>3, <1>4, <1>5, <1>7, <2>1, <2>2, <2>3, ReaderGoes DEF q, r
<1>10. /\ TableRefs' = TableRefs /\ BlockRefs' = [BlockRefs EXCEPT ![t] = {}]
       /\ BlockRefs[t] = r.bh /\ BlockRefs = [u \in Threads |-> BlockRefs[u]]
  BY <1>3, <1>8, RefsStep DEF q, r
<1>11. TablesShard'
  BY <1>1, <1>2, <1>10, CountsPrime DEF TablesShard
<1>12. CASE r.bh = {}
  <2>1. blocks' = blocks /\ BlockRefs' = BlockRefs
    BY <1>1, <1>10, <1>12, UnrefNone
  <2>2. BlocksShard' /\ BlocksInv'
    BY <1>1, <1>2, <1>9, <2>1, CountsPrime, BlocksSame DEF BlocksShard, TypeInv
  <2> QED BY <1>9, <1>11, <2>2 DEF CachesInv
<1>13. CASE \E b \in Nat : r.bh = {b}
  <2>1. PICK b \in Nat : r.bh = {b}
    BY <1>13
  <2>2. blocks' = Unref(blocks, b)
    BY <1>1, <2>1, UnrefOne
  <2>3. /\ BlockRefs[t] = {b} /\ BlockRefs' = [BlockRefs EXCEPT ![t] = {}]
        /\ BlockRefs = [u \in Threads |-> BlockRefs[u]]
    BY <1>10, <2>1
  <2>4. Takes(BlockRefs', BlockRefs, t, b)
    BY <2>3 DEF Takes
  <2>5. Count(BlockRefs') = [Count(BlockRefs) EXCEPT ![b] = @ - 1] /\ Count(BlockRefs)[b] > 0
    BY <2>4, CountReleased DEF CountsDown
  <2>6. /\ ShardInv(blocks', [Count(BlockRefs) EXCEPT ![b] = @ - 1], {}, BlockKeys, BlockValues)
        /\ Shrinks(blocks, blocks')
    BY <1>2, <2>2, <2>5, UnrefInv DEF BlocksShard
  <2>7. BlocksShard'
    BY <2>5, <2>6, CountsPrime DEF BlocksShard
  <2>8. BlocksInv'
    BY <1>1, <1>2, <1>9, <2>6, BlocksKept DEF TypeInv, Shrinks
  <2> QED BY <1>9, <1>11, <2>7, <2>8 DEF CachesInv
<1> QED BY <1>6, <1>12, <1>13

\* EndRead keeps the invariant: a table that was deleted meanwhile is closed.
LEMMA EndReadInv ==
    ASSUME CachesInv, NEW t \in Threads, EndRead(t)
    PROVE  CachesInv'
<1> DEFINE r == thread[t]
<1>0. PICK e, d : e = r.th /\ d = Unref(tables, e)
  OBVIOUS
<1>1. /\ r.pc = "read" /\ CloseTables(d) /\ thread' = [thread EXCEPT ![t] = Quiet]
      /\ tables' = d /\ UNCHANGED <<blocks, files, contents, ids>>
  BY <1>0 DEF EndRead, fileVars, CloseTables
<1>2. TypeInv /\ TablesShard /\ BlocksShard /\ ReadersInv /\ CachedInv /\ OpenInv /\ BlocksInv
      /\ LimitsInv
  BY DEF CachesInv
<1>3. /\ thread = [u \in Threads |-> thread[u]] /\ thread' = [u \in Threads |-> thread'[u]]
      /\ thread'[t] = Quiet /\ \A u \in Threads \ {t} : thread'[u] = thread[u]
  BY <1>1, <1>2 DEF TypeInv
<1>4. Quiet.pc = "none" /\ DOMAIN Quiet = {"pc"}
  BY DEF Quiet
<1>5. CallOK(Quiet) /\ TablesOf(Quiet) = {} /\ BlocksOf(Quiet) = {}
  BY <1>4 DEF CallOK, TablesOf, BlocksOf, Reading
<1>6. CallOK(r) /\ "th" \in DOMAIN r /\ e \in Nat
  BY <1>0, <1>1, ReaderIs DEF Reading
<1>7. TablesOf(r) = {e} /\ BlocksOf(r) = {}
  BY <1>0, <1>1, <1>6 DEF CallOK, TablesOf, BlocksOf
<1>8. /\ TableRefs' = [TableRefs EXCEPT ![t] = {}] /\ TableRefs[t] = {e}
      /\ TableRefs = [u \in Threads |-> TableRefs[u]] /\ BlockRefs' = BlockRefs
  BY <1>3, <1>5, <1>7, RefsStep
<1>9. Count(TableRefs') = [Count(TableRefs) EXCEPT ![e] = @ - 1] /\ Count(TableRefs)[e] > 0
  <2>1. Takes(TableRefs', TableRefs, t, e)
    BY <1>6, <1>8 DEF Takes
  <2> QED BY <2>1, CountReleased DEF CountsDown
<1>10. /\ ShardInv(d, [Count(TableRefs) EXCEPT ![e] = @ - 1], {}, Numbers, File)
       /\ Shrinks(tables, d)
  BY <1>0, <1>2, <1>6, <1>9, UnrefInv DEF TablesShard
<1>11. ShardInv(d, Count(TableRefs'), {}, Numbers, File)
  BY <1>9, <1>10
<1>12. TablesShard' /\ BlocksShard'
  BY <1>1, <1>2, <1>8, <1>11, CountsPrime DEF TablesShard, BlocksShard
<1>13. /\ DOMAIN d.handles \subseteq DOMAIN tables.handles /\ InCache(d) \subseteq InCache(tables)
       /\ \A x \in DOMAIN d.handles : /\ d.handles[x].key = tables.handles[x].key
                                      /\ d.handles[x].value = tables.handles[x].value
  BY <1>10 DEF Shrinks
<1>14. Openers' = Openers /\ \A u \in Openers : thread'[u].file = thread[u].file
  BY <1>1, <1>3, <1>4 DEF Openers
<1>15. OpenInv' /\ LimitsInv' /\ Files' \subseteq Files /\ mmaps' \in Nat /\ fds' \in Nat
  BY <1>1, <1>2, <1>13, <1>14, ClosedInv
<1>16. TypeInv'
  <2>1. \A u \in Threads : CallOK(thread'[u])
    BY <1>2, <1>3, <1>5 DEF TypeInv
  <2> QED BY <1>1, <1>2, <1>3, <1>15, <2>1 DEF TypeInv
<1>17. ReadersInv'
  <2> SUFFICES ASSUME NEW u \in Threads, u # t
               PROVE  /\ thread[u].pc # "none" => thread[u].n \in DOMAIN files
                                                  /\ thread[u].content = files[thread[u].n]
                      /\ "th" \in DOMAIN thread[u] =>
                            d.handles[thread[u].th].value.content = thread[u].content
    BY <1>1, <1>3, <1>4 DEF ReadersInv
  <2>1. ASSUME "th" \in DOMAIN thread[u]
        PROVE  thread[u].th \in DOMAIN d.handles
    <3>1. thread[u].th \in Nat
      BY <1>2, <2>1, ReadersHave
    <3>2. thread[u].th \in TableRefs'[u]
      BY <1>3, <2>1 DEF TableRefs, TablesOf
    <3>3. Count(TableRefs')[thread[u].th] > 0
      BY <3>1, <3>2, CountHeld
    <3> QED BY <1>11, <3>1, <3>3, HeldIsThere
  <2> QED BY <1>2, <1>13, <2>1 DEF ReadersInv
<1>18. CachedInv'
  <2> SUFFICES ASSUME NEW x \in InCache(d)
               PROVE  /\ d.handles[x].key \in DOMAIN files
                      /\ d.handles[x].value.content = files[d.handles[x].key]
    BY <1>1 DEF CachedInv, InCache
  <2>1. x \in DOMAIN d.handles /\ x \in InCache(tables)
    BY <1>13 DEF InCache
  <2> QED BY <1>2, <1>13, <2>1 DEF CachedInv
<1>19. BlocksInv'
  BY <1>1, <1>2, <1>15, BlocksSame DEF TypeInv
<1> QED BY <1>12, <1>15, <1>16, <1>17, <1>18, <1>19 DEF CachesInv

\* PruneBlocks keeps the invariant.
LEMMA PruneBlocksInv == ASSUME CachesInv, PruneBlocks PROVE CachesInv'
<1>1. blocks' = Prune(blocks) /\ UNCHANGED <<tables, files, contents, mmaps, fds, ids, thread>>
  BY DEF PruneBlocks, fileVars, limitVars
<1>2. TypeInv /\ TablesShard /\ BlocksShard /\ ReadersInv /\ CachedInv /\ OpenInv /\ BlocksInv
      /\ LimitsInv
  BY DEF CachesInv
<1>3. /\ ShardInv(blocks', Count(BlockRefs), {}, BlockKeys, BlockValues)
      /\ \E E : Erased(blocks, blocks', E, Count(BlockRefs))
  BY <1>1, <1>2, PruneInv DEF BlocksShard
<1>4. TypeInv' /\ ReadersInv' /\ CachedInv'
  BY <1>1, <1>2 DEF TypeInv, ReadersInv, CachedInv
<1>5. TablesShard' /\ BlocksShard'
  BY <1>1, <1>2, <1>3, CountsPrime DEF TablesShard, BlocksShard
<1>6. Openers' = Openers /\ Files' = Files
  BY <1>1 DEF Openers, Files, TableFile
<1>7. OpenInv' /\ LimitsInv'
  BY <1>1, <1>2, <1>6 DEF OpenInv, LimitsInv, TableFile, MappedFiles, FdFiles
<1>8. BlocksInv'
  <2>1. \A b \in DOMAIN blocks'.handles :
            /\ b \in DOMAIN blocks.handles
            /\ blocks'.handles[b].key = blocks.handles[b].key
            /\ blocks'.handles[b].value = blocks.handles[b].value
    BY <1>3 DEF Erased, Shrinks
  <2> QED BY <1>1, <1>2, <1>6, <2>1, BlocksKept DEF TypeInv
<1> QED BY <1>4, <1>5, <1>7, <1>8 DEF CachesInv

\* The function without arguments
LEMMA EmptyPartial == \A S, T : <<>> \in Partial(S, T) /\ DOMAIN <<>> = {}
<1> SUFFICES ASSUME NEW S, NEW T PROVE <<>> \in Partial(S, T) /\ DOMAIN <<>> = {}
  OBVIOUS
<1>1. <<>> \in [{} -> T]
  OBVIOUS
<1> QED BY <1>1 DEF Partial

\* No file takes nothing.
LEMMA NoKinds == MappedFiles({}) = 0 /\ FdFiles({}) = 0
<1>1. {f \in {} : f.kind = "mmap"} = {} /\ {f \in {} : f.kind = "fd"} = {}
  OBVIOUS
<1> QED BY <1>1, FS_EmptySet DEF MappedFiles, FdFiles

\* While no thread reads, no handle is held.
LEMMA NoneHeld ==
    ASSUME \A t \in Threads : thread[t] = Quiet
    PROVE  /\ Count(TableRefs) = [e \in Nat |-> 0] /\ Count(BlockRefs) = [e \in Nat |-> 0]
           /\ Openers = {} /\ CallOK(Quiet)
           /\ \A t \in Threads : thread[t].pc = "none" /\ "th" \notin DOMAIN thread[t]
<1>1. Quiet.pc = "none" /\ DOMAIN Quiet = {"pc"}
  BY DEF Quiet
<1>2. \A t \in Threads : TableRefs[t] = {} /\ BlockRefs[t] = {}
  BY <1>1 DEF TableRefs, BlockRefs, TablesOf, BlocksOf
<1>3. \A e \in Nat : Holders(TableRefs, e) = {} /\ Holders(BlockRefs, e) = {}
  BY <1>2 DEF Holders
<1> QED BY <1>1, <1>3, FS_EmptySet DEF Count, Openers, CallOK, Reading

\* CloseWorld keeps the invariant: no table is in use, all are closed.
LEMMA CloseWorldInv ==
    ASSUME CachesInv, NEW F \in SUBSET DOMAIN files, CloseWorld(F)
    PROVE  CachesInv'
<1>0. PICK d : d = Shard(tables.capacity)
  OBVIOUS
<1>1. /\ \A t \in Threads : thread[t] = Quiet
      /\ CloseTables(d) /\ tables' = d /\ files' = [n \in DOMAIN files \ F |-> files[n]]
      /\ UNCHANGED <<blocks, contents, ids, thread>>
  BY <1>0 DEF CloseWorld, CloseTables
<1>2. TypeInv /\ TablesShard /\ BlocksShard /\ ReadersInv /\ CachedInv /\ OpenInv /\ BlocksInv
      /\ LimitsInv
  BY DEF CachesInv
<1>3. /\ Count(TableRefs) = [e \in Nat |-> 0] /\ Openers = {}
      /\ \A t \in Threads : thread[t].pc = "none" /\ "th" \notin DOMAIN thread[t]
  BY <1>1, NoneHeld
<1>4. tables.capacity \in Nat
  BY <1>2, HandlesAre DEF TablesShard, ShardInv
<1>5. ShardInv(d, Count(TableRefs), {}, Numbers, File) /\ DOMAIN d.handles = {}
  BY <1>0, <1>3, <1>4, EmptyShardInv
<1>6. TableRefs' = TableRefs /\ BlockRefs' = BlockRefs /\ Openers' = Openers
  BY <1>1, CountsPrime
<1>7. OpenInv' /\ LimitsInv' /\ Files' \subseteq Files /\ mmaps' \in Nat /\ fds' \in Nat
  BY <1>1, <1>2, <1>3, <1>5, <1>6, ClosedInv
<1>8. files' \in Partial(Numbers, Nat)
  <2>1. files \in Partial(Numbers, Nat)
    BY <1>2 DEF TypeInv
  <2>2. DOMAIN files \subseteq Numbers /\ \A n \in DOMAIN files : files[n] \in Nat
    BY <2>1, PartialIs
  <2>3. /\ files' = [n \in DOMAIN files' |-> files'[n]] /\ DOMAIN files' \subseteq Numbers
        /\ \A n \in DOMAIN files' : files'[n] \in Nat
    BY <1>1, <2>2
  <2> QED BY <2>3, PartialIs
<1>9. TypeInv'
  BY <1>1, <1>2, <1>7, <1>8 DEF TypeInv
<1>10. TablesShard' /\ BlocksShard'
  BY <1>1, <1>2, <1>5, <1>6, CountsPrime DEF TablesShard, BlocksShard
<1>11. ReadersInv' /\ CachedInv'
  BY <1>1, <1>3, <1>5 DEF ReadersInv, CachedInv, InCache
<1>12. BlocksInv'
  BY <1>1, <1>2, <1>7, BlocksSame DEF TypeInv
<1> QED BY <1>7, <1>9, <1>10, <1>11, <1>12 DEF CachesInv

\* The invariant holds at the start.
LEMMA CachesInitInv == CachesInit => CachesInv
<1> SUFFICES ASSUME CachesInit PROVE CachesInv
  OBVIOUS
<1>1. PICK c \in Capacities : tables = Shard(c.tables) /\ blocks = Shard(c.blocks)
  BY DEF CachesInit
<1>2. /\ files = <<>> /\ contents = 0 /\ mmaps = MmapLimit /\ fds = FdLimit /\ ids = 0
      /\ thread = [t \in Threads |-> Quiet]
  BY DEF CachesInit
<1>3. c.tables \in Nat /\ c.blocks \in Nat /\ MmapLimit \in Nat /\ FdLimit \in Nat
  BY CachesAssumption DEF CachesAssumption
<1>4. /\ Count(TableRefs) = [e \in Nat |-> 0] /\ Count(BlockRefs) = [e \in Nat |-> 0]
      /\ Openers = {} /\ CallOK(Quiet)
      /\ \A t \in Threads : thread[t].pc = "none" /\ "th" \notin DOMAIN thread[t]
  BY <1>2, NoneHeld
<1>5. TablesShard /\ DOMAIN tables.handles = {}
  BY <1>1, <1>3, <1>4, EmptyShardInv DEF TablesShard
<1>6. BlocksShard /\ DOMAIN blocks.handles = {}
  BY <1>1, <1>3, <1>4, EmptyShardInv DEF BlocksShard
<1>7. TypeInv
  BY <1>2, <1>3, <1>4, EmptyPartial DEF TypeInv
<1>8. ReadersInv /\ CachedInv /\ BlocksInv
  BY <1>4, <1>5, <1>6 DEF ReadersInv, CachedInv, BlocksInv, InCache
<1>9. OpenInv /\ Files = {}
  BY <1>4, <1>5 DEF OpenInv, Files
<1>10. LimitsInv
  BY <1>2, <1>3, <1>9, NoKinds DEF LimitsInv
<1> QED BY <1>5, <1>6, <1>7, <1>8, <1>9, <1>10 DEF CachesInv

\* The invariant is about the variables of the model.
LEMMA CachesStutters == CachesInv /\ UNCHANGED cachesVars => CachesInv'
<1> SUFFICES ASSUME CachesInv, UNCHANGED cachesVars PROVE CachesInv'
  OBVIOUS
<1>1. UNCHANGED <<tables, blocks, files, contents, mmaps, fds, ids, thread>>
  BY DEF cachesVars, cacheVars, fileVars, limitVars
<1>2. TypeInv /\ TablesShard /\ BlocksShard /\ ReadersInv /\ CachedInv /\ OpenInv /\ BlocksInv
      /\ LimitsInv
  BY DEF CachesInv
<1>3. TypeInv' /\ ReadersInv' /\ CachedInv'
  BY <1>1, <1>2 DEF TypeInv, ReadersInv, CachedInv
<1>4. TablesShard' /\ BlocksShard'
  BY <1>1, <1>2, CountsPrime DEF TablesShard, BlocksShard
<1>5. Openers' = Openers /\ Files' = Files
  BY <1>1 DEF Openers, Files, TableFile
<1>6. OpenInv' /\ LimitsInv'
  BY <1>1, <1>2, <1>5 DEF OpenInv, LimitsInv, TableFile, MappedFiles, FdFiles
<1>7. BlocksInv'
  BY <1>1, <1>2, <1>5, BlocksSame DEF TypeInv
<1> QED BY <1>3, <1>4, <1>6, <1>7 DEF CachesInv

\* Every step keeps the invariant.
LEMMA CachesStepInv == CachesInv /\ [CachesNext]_cachesVars => CachesInv'
<1> SUFFICES ASSUME CachesInv, [CachesNext]_cachesVars PROVE CachesInv'
  OBVIOUS
<1>1. CASE UNCHANGED cachesVars
  BY <1>1, CachesStutters
<1>2. CASE \E n \in Numbers : NewTable(n) \/ DeleteTable(n)
  BY <1>2, NewTableInv, DeleteTableInv
<1>3. CASE \E t \in Threads, n \in Numbers : StartRead(t, n)
  BY <1>3, StartReadInv
<1>4. CASE \E t \in Threads : FindTable(t) \/ OpenFile(t) \/ InsertTable(t) \/ OpenFails(t)
  BY <1>4, FindTableInv, OpenFileInv, InsertTableInv, OpenFailsInv
<1>5. CASE \E t \in Threads, off \in Offsets : FindBlock(t, off)
  BY <1>5, FindBlockInv
<1>6. CASE \E t \in Threads, fill \in BOOLEAN : LoadBlock(t, fill)
  BY <1>6, LoadBlockInv
<1>7. CASE \E t \in Threads : DropBlock(t) \/ EndRead(t)
  BY <1>7, DropBlockInv, EndReadInv
<1>8. CASE PruneBlocks
  BY <1>8, PruneBlocksInv
<1>9. CASE \E F \in SUBSET DOMAIN files : CloseWorld(F)
  BY <1>9, CloseWorldInv
<1> QED BY <1>1, <1>2, <1>3, <1>4, <1>5, <1>6, <1>7, <1>8, <1>9 DEF CachesNext

----------------------------------------------------------------------------
(* The properties of the model.                                            *)

\* The invariant implies CachesAgree.
LEMMA AgreeStep == CachesInv => CachesAgree
<1> SUFFICES ASSUME CachesInv PROVE CachesAgree
  OBVIOUS
<1>1. TablesShard /\ BlocksShard
  BY DEF CachesInv
<1>2. ShardAgrees(tables, Count(TableRefs)) /\ ShardAgrees(blocks, Count(BlockRefs))
  BY <1>1, ShardInvAgrees DEF TablesShard, BlocksShard
<1>3. /\ \A e \in DOMAIN tables.handles : TableHeld(e) = Count(TableRefs)[e]
      /\ \A e \in DOMAIN blocks.handles : BlockHeld(e) = Count(BlockRefs)[e]
  BY <1>1, HandlesAre, HeldAreCounted DEF TablesShard, BlocksShard, ShardInv
<1>4. ShardOK(tables, TableHeld)
  BY <1>2, <1>3 DEF ShardOK, ShardAgrees, InCache, Charges
<1>5. ShardOK(blocks, BlockHeld)
  BY <1>2, <1>3 DEF ShardOK, ShardAgrees, InCache, Charges
<1> QED BY <1>4, <1>5 DEF CachesAgree

\* The invariant implies ReadsItsBlock.
LEMMA ReadsStep == CachesInv => ReadsItsBlock
<1> SUFFICES ASSUME CachesInv, NEW t \in Threads
             PROVE  /\ "th" \in DOMAIN thread[t] => /\ thread[t].th \in DOMAIN tables.handles
                                                    /\ TableOf(t).content = thread[t].content
                    /\ thread[t].pc = "block" =>
                          /\ thread[t].data = <<thread[t].content, thread[t].off>>
                          /\ thread[t].bh \subseteq DOMAIN blocks.handles
  BY DEF ReadsItsBlock
<1>1. TypeInv /\ TablesShard /\ BlocksShard /\ ReadersInv
  BY DEF CachesInv
<1>2. CallOK(thread[t])
  BY <1>1 DEF TypeInv
<1>3. "th" \in DOMAIN thread[t] => /\ thread[t].th \in DOMAIN tables.handles
                                   /\ TableOf(t).content = thread[t].content
  BY <1>1, ReadersHave DEF ReadersInv, TableOf
<1>4. ASSUME thread[t].pc = "block"
      PROVE  /\ thread[t].data = <<thread[t].content, thread[t].off>>
             /\ thread[t].bh \subseteq DOMAIN blocks.handles
  <2>1. "bh" \in DOMAIN thread[t] /\ thread[t].data = <<thread[t].content, thread[t].off>>
    BY <1>2, <1>4 DEF CallOK
  <2>2. BlocksOf(thread[t]) = thread[t].bh
    BY <2>1 DEF BlocksOf
  <2> QED BY <1>1, <2>1, <2>2, ReadersHave
<1> QED BY <1>3, <1>4

\* Each open file is open once, so that the Limiters count files or openers.
LEMMA TakenAreFiles ==
    ASSUME CachesInv, NEW kind
    PROVE  Taken(kind) = Cardinality({f \in Files : f.kind = kind})
<1> DEFINE S == {o \in OpenFiles : o.file.kind = kind}
           T == {f \in Files : f.kind = kind}
           g == [o \in S |-> o.file]
           InCacheOf(e) == [file |-> TableFile(e), at |-> <<"cache", e>>]
           OpenedBy(t)  == [file |-> thread[t].file, at |-> <<"thread", t>>]
<1>1. TypeInv /\ TablesShard /\ OpenInv
  BY DEF CachesInv
<1>2. IsFiniteSet(T)
  <2>1. IsFiniteSet(Files) /\ T \in SUBSET Files
    BY <1>1, TableFilesAre
  <2> QED BY <2>1, FS_Subset
<1>3. OpenFiles = {InCacheOf(e) : e \in DOMAIN tables.handles} \cup {OpenedBy(t) : t \in Openers}
  BY DEF OpenFiles, TableFile, Openers
<1>4. /\ \A e \in DOMAIN tables.handles : InCacheOf(e).file = TableFile(e)
      /\ \A t \in Openers : OpenedBy(t).file = thread[t].file
  OBVIOUS
<1> HIDE DEF InCacheOf, OpenedBy
<1>5. \A o \in OpenFiles : o.file \in Files
  BY <1>3, <1>4 DEF Files
<1>6. \A f \in Files : \E o \in OpenFiles : o.file = f
  BY <1>3, <1>4 DEF Files
<1>7. \A o, p \in OpenFiles : o.file = p.file => o = p
  BY <1>1, <1>3, <1>4 DEF OpenInv
<1>8. g \in [S -> T]
  BY <1>5
<1>9. g \in Injection(S, T)
  BY <1>7, <1>8 DEF Injection, IsInjective
<1>10. g \in Surjection(S, T)
  BY <1>6, <1>8 DEF Surjection
<1> HIDE DEF g, S, T
<1>11. Cardinality(S) = Cardinality(T)
  BY <1>2, <1>9, <1>10, FS_Injection
<1> QED BY <1>11 DEF S, T, Taken

\* The invariant implies DeletedIsClosed: an open table is in the cache, or has a
\* reader whose file is not deleted.
LEMMA ClosedStep == CachesInv => DeletedIsClosed
<1> SUFFICES ASSUME CachesInv PROVE DeletedIsClosed
  OBVIOUS
<1>1. TypeInv /\ TablesShard /\ ReadersInv /\ CachedInv /\ LimitsInv
  BY DEF CachesInv
<1>2. ASSUME NEW e \in DOMAIN tables.handles
      PROVE  tables.handles[e].value.content \in {files[n] : n \in DOMAIN files}
  <2>1. CASE e \in InCache(tables)
    BY <1>1, <2>1 DEF CachedInv
  <2>2. CASE e \notin InCache(tables)
    <3>1. e \in Nat /\ tables.handles[e].refs \in Nat \ {0}
      BY <1>1, HandlesAre DEF TablesShard, ShardInv, Handle
    <3>2. tables.handles[e].refs = Count(TableRefs)[e] + 0
      BY <1>1, <2>2 DEF TablesShard, ShardInv, CountsInv, InCache
    <3>3. Count(TableRefs)[e] > 0
      BY <3>1, <3>2, CountType
    <3>4. PICK t \in Threads : e \in TableRefs[t]
      BY <3>1, <3>3, CountHolder
    <3>5. "th" \in DOMAIN thread[t] /\ thread[t].th = e
      BY <3>4 DEF TableRefs, TablesOf
    <3>6. thread[t].pc # "none"
      BY <1>1, <3>5 DEF TypeInv, CallOK, Reading
    <3> QED BY <1>1, <3>5, <3>6 DEF ReadersInv
  <2> QED BY <2>1, <2>2
<1>3. mmaps + Taken("mmap") = MmapLimit /\ fds + Taken("fd") = FdLimit
  BY <1>1, TakenAreFiles DEF LimitsInv, MappedFiles, FdFiles
<1> QED BY <1>2, <1>3 DEF DeletedIsClosed

\* A cache only grows when something is inserted.
LEMMA ShrinksGrows ==
    \A c, d : /\ c = d \/ Shrinks(c, d) \/ d.usage = 0 \/ (d.lru = <<>> \/ d.usage <= d.capacity)
              /\ {c.usage, d.usage, d.capacity} \subseteq Nat
              => GrowsWithin(c, d)
BY DEF Shrinks, GrowsWithin

\* Only Insert() lets usage_ grow, and it ends with its loop over lru_.
LEMMA GrowsStep ==
    CachesInv /\ [CachesNext]_cachesVars =>
        [GrowsWithin(tables, tables') /\ GrowsWithin(blocks, blocks')]_cacheVars
<1> SUFFICES ASSUME CachesInv, CachesNext
             PROVE  GrowsWithin(tables, tables') /\ GrowsWithin(blocks, blocks')
  BY DEF cachesVars
<1>1. CachesInv'
  BY CachesStepInv
<1>2. /\ TypeInv /\ TablesShard /\ BlocksShard /\ TablesShard' /\ BlocksShard'
  BY <1>1 DEF CachesInv
<1>3. {tables.usage, tables'.usage, tables'.capacity, blocks.usage, blocks'.usage, blocks'.capacity}
          \subseteq Nat
  <2>1. /\ ShardType(tables, Numbers, File) /\ ShardType(tables', Numbers, File)
        /\ ShardType(blocks, BlockKeys, BlockValues) /\ ShardType(blocks', BlockKeys, BlockValues)
    BY <1>2 DEF TablesShard, BlocksShard, ShardInv, File, BlockKeys, BlockValues
  <2> QED BY <2>1, HandlesAre
<1>4. SUFFICES /\ \/ tables' = tables \/ Shrinks(tables, tables') \/ tables'.usage = 0
                  \/ tables'.lru = <<>> \/ tables'.usage <= tables'.capacity
               /\ \/ blocks' = blocks \/ Shrinks(blocks, blocks')
                  \/ blocks'.lru = <<>> \/ blocks'.usage <= blocks'.capacity
  BY <1>3, ShrinksGrows
<1>5. /\ ShardInv(tables, Count(TableRefs), {}, Numbers, File)
      /\ ShardInv(blocks, Count(BlockRefs), {}, BlockKeys, BlockValues)
  BY <1>2 DEF TablesShard, BlocksShard
<1>6. CASE UNCHANGED <<tables, blocks>>
  BY <1>6
<1>7. ASSUME NEW n \in Numbers, DeleteTable(n) PROVE Shrinks(tables, tables') /\ blocks' = blocks
  <2>1. tables' = Erase(tables, n) /\ blocks' = blocks
    BY <1>7 DEF DeleteTable, Evicted, CloseTables
  <2>2. Erased(tables, tables', ErasedBy(tables, n), Count(TableRefs))
    BY <1>5, <2>1, EraseInv
  <2> QED BY <2>1, <2>2 DEF Erased
<1>8. ASSUME NEW t \in Threads, FindTable(t), tables' # tables
      PROVE  Shrinks(tables, tables') /\ blocks' = blocks
  <2>1. PICK e : e = tables.table[thread[t].n]
    OBVIOUS
  <2>2. Holds(tables.table, thread[t].n) /\ tables' = Ref(tables, e) /\ blocks' = blocks
    BY <1>8, <2>1 DEF FindTable, Lookup
  <2>3. e \in InCache(tables)
    BY <1>5, <2>1, <2>2 DEF ShardInv, TableInv, Holds
  <2> QED BY <1>5, <2>2, <2>3, RefInv
<1>9. ASSUME NEW t \in Threads, InsertTable(t)
      PROVE  (tables'.lru = <<>> \/ tables'.usage <= tables'.capacity) /\ blocks' = blocks
  <2>1. PICK n, f : n = thread[t].n /\ f = thread[t].file
    OBVIOUS
  <2>2. tables' = InsertEntry(tables, n, f, 1) /\ blocks' = blocks /\ thread[t].pc = "insert"
    BY <1>9, <2>1 DEF InsertTable, CloseTables
  <2>3. n \in Numbers /\ f \in File /\ 1 \in Nat
    <3>1. CallOK(thread[t]) /\ ReadersInv
      BY <1>2 DEF TypeInv, CachesInv
    <3>2. n \in DOMAIN files /\ f \in File
      BY <2>1, <2>2, <3>1 DEF CallOK, ReadersInv
    <3> QED BY <1>2, <3>2, PartialIs DEF TypeInv
  <2>4. PICK e : e = tables.last + 1
    OBVIOUS
  <2>5. IsInserted(tables, tables', e, n, f, Count(TableRefs))
    BY <1>5, <2>2, <2>3, <2>4, InsertEntryInv
  <2> QED BY <2>2, <2>5 DEF IsInserted
<1>10. ASSUME NEW t \in Threads, NEW off \in Offsets, FindBlock(t, off), blocks' # blocks
       PROVE  Shrinks(blocks, blocks') /\ tables' = tables
  <2>1. PICK e : e = blocks.table[BlockKey(t, off)]
    OBVIOUS
  <2>2. Holds(blocks.table, BlockKey(t, off)) /\ blocks' = Ref(blocks, e) /\ tables' = tables
    BY <1>10, <2>1 DEF FindBlock, Lookup
  <2>3. e \in InCache(blocks)
    BY <1>5, <2>1, <2>2 DEF ShardInv, TableInv, Holds
  <2> QED BY <1>5, <2>2, <2>3, RefInv
<1>11. ASSUME NEW t \in Threads, NEW fill \in BOOLEAN, LoadBlock(t, fill), blocks' # blocks
       PROVE  (blocks'.lru = <<>> \/ blocks'.usage <= blocks'.capacity) /\ tables' = tables
  <2>1. PICK off, key, data : /\ off = thread[t].off /\ key = BlockKey(t, off)
                              /\ data = <<Read(t), off>>
    OBVIOUS
  <2>2. /\ blocks' = InsertEntry(blocks, key, data, BlockCharge[off]) /\ tables' = tables
        /\ thread[t].pc = "load"
    BY <1>11, <2>1 DEF LoadBlock
  <2>3. /\ CallOK(thread[t]) /\ thread[t].content = files[thread[t].n] /\ thread[t].content \in Nat
        /\ TableOf(t).content = thread[t].content /\ TableOf(t).id \in Nat
    BY <2>2, ReaderIs DEF Reading
  <2>4. off \in Offsets /\ BlockCharge[off] \in Nat
    BY <2>1, <2>2, <2>3, CachesAssumption DEF CallOK, CachesAssumption
  <2>5. key \in BlockKeys /\ data \in BlockValues
    BY <2>1, <2>3, <2>4 DEF BlockKey, Read, BlockKeys, BlockValues
  <2>6. PICK e : e = blocks.last + 1
    OBVIOUS
  <2>7. IsInserted(blocks, blocks', e, key, data, Count(BlockRefs))
    BY <1>5, <2>2, <2>4, <2>5, <2>6, InsertEntryInv
  <2> QED BY <2>2, <2>7 DEF IsInserted
<1>12. ASSUME NEW t \in Threads, DropBlock(t), blocks' # blocks
       PROVE  Shrinks(blocks, blocks') /\ tables' = tables
  <2>1. /\ thread[t].pc = "block" /\ blocks' = UnrefAll(blocks, thread[t].bh) /\ tables' = tables
    BY Zenon, <1>12 DEF DropBlock, UnrefAll
  <2>2. CallOK(thread[t])
    BY <1>2 DEF TypeInv
  <2>3. "bh" \in DOMAIN thread[t] /\ (thread[t].bh = {} \/ \E b \in Nat : thread[t].bh = {b})
    BY <2>1, <2>2 DEF CallOK
  <2>4. PICK b \in Nat : thread[t].bh = {b}
    BY <1>12, <2>1, <2>3, UnrefNone
  <2>5. Count(BlockRefs)[b] > 0
    <3>1. b \in BlockRefs[t]
      BY <2>3, <2>4 DEF BlockRefs, BlocksOf
    <3> QED BY <3>1, CountHeld
  <2>6. blocks' = Unref(blocks, b)
    BY <2>1, <2>4, UnrefOne
  <2>7. /\ ShardInv(blocks', [Count(BlockRefs) EXCEPT ![b] = @ - 1], {}, BlockKeys, BlockValues)
        /\ Shrinks(blocks, blocks')
    BY <1>5, <2>5, <2>6, UnrefInv
  <2> QED BY <2>1, <2>7
<1>13. ASSUME NEW t \in Threads, EndRead(t) PROVE Shrinks(tables, tables') /\ blocks' = blocks
  <2>1. PICK e : e = thread[t].th
    OBVIOUS
  <2>2. tables' = Unref(tables, e) /\ blocks' = blocks /\ thread[t].pc = "read"
    BY <1>13, <2>1 DEF EndRead, CloseTables
  <2>3. e \in Nat /\ Count(TableRefs)[e] > 0
    BY <2>1, <2>2, ReaderIs DEF Reading
  <2> QED BY <1>5, <2>2, <2>3, UnrefInv
<1>14. ASSUME PruneBlocks PROVE Shrinks(blocks, blocks') /\ tables' = tables
  <2>1. blocks' = Prune(blocks) /\ tables' = tables
    BY <1>14 DEF PruneBlocks
  <2>2. \E E : Erased(blocks, blocks', E, Count(BlockRefs))
    BY <1>5, <2>1, PruneInv
  <2> QED BY <2>1, <2>2 DEF Erased
<1>15. ASSUME NEW F \in SUBSET DOMAIN files, CloseWorld(F) PROVE tables'.usage = 0 /\ blocks' = blocks
  BY <1>15 DEF CloseWorld, CloseTables, Shard
<1>16. ASSUME NEW t \in Threads, OpenFile(t) \/ OpenFails(t) \/ \E n \in Numbers : StartRead(t, n)
       PROVE  UNCHANGED <<tables, blocks>>
  BY <1>16 DEF OpenFile, OpenFails, StartRead, cacheVars
<1>17. ASSUME NEW n \in Numbers, NewTable(n) PROVE UNCHANGED <<tables, blocks>>
  BY <1>17 DEF NewTable, cacheVars
<1>18. CASE \E n \in Numbers : NewTable(n) \/ DeleteTable(n)
  BY <1>7, <1>17, <1>18
<1>19. CASE \E t \in Threads : (\E n \in Numbers : StartRead(t, n)) \/ FindTable(t) \/ OpenFile(t)
                               \/ InsertTable(t) \/ OpenFails(t)
  <2>1. ASSUME NEW t \in Threads, FindTable(t) PROVE blocks' = blocks
    BY <2>1 DEF FindTable
  <2> QED BY <1>8, <1>9, <1>16, <1>19, <2>1
<1>20. CASE \E t \in Threads, off \in Offsets : FindBlock(t, off)
  <2>1. ASSUME NEW t \in Threads, NEW off \in Offsets, FindBlock(t, off) PROVE tables' = tables
    BY <2>1 DEF FindBlock
  <2> QED BY <1>10, <1>20, <2>1
<1>21. CASE \E t \in Threads, fill \in BOOLEAN : LoadBlock(t, fill)
  <2>1. ASSUME NEW t \in Threads, NEW fill \in BOOLEAN, LoadBlock(t, fill) PROVE tables' = tables
    BY <2>1 DEF LoadBlock
  <2> QED BY <1>11, <1>21, <2>1
<1>22. CASE \E t \in Threads : DropBlock(t) \/ EndRead(t)
  <2>1. ASSUME NEW t \in Threads, DropBlock(t) PROVE tables' = tables
    BY <2>1 DEF DropBlock
  <2> QED BY <1>12, <1>13, <1>22, <2>1
<1>23. CASE PruneBlocks
  BY <1>14, <1>23
<1>24. CASE \E F \in SUBSET DOMAIN files : CloseWorld(F)
  BY <1>15, <1>24
<1> QED BY <1>18, <1>19, <1>20, <1>21, <1>22, <1>23, <1>24 DEF CachesNext

\* In every reachable state, the two shards are in order and the files, the
\* tables and the blocks are those of the readers.
THEOREM CachesInvariant == CachesSpec => []CachesInv
BY CachesInitInv, CachesStepInv, PTL DEF CachesSpec

\* The reference counts, the lists, the hash table and usage_ of both caches
\* agree with each other and with what the readers hold.
THEOREM CachesAgreeAlways == CachesSpec => []CachesAgree
BY CachesInvariant, AgreeStep, PTL

\* A reader has the block that it looked for, and nobody has freed the table
\* or the block that it uses.
THEOREM ReadersHaveTheirBlocks == CachesSpec => []ReadsItsBlock
BY CachesInvariant, ReadsStep, PTL

\* What is deleted is closed, and the Limiters have back what it took.
THEOREM DeletedIsAlwaysClosed == CachesSpec => []DeletedIsClosed
BY CachesInvariant, ClosedStep, PTL

\* A cache is over its capacity only while readers use all that is in it.
THEOREM CachesKeepToCapacity == CachesSpec => GrowsWithinCapacity
BY CachesInvariant, GrowsStep, PTL DEF CachesSpec, GrowsWithinCapacity
=============================================================================
