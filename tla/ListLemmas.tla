---------------------------- MODULE ListLemmas ----------------------------
(* What the array idioms of Lists return. *)
EXTENDS Lists, WellFoundedInduction, FiniteSetTheorems, SequenceTheorems, TLAPS

\* A non-empty set of positions up to n has a largest element.
LEMMA LatestIsMax ==
    ASSUME NEW n \in Nat, NEW P \in SUBSET (1..n), P # {}
    PROVE  Latest(P) \in P /\ \A j \in P : j <= Latest(P)
<1> DEFINE Q == {n - i : i \in P}
<1>1. Q \subseteq Nat /\ Q # {}
  <2>1. PICK p : p \in P
    OBVIOUS
  <2>2. n - p \in Q
    BY <2>1
  <2>3. \A i \in P : n - i \in Nat
    OBVIOUS
  <2> QED BY <2>2, <2>3
<1>2. PICK q \in Q : \A y \in Q : ~(<<y, q>> \in OpToRel(<, Nat))
  BY <1>1, NatLessThanWellFounded, WFMin
<1>3. \A y \in Q : ~(y < q)
  BY <1>1, <1>2 DEF OpToRel
<1>4. PICK i \in P : q = n - i
  OBVIOUS
<1>5. \A j \in P : j <= i
  <2> TAKE j \in P
  <2>1. ~(n - j < n - i)
    BY <1>3, <1>4
  <2> QED BY <2>1
<1> QED BY <1>4, <1>5 DEF Latest

\* Appending a newcomer keeps a list free of duplicates.
LEMMA AppendNewcomer ==
    ASSUME NEW S, NEW list \in Seq(S), NEW x \in S
    PROVE  /\ Append(list, x) \in Seq(S)
           /\ Append(list, x) # <<>>
           /\ Range(Append(list, x)) = Range(list) \cup {x}
           /\ IsInjective(list) /\ x \notin Range(list)
              => IsInjective(Append(list, x))
<1>1. /\ Append(list, x) \in Seq(S) /\ Len(Append(list, x)) = Len(list) + 1
      /\ \A i \in 1..Len(list) : Append(list, x)[i] = list[i]
      /\ Append(list, x)[Len(list) + 1] = x
  BY AppendProperties
<1>2. DOMAIN list = 1..Len(list) /\ DOMAIN Append(list, x) = 1..(Len(list) + 1)
  BY <1>1
<1>3. Append(list, x) # <<>>
  BY <1>1
<1>4. Range(Append(list, x)) = Range(list) \cup {x}
  BY <1>1, <1>2 DEF Range
<1>5. IsInjective(list) /\ x \notin Range(list) => IsInjective(Append(list, x))
  BY <1>1, <1>2 DEF Range, IsInjective
<1> QED BY <1>1, <1>3, <1>4, <1>5

\* Removing from a list leaves a list over the same elements.
LEMMA RemoveAtType ==
    ASSUME NEW S, NEW list \in Seq(S), NEW i \in 1..Len(list)
    PROVE  /\ RemoveAt(list, i) \in Seq(S)
           /\ Len(RemoveAt(list, i)) = Len(list) - 1
           /\ \A j \in 1..(Len(list) - 1) :
                 RemoveAt(list, i)[j] = IF j < i THEN list[j] ELSE list[j + 1]
<1> DEFINE p == SubSeq(list, 1, i - 1)
           q == SubSeq(list, i + 1, Len(list))
<1>1. /\ p \in Seq(S) /\ Len(p) = i - 1
      /\ \A j \in 1..(i - 1) : p[j] = list[j]
  BY SubSeqProperties, ElementOfSeq
<1>2. /\ q \in Seq(S) /\ Len(q) = Len(list) - i
      /\ \A j \in 1..(Len(list) - i) : q[j] = list[i + j]
  BY SubSeqProperties, ElementOfSeq
<1> HIDE DEF p, q
<1>3. /\ p \o q \in Seq(S) /\ Len(p \o q) = Len(p) + Len(q)
      /\ \A j \in 1..(Len(p) + Len(q)) :
            (p \o q)[j] = IF j <= Len(p) THEN p[j] ELSE q[j - Len(p)]
  BY <1>1, <1>2, ConcatProperties
<1>4. Len(p) + Len(q) = Len(list) - 1
  BY <1>1, <1>2
<1>5. ASSUME NEW j \in 1..(Len(list) - 1)
      PROVE  (p \o q)[j] = IF j < i THEN list[j] ELSE list[j + 1]
  <2>1. CASE j < i
    BY <1>1, <1>3, <1>4, <2>1
  <2>2. CASE ~(j < i)
    <3>1. j - (i - 1) \in 1..(Len(list) - i) /\ i + (j - (i - 1)) = j + 1
      BY <2>2
    <3>2. (p \o q)[j] = q[j - (i - 1)]
      BY <1>1, <1>3, <1>4, <2>2
    <3> QED BY <1>2, <2>2, <3>1, <3>2
  <2> QED BY <2>1, <2>2
<1>6. RemoveAt(list, i) = p \o q
  BY DEF RemoveAt, p, q
<1> QED BY <1>3, <1>4, <1>5, <1>6

LEMMA PositionsType ==
    ASSUME NEW S, NEW list \in Seq(S), NEW x
    PROVE  Positions(list, x) \in SUBSET (1..Len(list))
BY DEF Positions

LEMMA RemoveLastIndex ==
    ASSUME NEW S, NEW list \in Seq(S), list # <<>>, NEW x
    PROVE  \E i \in 1..Len(list) : /\ RemoveLast(list, x) = RemoveAt(list, i)
                                   /\ x \in Range(list) => list[i] = x
<1>1. CASE Positions(list, x) = {}
  BY <1>1 DEF RemoveLast, Positions, Range
<1>2. CASE Positions(list, x) # {}
  <2>1. Positions(list, x) \in SUBSET (1..Len(list)) /\ Len(list) \in Nat
    BY PositionsType
  <2>2. Latest(Positions(list, x)) \in Positions(list, x)
    BY <1>2, <2>1, LatestIsMax
  <2> QED BY <1>2, <2>1, <2>2 DEF RemoveLast, Positions
<1> QED BY <1>1, <1>2

LEMMA RemoveLastType ==
    ASSUME NEW S, NEW list \in Seq(S), list # <<>>, NEW x
    PROVE  /\ RemoveLast(list, x) \in Seq(S)
           /\ Range(RemoveLast(list, x)) \subseteq Range(list)
<1>1. PICK i \in 1..Len(list) : RemoveLast(list, x) = RemoveAt(list, i)
  BY RemoveLastIndex
<1>2. /\ RemoveAt(list, i) \in Seq(S)
      /\ Len(RemoveAt(list, i)) = Len(list) - 1
      /\ \A j \in 1..(Len(list) - 1) :
            RemoveAt(list, i)[j] = IF j < i THEN list[j] ELSE list[j + 1]
  BY RemoveAtType
<1>3. Range(RemoveAt(list, i)) \subseteq Range(list)
  BY <1>2 DEF Range
<1> QED BY <1>1, <1>2, <1>3

\* On a list without duplicates that has x, exactly x goes.
LEMMA RemoveLastInjective ==
    ASSUME NEW S, NEW list \in Seq(S), IsInjective(list), NEW x \in Range(list)
    PROVE  /\ IsInjective(RemoveLast(list, x))
           /\ Range(RemoveLast(list, x)) = Range(list) \ {x}
<1>1. list # <<>>
  BY DEF Range
<1>2. PICK i \in 1..Len(list) : /\ RemoveLast(list, x) = RemoveAt(list, i)
                                /\ list[i] = x
  BY <1>1, RemoveLastIndex
<1> DEFINE r == RemoveAt(list, i)
<1>3. /\ r \in Seq(S) /\ DOMAIN r = 1..(Len(list) - 1)
      /\ \A j \in 1..(Len(list) - 1) :
            r[j] = IF j < i THEN list[j] ELSE list[j + 1]
  BY RemoveAtType
<1> HIDE DEF r
<1>4. \A j, k \in 1..Len(list) : list[j] = list[k] => j = k
  BY DEF IsInjective
<1>5. IsInjective(r)
  <2> SUFFICES ASSUME NEW j \in 1..(Len(list) - 1), NEW k \in 1..(Len(list) - 1),
                      r[j] = r[k]
               PROVE  j = k
    BY <1>3 DEF IsInjective
  <2> DEFINE Old(n) == IF n < i THEN n ELSE n + 1
  <2>1. /\ Old(j) \in 1..Len(list) /\ r[j] = list[Old(j)]
        /\ Old(k) \in 1..Len(list) /\ r[k] = list[Old(k)]
    BY <1>3
  <2>2. Old(j) = Old(k)
    BY <1>4, <2>1
  <2> QED BY <2>2
<1>6. Range(r) \subseteq Range(list) \ {x}
  <2> SUFFICES ASSUME NEW j \in 1..(Len(list) - 1)
               PROVE  r[j] \in Range(list) /\ r[j] # x
    BY <1>3 DEF Range
  <2> DEFINE n == IF j < i THEN j ELSE j + 1
  <2>1. n \in 1..Len(list) /\ n # i /\ r[j] = list[n]
    BY <1>3
  <2>2. list[n] # list[i] /\ list[n] \in Range(list)
    BY <1>4, <2>1 DEF Range
  <2> QED BY <1>2, <2>1, <2>2
<1>7. ASSUME NEW y \in Range(list), y # x PROVE y \in Range(r)
  <2>1. PICK j \in 1..Len(list) : list[j] = y
    BY DEF Range
  <2>2. CASE j < i
    BY <2>1, <2>2, <1>3 DEF Range
  <2>3. CASE j > i
    <3>1. j - 1 \in 1..(Len(list) - 1) /\ ~(j - 1 < i) /\ (j - 1) + 1 = j
      BY <2>3
    <3>2. r[j - 1] = y
      BY <1>3, <2>1, <3>1
    <3> QED BY <1>3, <3>1, <3>2 DEF Range
  <2> QED BY <1>2, <1>7, <2>1, <2>2, <2>3
<1> QED BY <1>2, <1>5, <1>6, <1>7 DEF r

\* A list without duplicates names everybody at most once.
LEMMA OccurrencesInjective ==
    ASSUME NEW S, NEW list \in Seq(S), NEW x
    PROVE  /\ Occurrences(list, x) \in Nat
           /\ Occurrences(list, x) > 0 => x \in Range(list)
           /\ IsInjective(list) => Occurrences(list, x) <= 1
<1> DEFINE P == Positions(list, x)
<1>1. IsFiniteSet(P) /\ Cardinality(P) \in Nat
  <2>1. P \in SUBSET (1..Len(list)) /\ Len(list) \in Int
    BY PositionsType
  <2>2. IsFiniteSet(1..Len(list))
    BY <2>1, FS_Interval
  <2> QED BY <2>1, <2>2, FS_Subset, FS_CardinalityType
<1>2. x \notin Range(list) => P = {}
  BY DEF Positions, Range
<1>3. ASSUME IsInjective(list), P # {} PROVE Cardinality(P) = 1
  <2>1. PICK i : i \in P
    BY <1>3
  <2>2. P = {i}
    BY <1>3, <2>1 DEF Positions, IsInjective
  <2> QED BY <2>2, FS_Singleton
<1> QED BY <1>1, <1>2, <1>3, FS_EmptySet DEF Occurrences
==========================================================================
