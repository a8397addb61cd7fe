---------------------------- MODULE FixedSetProofs ----------------------------
(* What the operators of FixedSet return, for every array and capacity. *)
EXTENDS FixedSet, FiniteSetTheorems, WellFoundedInduction, TLAPS

\* prefix_index returns -1 or the number of a used cell that holds the key,
\* and -1 only if no used cell does (bunuelib.h, BUNUEL_FIXED_SET).
LEMMA IndexFinds ==
  ASSUME NEW key, NEW count \in Nat, NEW k
  PROVE  /\ Index(key, count, k) \in -1..count-1
         /\ Index(key, count, k) # NULL => key[Index(key, count, k)] = k
         /\ Index(key, count, k) = NULL => \A i \in 0..count-1 : key[i] # k
<1> DEFINE hits == {i \in 0..count-1 : key[i] = k}
<1>1. CASE hits = {}
  <2>1. Index(key, count, k) = NULL
    BY <1>1 DEF Index
  <2> QED
    BY <1>1, <2>1 DEF NULL
<1>2. CASE hits # {}
  <2>1. \E i \in hits : \A j \in hits : i <= j
    <3>1. hits \in SUBSET Nat
      OBVIOUS
    <3>2. PICK i \in hits : \A j \in hits : ~(<<j, i>> \in OpToRel(<, Nat))
      BY <1>2, <3>1, NatLessThanWellFounded, WFMin
    <3>3. \A j \in hits : ~(j < i)
      BY <3>1, <3>2 DEF OpToRel
    <3> QED
      BY <3>1, <3>3
  <2>2. Index(key, count, k) = CHOOSE i \in hits : \A j \in hits : i <= j
    BY <1>2 DEF Index
  <2>3. Index(key, count, k) \in hits
    BY <2>1, <2>2
  <2> QED
    BY <2>3 DEF NULL
<1> QED
  BY <1>1, <1>2

\* prefix_add returns a used cell, the next free one or the null pointer; it
\* writes a new item exactly when no used cell holds the key and one is free,
\* and then returns the cell it wrote (bunuelib.h, BUNUEL_FIXED_SET).
LEMMA AddCellFits ==
  ASSUME NEW key, NEW capacity \in Nat, NEW count \in 0..capacity, NEW k
  PROVE  LET cell == AddCell(key, count, capacity, k)
             new  == IsNew(key, count, capacity, k)
         IN  /\ cell \in -1..capacity-1
             /\ new <=> count < capacity /\ \A i \in 0..count-1 : key[i] # k
             /\ new => cell = count
             /\ ~new => cell < count
<1>1. count \in Nat
  OBVIOUS
<1>2. Index(key, count, k) \in -1..count-1
  BY <1>1, IndexFinds
<1>3. Index(key, count, k) # NULL => key[Index(key, count, k)] = k
  BY <1>1, IndexFinds
<1>4. Index(key, count, k) = NULL => \A i \in 0..count-1 : key[i] # k
  BY <1>1, IndexFinds
<1> QED
  BY <1>2, <1>3, <1>4 DEF AddCell, IsNew, NULL

\* The first count-1 cells of `left' hold what the first `count' cells of
\* `array' but cell i hold, each of them once.
HoldsOthers(left, array, count, i) ==
  \E from \in [0..count-2 -> (0..count-1) \ {i}] :
    /\ \A a, b \in 0..count-2 : from[a] = from[b] => a = b
    /\ \A r \in (0..count-1) \ {i} : \E s \in 0..count-2 : from[s] = r
    /\ \A s \in 0..count-2 : left[s] = array[from[s]]

\* prefix_remove takes the item of cell i out and nothing else (bunuelib.h,
\* BUNUEL_FIXED_SET).
LEMMA RemovedKeepsOthers ==
  ASSUME NEW count \in Nat \ {0}, NEW array, 0..count-1 \subseteq DOMAIN array,
         NEW i \in 0..count-1
  PROVE  HoldsOthers(Removed(array, count, i), array, count, i)
<1> DEFINE from == [s \in 0..count-2 |-> IF s = i THEN count-1 ELSE s]
<1>1. count \in Nat /\ i \in Nat /\ i < count /\ 0..count-2 \subseteq 0..count-1
  OBVIOUS
<1>2. from \in [0..count-2 -> (0..count-1) \ {i}]
  BY <1>1
<1>3. \A a, b \in 0..count-2 : from[a] = from[b] => a = b
  BY <1>1
<1>4. \A r \in (0..count-1) \ {i} : \E s \in 0..count-2 : from[s] = r
  <2> TAKE r \in (0..count-1) \ {i}
  <2>1. CASE r = count-1
    <3>1. i \in 0..count-2 /\ from[i] = r
      BY <1>1, <2>1
    <3> QED
      BY <3>1
  <2>2. CASE r # count-1
    <3>1. r \in 0..count-2 /\ from[r] = r
      BY <1>1, <2>2
    <3> QED
      BY <3>1
  <2> QED
    BY <2>1, <2>2
<1>5. \A s \in 0..count-2 : Removed(array, count, i)[s] = array[from[s]]
  BY <1>1 DEF Removed
<1> HIDE DEF from
<1> QED
  BY <1>2, <1>3, <1>4, <1>5 DEF HoldsOthers

-------------------------------------------------------------------------------
(* The array as a set *)

Members(key, count)  == {key[i] : i \in 0..count-1}
Distinct(key, count) == \A i, j \in 0..count-1 : key[i] = key[j] => i = j

\* With every key in it once, `count' is the number of members.
LEMMA MembersCounted ==
  ASSUME NEW key, NEW count \in Nat, Distinct(key, count)
  PROVE  Cardinality(Members(key, count)) = count
<1> DEFINE f == [i \in 0..count-1 |-> key[i]]
           S == Members(key, count)
<1>1. f \in Bijection(0..count-1, S)
  <2>1. f \in [0..count-1 -> S]
    BY DEF Members
  <2>2. \A i, j \in 0..count-1 : f[i] = f[j] => i = j
    BY DEF Distinct
  <2>3. \A x \in S : \E i \in 0..count-1 : f[i] = x
    BY DEF Members
  <2> HIDE DEF f, S
  <2> QED
    BY <2>1, <2>2, <2>3 DEF Bijection, Injection, IsInjective, Surjection
<1>2. IsFiniteSet(0..count-1) /\ Cardinality(0..count-1) = count
  BY FS_Interval
<1> QED
  BY <1>1, <1>2, FS_Bijection DEF ExistsBijection

\* prefix_add is adding to a set of bounded size: it takes in a key exactly when
\* it is not a member and there are fewer than `capacity' of them, and the
\* members are then the old ones and it, each of them once.
THEOREM AddIsSetAdd ==
  ASSUME NEW capacity \in Nat, NEW T, NEW key \in [0..capacity-1 -> T],
         NEW count \in 0..capacity, Distinct(key, count), NEW k
  PROVE  LET set   == Members(key, count)
             new   == IsNew(key, count, capacity, k)
             added == [key EXCEPT ![count] = k]
         IN  /\ new <=> k \notin set /\ Cardinality(set) < capacity
             /\ new => Members(added, count + 1) = set \cup {k} /\ Distinct(added, count + 1)
<1> DEFINE set   == Members(key, count)
           new   == IsNew(key, count, capacity, k)
           added == [key EXCEPT ![count] = k]
<1>1. new <=> k \notin set /\ count < capacity
  BY AddCellFits DEF Members
<1>2. Cardinality(set) = count
  BY MembersCounted
<1>3. ASSUME new PROVE Members(added, count + 1) = set \cup {k} /\ Distinct(added, count + 1)
  <2>1. added[count] = k /\ \A i \in 0..count-1 : added[i] = key[i]
    BY <1>1, <1>3
  <2>2. 0..(count+1)-1 = (0..count-1) \cup {count}
    OBVIOUS
  <2>3. \A i \in 0..count-1 : key[i] # k
    BY <1>1, <1>3 DEF Members
  <2> HIDE DEF added
  <2>4. Members(added, count + 1) = set \cup {k}
    BY <2>1, <2>2 DEF Members
  <2>5. Distinct(added, count + 1)
    BY <2>1, <2>2, <2>3 DEF Distinct
  <2> QED
    BY <2>4, <2>5
<1> QED
  BY <1>1, <1>2, <1>3

\* prefix_index finds exactly the members, and prefix_remove takes out the one
\* that was asked for, leaving the others in the array, each of them once.
THEOREM RemoveIsSetRemove ==
  ASSUME NEW capacity \in Nat, NEW T, NEW key \in [0..capacity-1 -> T],
         NEW count \in 0..capacity, Distinct(key, count), NEW k
  PROVE  LET set  == Members(key, count)
             n    == Index(key, count, k)
             left == Removed(key, count, n)
         IN  /\ n < 0 <=> k \notin set
             /\ k \in set => /\ n \in 0..count-1
                             /\ Members(left, count - 1) = set \ {k}
                             /\ Distinct(left, count - 1)
<1> DEFINE set  == Members(key, count)
           n    == Index(key, count, k)
           left == Removed(key, count, n)
<1>1. /\ n \in -1..count-1
      /\ n # NULL => key[n] = k
      /\ n = NULL => \A i \in 0..count-1 : key[i] # k
  BY IndexFinds
<1> HIDE DEF n
<1>2. n < 0 <=> k \notin set
  BY <1>1 DEF Members, NULL
<1>3. ASSUME k \in set
      PROVE  /\ n \in 0..count-1 /\ Members(left, count - 1) = set \ {k}
             /\ Distinct(left, count - 1)
  <2>1. n \in 0..count-1 /\ key[n] = k /\ count \in Nat \ {0}
    BY <1>1, <1>2, <1>3 DEF NULL
  <2>2. PICK from \in [0..count-2 -> (0..count-1) \ {n}] :
          /\ \A a, b \in 0..count-2 : from[a] = from[b] => a = b
          /\ \A r \in (0..count-1) \ {n} : \E s \in 0..count-2 : from[s] = r
          /\ \A s \in 0..count-2 : left[s] = key[from[s]]
    <3>1. 0..count-1 \subseteq DOMAIN key
      OBVIOUS
    <3>2. HoldsOthers(left, key, count, n)
      BY <2>1, <3>1, RemovedKeepsOthers
    <3> QED
      BY <3>2 DEF HoldsOthers
  <2> HIDE DEF left
  <2>3. (count-1)-1 = count-2
    BY <2>1
  <2>4. \A r \in 0..count-1 : key[r] = k => r = n
    BY <2>1 DEF Distinct
  <2>5. Members(left, count - 1) = set \ {k}
    <3>1. \A s \in 0..count-2 : left[s] \in set /\ left[s] # k
      BY <2>2, <2>4 DEF Members
    <3>2. \A r \in 0..count-1 : key[r] # k => \E s \in 0..count-2 : left[s] = key[r]
      <4> TAKE r \in 0..count-1
      <4> HAVE key[r] # k
      <4>1. r \in (0..count-1) \ {n}
        BY <2>1
      <4> QED
        BY <2>2, <4>1
    <3>3. Members(left, count - 1) = {left[s] : s \in 0..count-2}
      BY <2>3 DEF Members
    <3>4. set = {key[r] : r \in 0..count-1}
      BY DEF Members
    <3> HIDE DEF set
    <3>5. Members(left, count - 1) \subseteq set \ {k}
      BY <3>1, <3>3
    <3>6. set \ {k} \subseteq Members(left, count - 1)
      BY <3>2, <3>3, <3>4
    <3> QED
      BY <3>5, <3>6
  <2>6. Distinct(left, count - 1)
    <3> SUFFICES ASSUME NEW a \in 0..count-2, NEW b \in 0..count-2, left[a] = left[b]
                 PROVE  a = b
      BY <2>3 DEF Distinct
    <3>1. from[a] \in 0..count-1 /\ from[b] \in 0..count-1 /\ key[from[a]] = key[from[b]]
      BY <2>2
    <3> QED
      BY <2>2, <3>1 DEF Distinct
  <2> QED
    BY <2>1, <2>5, <2>6
<1> QED
  BY <1>2, <1>3 DEF n
===============================================================================
