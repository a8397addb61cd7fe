------------------------------ MODULE PoolProofs ------------------------------
(* Theorems about the pool, for every capacity, every size of blocks and every *)
(* width of an int.                                                            *)
EXTENDS Pool, FiniteSets, FiniteSetTheorems, TLAPS

USE PoolAssumption, JunkAssumption, SizesAssumption

\* FreeListExact for a given list, with the number of its blocks.
ExactList(n, s) ==
  /\ n + Cardinality(held) = length
  /\ IsFreeList(n, s)
  /\ \A i, j \in 1..n : s[i] = s[j] => i = j
  /\ \A c \in Cells : c \in 0..length-1 /\ c \notin held <=> \E i \in 1..n : s[i] = c

\* The arena is the one that was asked for, and without one nothing is held.
Made ==
  /\ pool = "made" => memory = ArenaSize(elem_size)
  /\ held # {} => pool = "made"

Inv ==
  /\ TypeOK
  /\ HeldBelowLength
  /\ Made
  /\ pool = "made" => \E n \in Nat : \E s \in [1..n -> Cells] : ExactList(n, s)

LEMMA HeldIsFinite ==
  ASSUME TypeOK PROVE IsFiniteSet(held) /\ Cardinality(held) \in Nat
<1>1. IsFiniteSet(Cells)
  BY FS_Interval DEF Cells
<1>2. IsFiniteSet(held)
  BY <1>1, FS_Subset DEF TypeOK
<1> QED
  BY <1>2, FS_CardinalityType

LEMMA InvInit == Init => Inv
<1> SUFFICES ASSUME Init PROVE Inv
  OBVIOUS
<1>1. TypeOK /\ HeldBelowLength
  BY DEF Init, TypeOK, HeldBelowLength, Pointers, Words
<1> QED
  BY <1>1 DEF Inv, Init, Made

\* A step that leaves the arena alone, when there is one.
LEMMA MadeKept ==
  ASSUME Made, pool = "made", UNCHANGED made
  PROVE  Made'
  BY DEF Made, made, ArenaSize, ToInt

\* A fresh block comes from the arena only when nothing is on the free list,
\* so every block below length is held then.
LEMMA TakeFresh ==
  ASSUME Inv, free_list = NULL, bunuel_take_pool
  PROVE  /\ Inv'
         /\ held # Cells => result' \in Cells \ held /\ held' = held \cup {result'}
         /\ held = Cells => result' = NULL /\ held' = held
<1>0. /\ pool = "made" /\ UNCHANGED made
      /\ \E n \in Nat : \E s \in [1..n -> Cells] : ExactList(n, s)
      /\ UNCHANGED <<pool, elem_size, memory>> /\ Made'
  BY MadeKept DEF Inv, Made, made, bunuel_take_pool, bunuel_give_pool, Write
<1>n. PICK n \in Nat : \E s \in [1..n -> Cells] : ExactList(n, s)
  BY <1>0
<1>1. PICK s \in [1..n -> Cells] : ExactList(n, s)
  BY <1>n
<1>2. n = 0
  <2> SUFFICES ASSUME n # 0 PROVE FALSE
    OBVIOUS
  <2>1. free_list = s[n] /\ s[n] \in Cells
    BY <1>1 DEF ExactList, IsFreeList
  <2> QED
    BY <2>1 DEF NULL, Cells
<1>3. held = 0..length-1
  <2>1. 0..length-1 \subseteq Cells /\ held \subseteq 0..length-1
    BY DEF Inv, TypeOK, HeldBelowLength, Cells
  <2>2. ASSUME NEW c \in 0..length-1 PROVE c \in held
    BY <1>1, <1>2, <2>1, <2>2 DEF ExactList
  <2> QED
    BY <2>1, <2>2
<1>4. length \in 0..Capacity
  BY DEF Inv, TypeOK
<1>5. free_list' = NULL /\ word' = word /\ bunuel_bump_arena
        /\ held' = held \cup ({result'} \ {NULL})
  BY DEF bunuel_take_pool
<1>6. CASE length >= Capacity
  <2>1. result' = NULL /\ length' = length /\ held' = held /\ held = Cells
    BY <1>3, <1>4, <1>5, <1>6 DEF bunuel_bump_arena, Cells
  <2>2. TypeOK' /\ HeldBelowLength'
    BY <1>0, <1>5, <2>1 DEF Inv, TypeOK, HeldBelowLength, Pointers
  <2>3. ExactList(n, s)'
    BY <1>1, <1>5, <2>1 DEF ExactList, IsFreeList
  <2> QED
    BY <1>0, <2>1, <2>2, <2>3 DEF Inv
<1>7. CASE length < Capacity
  <2>1. /\ result' = length /\ length' = length + 1 /\ length \in Cells
        /\ held' = 0..length /\ length \notin held
    BY <1>3, <1>4, <1>5, <1>7 DEF bunuel_bump_arena, Cells, NULL
  <2>2. TypeOK' /\ HeldBelowLength'
    BY <1>0, <1>4, <1>5, <1>7, <2>1 DEF Inv, TypeOK, HeldBelowLength, Pointers, Cells
  <2>3. held' = held \cup {result'}
    BY <1>3, <1>4, <2>1
  <2>4. Cardinality(held') = Cardinality(held) + 1 /\ Cardinality(held) \in Nat
    BY <2>1, <2>3, HeldIsFinite, FS_AddElement DEF Inv
  <2>5. ExactList(n, s)'
    BY <1>1, <1>2, <1>4, <1>5, <2>1, <2>4 DEF ExactList, IsFreeList
  <2> QED
    BY <1>0, <2>1, <2>2, <2>3, <2>5 DEF Inv
<1> QED
  BY <1>4, <1>6, <1>7

\* The head of the free list is a block nobody holds, and its first word is
\* the head of what is left.
LEMMA TakeFreed ==
  ASSUME Inv, free_list # NULL, bunuel_take_pool
  PROVE  Inv' /\ result' \in Cells \ held /\ held' = held \cup {result'}
<1>0. /\ pool = "made" /\ UNCHANGED made
      /\ \E n \in Nat : \E s \in [1..n -> Cells] : ExactList(n, s)
      /\ UNCHANGED <<pool, elem_size, memory>> /\ Made'
  BY MadeKept DEF Inv, Made, made, bunuel_take_pool, bunuel_give_pool, Write
<1>n. PICK n \in Nat : \E s \in [1..n -> Cells] : ExactList(n, s)
  BY <1>0
<1>1. PICK s \in [1..n -> Cells] : ExactList(n, s)
  BY <1>n
<1>2. n \in Nat \ {0} /\ free_list = s[n] /\ s[n] \in Cells
  BY <1>1 DEF ExactList, IsFreeList
<1>3. s[n] \in 0..length-1 /\ s[n] \notin held
  BY <1>1, <1>2 DEF ExactList
<1>4. /\ result' = s[n] /\ free_list' = word[s[n]] /\ length' = length /\ word' = word
      /\ held' = held \cup {s[n]}
  BY <1>2 DEF bunuel_take_pool, NULL, Cells
<1>5. word[s[n]] = IF n = 1 THEN NULL ELSE s[n-1]
  BY <1>1, <1>2 DEF ExactList, IsFreeList
<1> DEFINE r == [i \in 1..n-1 |-> s[i]]
<1>6. r \in [1..n-1 -> Cells] /\ n-1 \in Nat /\ \A i \in 1..n-1 : r[i] = s[i]
  BY <1>2
<1> HIDE DEF r
<1>7. IsFreeList(n-1, r)'
  BY <1>1, <1>2, <1>4, <1>5, <1>6 DEF ExactList, IsFreeList
<1>8. \A c \in Cells : c \in 0..length-1 /\ c \notin held' <=> \E i \in 1..n-1 : r[i] = c
  <2> TAKE c \in Cells
  <2>1. c \in 0..length-1 /\ c \notin held <=> \E i \in 1..n : s[i] = c
    BY <1>1 DEF ExactList
  <2>2. ASSUME NEW i \in 1..n-1 PROVE s[i] # s[n]
    BY <1>1, <1>2 DEF ExactList
  <2>3. (\E i \in 1..n : s[i] = c) /\ c # s[n] <=> \E i \in 1..n-1 : r[i] = c
    BY <1>2, <1>6, <2>2
  <2> QED
    BY <1>3, <1>4, <2>1, <2>3
<1>9. ExactList(n-1, r)'
  <2>1. Cardinality(held') = Cardinality(held) + 1 /\ Cardinality(held) \in Nat
    BY <1>3, <1>4, HeldIsFinite, FS_AddElement DEF Inv
  <2>2. (n-1) + Cardinality(held') = length'
    BY <1>1, <1>2, <1>4, <2>1 DEF ExactList
  <2> QED
    BY <1>1, <1>2, <1>4, <1>6, <1>7, <1>8, <2>2 DEF ExactList
<1>10. TypeOK' /\ HeldBelowLength'
  BY <1>0, <1>2, <1>3, <1>4, <1>5 DEF Inv, TypeOK, HeldBelowLength, Pointers, Words
<1> QED
  BY <1>0, <1>2, <1>3, <1>4, <1>6, <1>9, <1>10 DEF Inv

\* Giving a block back puts it in front of the free list.
LEMMA GiveExact ==
  ASSUME Inv, NEW elem \in Cells, bunuel_give_pool(elem)
  PROVE  Inv'
<1>0. /\ pool = "made" /\ UNCHANGED made
      /\ \E n \in Nat : \E s \in [1..n -> Cells] : ExactList(n, s)
      /\ UNCHANGED <<pool, elem_size, memory>> /\ Made'
  BY MadeKept DEF Inv, Made, made, bunuel_take_pool, bunuel_give_pool, Write
<1>n. PICK n \in Nat : \E s \in [1..n -> Cells] : ExactList(n, s)
  BY <1>0
<1>1. PICK s \in [1..n -> Cells] : ExactList(n, s)
  BY <1>n
<1>2. /\ elem \in held /\ word' = [word EXCEPT ![elem] = free_list] /\ free_list' = elem
      /\ held' = held \ {elem} /\ length' = length /\ result' = result
  BY DEF bunuel_give_pool
<1>3. free_list \in Pointers /\ word \in [Cells -> Words] /\ elem \in 0..length-1
  BY <1>2 DEF Inv, TypeOK, HeldBelowLength
<1>4. \A i \in 1..n : s[i] # elem
  BY <1>1, <1>2 DEF ExactList
<1> DEFINE r == [i \in 1..n+1 |-> IF i = n+1 THEN elem ELSE s[i]]
<1>5. /\ r \in [1..n+1 -> Cells] /\ n+1 \in Nat
      /\ r[n+1] = elem /\ \A i \in 1..n : r[i] = s[i]
  OBVIOUS
<1> HIDE DEF r
<1>6. IsFreeList(n+1, r)'
  <2>1. word'[elem] = IF n = 0 THEN NULL ELSE s[n]
    BY <1>1, <1>2, <1>3 DEF ExactList, IsFreeList
  <2>2. \A i \in 1..n : word'[s[i]] = word[s[i]]
    BY <1>2, <1>3, <1>4
  <2>3. \A i \in 1..n+1 : word'[r[i]] = IF i = 1 THEN NULL ELSE r[i-1]
    <3> TAKE i \in 1..n+1
    <3>1. CASE i = n+1
      BY <1>5, <2>1, <3>1
    <3>2. CASE i # n+1
      BY <1>1, <1>5, <2>2, <3>2 DEF ExactList, IsFreeList
    <3> QED
      BY <3>1, <3>2
  <2> QED
    BY <1>2, <1>5, <2>3 DEF IsFreeList
<1>7. \A i, j \in 1..n+1 : r[i] = r[j] => i = j
  BY <1>1, <1>4, <1>5 DEF ExactList
<1>8. \A c \in Cells : c \in 0..length-1 /\ c \notin held' <=> \E i \in 1..n+1 : r[i] = c
  <2> TAKE c \in Cells
  <2>1. c \in 0..length-1 /\ c \notin held <=> \E i \in 1..n : s[i] = c
    BY <1>1 DEF ExactList
  <2>2. (\E i \in 1..n : s[i] = c) \/ c = elem <=> \E i \in 1..n+1 : r[i] = c
    BY <1>5
  <2> QED
    BY <1>2, <1>3, <2>1, <2>2
<1>9. ExactList(n+1, r)'
  <2>1. Cardinality(held') = Cardinality(held) - 1 /\ Cardinality(held) \in Nat
    BY <1>2, HeldIsFinite, FS_RemoveElement DEF Inv
  <2>2. (n+1) + Cardinality(held') = length'
    BY <1>1, <1>2, <2>1 DEF ExactList
  <2> QED
    BY <1>2, <1>6, <1>7, <1>8, <2>2 DEF ExactList
<1>10. TypeOK' /\ HeldBelowLength'
  BY <1>0, <1>2, <1>3 DEF Inv, TypeOK, HeldBelowLength, Pointers, Words
<1> QED
  BY <1>0, <1>5, <1>9, <1>10 DEF Inv

\* Writing into a held block leaves the free list alone.
LEMMA WriteExact ==
  ASSUME Inv, NEW elem \in Cells, NEW w \in Words, Write(elem, w)
  PROVE  Inv'
<1>0. /\ pool = "made" /\ UNCHANGED made
      /\ \E n \in Nat : \E s \in [1..n -> Cells] : ExactList(n, s)
      /\ UNCHANGED <<pool, elem_size, memory>> /\ Made'
  BY MadeKept DEF Inv, Made, made, bunuel_take_pool, bunuel_give_pool, Write
<1>n. PICK n \in Nat : \E s \in [1..n -> Cells] : ExactList(n, s)
  BY <1>0
<1>1. PICK s \in [1..n -> Cells] : ExactList(n, s)
  BY <1>n
<1>2. /\ elem \in held /\ word' = [word EXCEPT ![elem] = w]
      /\ UNCHANGED <<length, free_list, held, result>>
  BY DEF Write
<1>3. \A i \in 1..n : s[i] # elem
  BY <1>1, <1>2 DEF ExactList
<1>4. \A i \in 1..n : word'[s[i]] = word[s[i]]
  BY <1>2, <1>3 DEF Inv, TypeOK
<1>5. ExactList(n, s)'
  BY <1>1, <1>2, <1>4 DEF ExactList, IsFreeList
<1>6. TypeOK' /\ HeldBelowLength'
  BY <1>0, <1>2 DEF Inv, TypeOK, HeldBelowLength
<1> QED
  BY <1>0, <1>5, <1>6 DEF Inv

LEMMA WipeExact ==
  ASSUME Inv, bunuel_wipe_pool
  PROVE  Inv'
<1>1. PICK s \in [1..0 -> Cells] : TRUE
  <2>1. [i \in 1..0 |-> 0] \in [1..0 -> Cells]
    OBVIOUS
  <2> QED
    BY <2>1
<1>2. ExactList(0, s)'
  BY FS_EmptySet DEF bunuel_wipe_pool, ExactList, IsFreeList
<1>3. TypeOK' /\ HeldBelowLength'
  BY DEF bunuel_wipe_pool, Inv, TypeOK, HeldBelowLength, Pointers, made
<1>4. Made'
  BY MadeKept DEF bunuel_wipe_pool, Inv
<1> QED
  BY <1>2, <1>3, <1>4 DEF Inv

\* Making a pool starts an empty list; without an arena there is none.
LEMMA MakeExact ==
  ASSUME Inv, NEW size \in ElemSizes, bunuel_make_pool(size)
  PROVE  Inv' /\ UNCHANGED Blocks!vars
<1>1. /\ pool = "none" /\ elem_size' = size /\ size \in Nat /\ length' = 0
      /\ free_list' = NULL /\ word' = [c \in Cells |-> Junk] /\ UNCHANGED <<held, result>>
      /\ \/ pool' = "empty" /\ memory' = 0
         \/ pool' = "made" /\ memory' = ArenaSize(size) /\ ArenaSize(size) >= 0
  BY SizesAssumption DEF bunuel_make_pool
<1>2. held = {} /\ held' = {}
  BY <1>1 DEF Inv, Made
<1>3. ArenaSize(size) \in Int
  <2>1. Capacity * size \in Nat
    BY <1>1
  <2>2. \A n \in Int : ToInt(n) \in Int
    BY DEF ToInt
  <2> QED
    BY <2>1, <2>2 DEF ArenaSize
<1>4. memory' \in Nat /\ pool' \in {"made", "empty"}
  BY <1>1, <1>3
<1>5. TypeOK' /\ HeldBelowLength'
  BY <1>1, <1>2, <1>4 DEF Inv, TypeOK, HeldBelowLength, Pointers, Words
<1>6. Made'
  BY <1>1, <1>2 DEF Made, ArenaSize, ToInt
<1>7. PICK s \in [1..0 -> Cells] : TRUE
  <2>1. [i \in 1..0 |-> 0] \in [1..0 -> Cells]
    OBVIOUS
  <2> QED
    BY <2>1
<1>8. ExactList(0, s)'
  BY <1>1, <1>2, FS_EmptySet DEF ExactList, IsFreeList
<1> QED
  BY <1>1, <1>5, <1>6, <1>8 DEF Inv, Blocks!vars

\* Without an arena clients hold nothing.
LEMMA EndExact ==
  ASSUME Inv, bunuel_drop_pool \/ UseNoArena \/ \E size \in ElemSizes : RefusePool(size)
  PROVE  Inv' /\ [Blocks!Next]_(Blocks!vars)
<1>1. /\ pool' \in {"none", "down"} /\ held' = {}
      /\ UNCHANGED <<elem_size, memory, length, free_list, word, result>>
      /\ held' = held \/ held' = {}
  BY DEF bunuel_drop_pool, UseNoArena, RefusePool, Inv, Made
<1>2. TypeOK' /\ HeldBelowLength' /\ Made'
  BY <1>1 DEF Inv, TypeOK, HeldBelowLength, Made
<1> QED
  BY <1>1, <1>2 DEF Inv, Blocks!Next, Blocks!Wipe

\* Every step keeps Inv and is a step of the abstract allocator or none.
LEMMA PoolStep ==
  ASSUME Inv, [Next]_vars
  PROVE  Inv' /\ [Blocks!Next]_(Blocks!vars)
<1>1. CASE UNCHANGED vars
  <2>1. UNCHANGED <<pool, elem_size, memory, length, free_list, word, held, result>>
    BY <1>1 DEF vars, made
  <2>2. TypeOK' /\ HeldBelowLength'
    BY <2>1 DEF Inv, TypeOK, HeldBelowLength
  <2>3. Made'
    BY <2>1 DEF Inv, Made, ArenaSize, ToInt
  <2>4. ASSUME NEW n, NEW s, ExactList(n, s) PROVE ExactList(n, s)'
    BY <2>1, <2>4 DEF ExactList, IsFreeList
  <2> QED
    BY <2>1, <2>2, <2>3, <2>4 DEF Inv, Blocks!vars
<1>2. CASE bunuel_take_pool
  <2>1. CASE free_list = NULL
    <3>1. /\ Inv'
          /\ held # Cells => result' \in Cells \ held /\ held' = held \cup {result'}
          /\ held = Cells => result' = NULL /\ held' = held
      BY <1>2, <2>1, TakeFresh
    <3> QED
      BY <3>1 DEF Blocks!Next, Blocks!Take
  <2>2. CASE free_list # NULL
    <3>1. Inv' /\ result' \in Cells \ held /\ held' = held \cup {result'}
      BY <1>2, <2>2, TakeFreed
    <3> QED
      BY <3>1 DEF Blocks!Next, Blocks!Take
  <2> QED
    BY <2>1, <2>2
<1>3. ASSUME NEW elem \in Cells, bunuel_give_pool(elem)
      PROVE  Inv' /\ Blocks!Give
  BY <1>3, GiveExact DEF bunuel_give_pool, Blocks!Give
<1>4. CASE bunuel_wipe_pool
  BY <1>4, WipeExact DEF bunuel_wipe_pool, Blocks!Next, Blocks!Wipe
<1>5. ASSUME NEW elem \in Cells, NEW w \in Words, Write(elem, w)
      PROVE  Inv' /\ UNCHANGED Blocks!vars
  BY <1>5, WriteExact DEF Write, Blocks!vars
<1> QED
  BY <1>1, <1>2, <1>3, <1>4, <1>5, MakeExact, EndExact DEF Next, Blocks!Next

LEMMA InvHolds == Spec => []Inv
<1>1. Inv /\ [Next]_vars => Inv'
  BY PoolStep
<1> QED
  BY <1>1, InvInit, PTL DEF Spec

\* The arena never hands out more blocks than it has, and the free list never
\* leaves the arena.
THEOREM Typing == Spec => []TypeOK
<1>1. Inv => TypeOK
  BY DEF Inv
<1> QED
  BY <1>1, InvHolds, PTL

\* The free list always is a chain through exactly the blocks given back.
THEOREM FreeListStaysExact == Spec => []FreeListExact
<1>1. ASSUME Inv PROVE FreeListExact
  <2> SUFFICES ASSUME pool = "made" PROVE FreeListExact
    BY DEF FreeListExact
  <2>1. PICK n \in Nat : \E s \in [1..n -> Cells] : ExactList(n, s)
    BY <1>1 DEF Inv
  <2>2. PICK s \in [1..n -> Cells] : ExactList(n, s)
    BY <2>1
  <2>3. n \in 0..Capacity
    <3>1. n + Cardinality(held) = length
      BY <2>2 DEF ExactList
    <3>2. length \in 0..Capacity /\ Cardinality(held) \in Nat
      BY <1>1, HeldIsFinite DEF Inv, TypeOK
    <3> QED
      BY <3>1, <3>2
  <2>4. {s[i] : i \in 1..n} = (0..length-1) \ held
    <3>1. 0..length-1 \subseteq Cells
      BY <1>1 DEF Inv, TypeOK, Cells
    <3> QED
      BY <2>2, <3>1 DEF ExactList
  <2> QED
    BY <2>2, <2>3, <2>4 DEF FreeListExact, ExactList
<1> QED
  BY <1>1, InvHolds, PTL

\* Every block a client holds lies in the memory of the arena, when the size of
\* the arena fits an int (bunuel_make_arena, bunuel_bump_arena).
THEOREM HeldBlocksFit == Spec => []BlocksFit
<1>1. ASSUME Inv PROVE BlocksFit
  <2> SUFFICES ASSUME held # {}, Capacity * elem_size + Header < IntLimit,
                      NEW elem \in held
               PROVE  Header + (elem + 1) * elem_size <= memory
    BY <1>1 DEF BlocksFit, Inv, Made
  <2>1. elem \in Nat /\ elem + 1 <= Capacity /\ elem_size \in Nat
    BY <1>1 DEF Inv, TypeOK, Cells
  <2>2. memory = Capacity * elem_size + Header
    <3>1. memory = ArenaSize(elem_size)
      BY <1>1 DEF Inv, Made
    <3>2. Capacity * elem_size \in Nat /\ Header \in Nat
      BY <2>1, SizesAssumption
    <3> QED
      BY <3>1, <3>2 DEF ArenaSize, ToInt
  <2>3. (elem + 1) * elem_size <= Capacity * elem_size
    BY <2>1
  <2>4. (elem + 1) * elem_size \in Nat /\ Capacity * elem_size \in Nat
    BY <2>1
  <2> QED
    BY <2>2, <2>3, <2>4, SizesAssumption
<1> QED
  BY <1>1, InvHolds, PTL

\* The pool never hands out a block that a client holds, hands out every block
\* that was given back, and refuses only when all blocks are held, for every
\* capacity and every order of takes, gives, wipes and writes.
THEOREM PoolIsAllocator == Spec => AllocatorSpec
<1>1. Init => Blocks!Init
  BY DEF Init, Blocks!Init
<1>2. Inv /\ [Next]_vars => [Blocks!Next]_(Blocks!vars)
  BY PoolStep
<1> QED
  BY <1>1, <1>2, InvHolds, PTL DEF Spec, AllocatorSpec, Blocks!Spec
===============================================================================
