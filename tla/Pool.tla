---------------------------------- MODULE Pool ----------------------------------
(***************************************************************************)
(* The pool allocator of bunuelib.c: blocks of an arena, handed out in     *)
(* order, and a free list threaded through the first word of the blocks    *)
(* that were given back.  Clients write into the blocks they hold, first   *)
(* word included.                                                          *)
(*                                                                         *)
(* A block is its number in the arena; it lies between two offsets of the  *)
(* memory that malloc was asked for.  Clients are legal: they give back    *)
(* and write only what they hold, hold nothing after a wipe, and drop a    *)
(* pool only when it is there.                                             *)
(***************************************************************************)
EXTENDS Integers

CONSTANTS
  Capacity,   \* blocks in the arena
  Junk,       \* a first word that is no pointer: client data, or fresh memory
  ElemSizes,  \* the sizes of blocks that pools are made for
  WordSize,   \* sizeof(void*)
  Header,     \* sizeof(Arena)
  IntLimit    \* INT_MAX + 1

ASSUME PoolAssumption == Capacity \in Nat \ {0}
ASSUME SizesAssumption ==
  /\ ElemSizes \subseteq Nat /\ WordSize \in Nat /\ Header \in Nat
  /\ IntLimit \in Nat \ {0}

NULL     == -1
Cells    == 0..Capacity-1
Pointers == Cells \cup {NULL}
Words    == Pointers \cup {Junk}

ASSUME JunkAssumption == Junk \notin Pointers

VARIABLES
  pool,       \* "none", "made", "empty" (its arena is NULL), or "down" (crashed)
  elem_size,  \* arena->elem_size
  memory,     \* bytes malloc gave for the arena
  length,     \* arena->length: blocks handed out by the arena itself
  free_list,  \* pool->free_list
  word,       \* the first word of every block
  held,       \* ghost: the blocks clients hold
  result      \* ghost: what bunuel_take_pool returned last

made == <<pool, elem_size, memory>>
vars == <<made, length, free_list, word, held, result>>

Init ==
  /\ pool = "none" /\ elem_size = 0 /\ memory = 0
  /\ length = 0
  /\ free_list = NULL
  /\ word = [c \in Cells |-> Junk]
  /\ held = {}
  /\ result = NULL

-------------------------------------------------------------------------------
(* Making and dropping *)

\* a size_t kept in an int
ToInt(n) == IF n < IntLimit THEN n ELSE ((n + IntLimit) % (2 * IntLimit)) - IntLimit

\* a bug for the checks: the header is forgotten
BlocksOnly(size) == ToInt(Capacity * size)

\* bunuel_make_arena: what malloc is asked for; a negative int is more than it has
ArenaSize(size) == ToInt(ToInt(Capacity * size) + Header)

\* With blocks too small for a pointer the assertion fails, or, compiled out,
\* there is no pool.
RefusePool(size) ==
  /\ pool = "none"
  /\ size < WordSize
  /\ pool' \in {"none", "down"}
  /\ UNCHANGED <<elem_size, memory, length, free_list, word, held, result>>

\* bunuel_make_pool with bunuel_make_arena: the arena's malloc may fail, and nobody
\* looks whether make_arena returned NULL; malloc does not clear the blocks.  (If
\* the pool's own malloc fails there is no pool, and nothing has changed.)
bunuel_make_pool(size) ==
  /\ pool = "none"
  /\ size >= WordSize
  /\ \/ pool' = "empty" /\ memory' = 0
     \/ pool' = "made" /\ memory' = ArenaSize(size) /\ ArenaSize(size) >= 0
  /\ elem_size' = size
  /\ length' = 0
  /\ free_list' = NULL
  /\ word' = [c \in Cells |-> Junk]
  /\ UNCHANGED <<held, result>>

\* with bunuel_drop_arena; free(NULL) does nothing
bunuel_drop_pool ==
  /\ pool \in {"made", "empty"}
  /\ pool' = "none"
  /\ held' = {}
  /\ UNCHANGED <<elem_size, memory, length, free_list, word, result>>

\* the arena of a pool that has none is used: take (its free list is empty) or wipe
UseNoArena ==
  /\ pool = "empty"
  /\ pool' = "down"
  /\ UNCHANGED <<elem_size, memory, length, free_list, word, held, result>>

-------------------------------------------------------------------------------
(* Taking and giving *)

\* a bug for the checks: one block too many
BumpPastEnd ==
  IF length > Capacity
  THEN result' = NULL /\ UNCHANGED length
  ELSE result' = length /\ length' = length + 1

\* bunuel_bump_arena
bunuel_bump_arena ==
  IF length >= Capacity
  THEN result' = NULL /\ UNCHANGED length
  ELSE result' = length /\ length' = length + 1

\* the head of the free list and, if there is none, a fresh block
bunuel_take_pool ==
  /\ pool = "made"
  /\ IF free_list = NULL
     THEN bunuel_bump_arena /\ UNCHANGED free_list
     ELSE /\ result' = free_list
          /\ free_list' = word[free_list]
          /\ UNCHANGED length
  /\ held' = held \cup ({result'} \ {NULL})
  /\ UNCHANGED <<made, word>>

\* a bug for the checks: the two assignments in the wrong order
GiveSwapped(elem) ==
  /\ elem \in held
  /\ free_list' = elem
  /\ word' = [word EXCEPT ![elem] = elem]
  /\ held' = held \ {elem}
  /\ UNCHANGED <<made, length, result>>

bunuel_give_pool(elem) ==
  /\ elem \in held
  /\ word' = [word EXCEPT ![elem] = free_list]
  /\ free_list' = elem
  /\ held' = held \ {elem}
  /\ UNCHANGED <<made, length, result>>

\* a bug for the checks: the free list survives the wipe
WipeArenaOnly ==
  /\ pool = "made"
  /\ length' = 0
  /\ held' = {}
  /\ UNCHANGED <<made, free_list, word, result>>

\* with bunuel_wipe_arena
bunuel_wipe_pool ==
  /\ pool = "made"
  /\ free_list' = NULL
  /\ length' = 0
  /\ held' = {}
  /\ UNCHANGED <<made, word, result>>

\* a client uses its block
Write(elem, w) ==
  /\ elem \in held
  /\ word' = [word EXCEPT ![elem] = w]
  /\ UNCHANGED <<made, length, free_list, held, result>>

Next ==
  \/ \E size \in ElemSizes : RefusePool(size) \/ bunuel_make_pool(size)
  \/ bunuel_drop_pool \/ UseNoArena
  \/ bunuel_take_pool
  \/ \E elem \in Cells : bunuel_give_pool(elem)
  \/ bunuel_wipe_pool
  \/ \E elem \in Cells, w \in Words : Write(elem, w)

Spec == Init /\ [][Next]_vars

-------------------------------------------------------------------------------
(***************************************************************************)
(* Properties                                                              *)
(***************************************************************************)

TypeOK ==
  /\ pool \in {"none", "made", "empty", "down"}
  /\ elem_size \in Nat /\ memory \in Nat
  /\ length \in 0..Capacity
  /\ free_list \in Pointers
  /\ word \in [Cells -> Words]
  /\ held \in SUBSET Cells
  /\ result \in Pointers

\* s[n], .., s[1] is the free list from its head to its end
IsFreeList(n, s) ==
  /\ free_list = IF n = 0 THEN NULL ELSE s[n]
  /\ \A i \in 1..n : word[s[i]] = IF i = 1 THEN NULL ELSE s[i-1]

\* The free list is a chain without a repetition through exactly the blocks
\* that were handed out once and given back, whatever clients write into the
\* blocks they hold and in whatever order they give them back.
FreeListExact ==
  pool = "made" => \E n \in 0..Capacity : \E s \in [1..n -> Cells] :
    /\ IsFreeList(n, s)
    /\ \A i, j \in 1..n : s[i] = s[j] => i = j
    /\ {s[i] : i \in 1..n} = (0..length-1) \ held

\* The blocks clients hold, their last byte included, lie in the memory malloc
\* gave for the arena, when its size fits an int; without an arena there are none.
BlocksFit ==
  held # {} =>
    /\ pool = "made"
    /\ Capacity * elem_size + Header < IntLimit =>
         \A elem \in held : Header + (elem + 1) * elem_size <= memory

\* Blocks clients hold are blocks the arena has handed out.
HeldBelowLength == held \subseteq 0..length-1

\* The pool is an allocator: it never hands out a block that is held, and
\* refuses only when all Capacity blocks are held, as the test expects of a
\* pool of three (bunuelib_test.c:64 and :74).
Blocks == INSTANCE Allocator WITH Blocks <- Cells, NoBlock <- NULL
AllocatorSpec == Blocks!Spec
===============================================================================
