------------------------------- MODULE FixedSet -------------------------------
(***************************************************************************)
(* BUNUEL_FIXED_SET of bunuelib.h: a set kept in the first `count' cells   *)
(* of an array of `capacity' cells, cells numbered from 0.  prefix_eq      *)
(* compares a key of the items (a subscription's id, a key code), so the   *)
(* operators take the array of keys.                                       *)
(***************************************************************************)
EXTENDS Integers

\* no index; also the null pointer wherever a pointer into the array is kept
NULL == -1

\* a bug for the checks: the scan misses the last item
IndexMissesLast(key, count, k) ==
  LET hits == {i \in 0..count-2 : key[i] = k}
  IN  IF hits = {} THEN NULL ELSE CHOOSE i \in hits : \A j \in hits : i <= j

\* prefix_index: the first cell holding key k
Index(key, count, k) ==
  LET hits == {i \in 0..count-1 : key[i] = k}
  IN  IF hits = {} THEN NULL ELSE CHOOSE i \in hits : \A j \in hits : i <= j

\* a bug for the checks: one item too many is taken in
IsNewTooLate(key, count, capacity, k) == Index(key, count, k) < 0 /\ count <= capacity

\* prefix_add writes a new item, in cell `count'
IsNew(key, count, capacity, k) == Index(key, count, k) < 0 /\ count < capacity

\* prefix_add: the cell whose address it returns: the one already holding
\* key k, else the next free one, else none
AddCell(key, count, capacity, k) ==
  LET i == Index(key, count, k)
  IN  IF i >= 0 THEN i ELSE IF count >= capacity THEN NULL ELSE count

\* a bug for the checks: the last item is not moved
RemovedNoMove(items, count, i) == items

\* prefix_remove: the last item moves into cell i
Removed(items, count, i) == [items EXCEPT ![i] = items[count - 1]]

\* prefix_avail
Avail(count, capacity) == capacity - count
===============================================================================
