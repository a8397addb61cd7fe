--------------------------- MODULE EventSystemProofs ---------------------------
(***************************************************************************)
(* Theorems about EventSystem, for every capacity of the table, every set  *)
(* of ids, callbacks and codes and every queue length.                     *)
(*                                                                         *)
(* Part 1 is about everything event.h offers (Spec), part 2 about what     *)
(* modules can reach (ApiSpec), part 3 about a table with room and ids     *)
(* that do not collide.                                                    *)
(***************************************************************************)
EXTENDS EventSystem, FixedSetProofs

USE EventSystemAssumption, CodecAssumption

-------------------------------------------------------------------------------
(* Part 1: types and distinct ids *)

\* What oxi_from_sdl_event reports is an ox_EventType.
LEMMA FromSdlType ==
  ASSUME NEW t PROVE oxi_from_sdl_event(t).type \in Topics
BY DEF oxi_from_sdl_event, InputType, Event, NoEvent, Topics,
  OX_EVENT_NONE, OX_EVENT_WINDOW_EXPOSED, OX_EVENT_KEY_DOWN, OX_EVENT_KEY_UP,
  OX_EVENT_COMMAND, OX_EVENT_QUIT, OX_EVENT_LAST,
  SDL_EVENT_QUIT, SDL_EVENT_WINDOW_EXPOSED, SDL_EVENT_KEY_DOWN, SDL_EVENT_KEY_UP

\* The types of the codec's variables.
CodecTypes ==
  /\ cmd_event_type_first \in {-1} \cup Nat
  /\ cmd_event_type_last \in {-1} \cup Nat
  /\ sdl_userevents \in Nat

\* oxi_to_sdl_event keeps them, and writes a type number SDL can hold.
LEMMA ToSdlTypes ==
  ASSUME CodecTypes, NEW e \in Outgoing, oxi_to_sdl_event(e)
  PROVE  CodecTypes' /\ ToSdl(e) \in Nat
<1>1. e.code \in Nat /\ e.type \in {OX_EVENT_QUIT, OX_EVENT_COMMAND}
  BY DEF Outgoing, Event, OX_CMD_NONE
<1>2. SDL_RegisterEvents(OX_CMD_SYSTEM_MAX) \in Nat
  BY DEF SDL_RegisterEvents, OX_CMD_SYSTEM_MAX, CodecTypes
<1>3. CodecTypes'
  BY <1>2 DEF CodecTypes, oxi_to_sdl_event, get_cmd_event_type, codecVars, OX_CMD_SYSTEM_MAX
<1>4. ToSdl(e) \in Nat
  BY <1>1, <1>2 DEF ToSdl, CommandNumber, SDL_EVENT_QUIT
<1> QED
  BY <1>3, <1>4

\* What oxi_subscribe_events does to the table, in one of two ways: a new item
\* in the next free cell becomes the head of its list, or the table stays and
\* the head becomes an older item or the null pointer.
LEMMA SubscribeEffect ==
  ASSUME TypeOK, NEW t \in Topics, NEW cb \in Callbacks, NEW id \in Nat,
         oxi_subscribe_events(t, cb, id)
  PROVE  \/ /\ count < SUB_MAX
            /\ \A i \in 0..count-1 : items[i].id # id
            /\ topics' = [topics EXCEPT ![t] = count]
            /\ items' = [items EXCEPT ![count] =
                 [id |-> id, callback |-> cb, next |-> topics[t], topic |-> t]]
            /\ count' = count + 1
         \/ /\ count = SUB_MAX \/ \E i \in 0..count-1 : items[i].id = id
            /\ \E cell \in -1..count-1 : topics' = [topics EXCEPT ![t] = cell]
            /\ UNCHANGED <<items, count>>
<1> DEFINE cell == AddCell(SubIds, count, SUB_MAX, id)
           isNew == IsNew(SubIds, count, SUB_MAX, id)
<1>1. count \in 0..SUB_MAX /\ SUB_MAX \in Nat
  BY DEF TypeOK
<1>2. \A i \in 0..count-1 : SubIds[i] = items[i].id
  BY <1>1 DEF SubIds, Slots
<1>3. /\ cell \in -1..SUB_MAX-1
      /\ isNew <=> count < SUB_MAX /\ \A i \in 0..count-1 : SubIds[i] # id
      /\ isNew => cell = count
      /\ ~isNew => cell < count
  BY <1>1, AddCellFits
<1>4. Avail(count, SUB_MAX) >= 0
  BY <1>1 DEF Avail
<1>5. /\ topics' = [topics EXCEPT ![t] = cell]
      /\ IF isNew
         THEN /\ items' = [items EXCEPT ![cell] =
                   [id |-> id, callback |-> cb, next |-> topics[t], topic |-> t]]
              /\ count' = count + 1
         ELSE UNCHANGED <<items, count>>
  BY <1>4 DEF oxi_subscribe_events
<1> HIDE DEF cell, isNew
<1>6. CASE isNew
  BY <1>1, <1>2, <1>3, <1>5, <1>6
<1>7. CASE ~isNew
  <2>1. cell \in -1..count-1
    BY <1>1, <1>3, <1>7
  <2>2. count = SUB_MAX \/ \E i \in 0..count-1 : items[i].id = id
    BY <1>1, <1>2, <1>3, <1>7
  <2> QED
    BY <1>5, <1>7, <2>1, <2>2
<1> QED
  BY <1>6, <1>7

\* pop_by_id only changes `next' of the cell before the one it finds.
LEMMA UnlinkedEffect ==
  ASSUME TypeOK, NEW prev \in Slots, NEW s \in Slots
  PROVE  /\ Unlinked(prev, s) \in [Slots -> Subscription]
         /\ \E p \in Pointers : Unlinked(prev, s) = [items EXCEPT ![prev].next = p]
<1> DEFINE cut == [items EXCEPT ![prev].next = NULL]
           after == cut[s].next
<1>1. items \in [Slots -> Subscription] /\ NULL \in Pointers
  BY DEF TypeOK, Pointers
<1>2. \A p \in Pointers : [items EXCEPT ![prev].next = p] \in [Slots -> Subscription]
  BY <1>1 DEF Subscription
<1>3. cut \in [Slots -> Subscription]
  BY <1>1, <1>2
<1>4. after \in Pointers
  BY <1>3 DEF Subscription
<1>5. CASE after = NULL
  BY <1>1, <1>3, <1>5 DEF Unlinked
<1>6. CASE after # NULL
  <2>1. after \in Slots
    BY <1>4, <1>6 DEF Pointers
  <2>2. cut[after].next \in Pointers
    BY <1>3, <2>1 DEF Subscription
  <2>3. Unlinked(prev, s) = [cut EXCEPT ![prev].next = cut[after].next]
    BY <1>6 DEF Unlinked
  <2>4. PICK p \in Pointers : Unlinked(prev, s) = [cut EXCEPT ![prev].next = p]
    BY <2>2, <2>3
  <2>5. Unlinked(prev, s) = [items EXCEPT ![prev].next = p]
    BY <1>1, <2>4 DEF Subscription
  <2> QED
    BY <1>2, <2>5
<1> QED
  BY <1>5, <1>6

\* ox_sub_remove takes one item out, or nothing if the id is not in use.
LEMMA RemoveEffect ==
  ASSUME TypeOK, NEW array \in [Slots -> Subscription], NEW id,
         ox_sub_remove(array, id)
  PROVE  \/ /\ \A i \in 0..count-1 : items[i].id # id
            /\ items' = array
            /\ count' = count
         \/ \E i \in 0..count-1 :
              /\ items[i].id = id
              /\ items' = Removed(array, count, i)
              /\ count' = count - 1
<1> DEFINE i == Index(SubIds, count, id)
<1>1. count \in Nat /\ \A j \in 0..count-1 : SubIds[j] = items[j].id
  BY DEF TypeOK, SubIds, Slots
<1>2. /\ i \in -1..count-1
      /\ i # NULL => SubIds[i] = id
      /\ i = NULL => \A j \in 0..count-1 : SubIds[j] # id
  BY <1>1, IndexFinds
<1>3. IF i < 0 THEN items' = array /\ UNCHANGED count
      ELSE items' = Removed(array, count, i) /\ count' = count - 1
  BY DEF ox_sub_remove
<1> HIDE DEF i
<1> QED
  BY <1>1, <1>2, <1>3 DEF NULL

\* Every action keeps every variable in its type.
LEMMA TypeStep ==
  ASSUME TypeOK, [Next]_vars PROVE TypeOK'
<1> USE DEF TypeOK
<1> SUFFICES ASSUME Next PROVE TypeOK'
  BY DEF vars, codecVars
<1>1. ASSUME NEW t \in SubTopics, NEW cb \in Callbacks, Subscribe(t, cb)
      PROVE  TypeOK'
  <2>1. PICK id \in Nat : oxi_subscribe_events(t, cb, id)
    BY <1>1 DEF Subscribe, Rand
  <2>2. t \in Topics
    BY DEF Topics
  <2>3. topics' \in [Topics -> Pointers] /\ items' \in [Slots -> Subscription]
          /\ count' \in 0..SUB_MAX
    <3>1. CASE /\ count < SUB_MAX
               /\ topics' = [topics EXCEPT ![t] = count]
               /\ items' = [items EXCEPT ![count] =
                    [id |-> id, callback |-> cb, next |-> topics[t], topic |-> t]]
               /\ count' = count + 1
      BY <2>2, <3>1 DEF Pointers, Slots, Subscription
    <3>2. CASE /\ \E cell \in -1..count-1 : topics' = [topics EXCEPT ![t] = cell]
               /\ UNCHANGED <<items, count>>
      BY <2>2, <3>2 DEF Pointers, Slots, NULL
    <3> QED
      BY <2>1, <2>2, <3>1, <3>2, SubscribeEffect
  <2> QED
    BY <1>1, <2>3 DEF Subscribe, codecVars
<1>2. ASSUME NEW e \in Outgoing, oxi_publish_event(e)
      PROVE  TypeOK'
  <2>1. CodecTypes' /\ ToSdl(e) \in Nat
    BY <1>2, ToSdlTypes DEF oxi_publish_event, CodecTypes
  <2>2. queue' \in Seq(Nat)
    BY <1>2, <2>1 DEF oxi_publish_event, Push
  <2> QED
    BY <1>2, <2>1, <2>2 DEF oxi_publish_event, CodecTypes
<1>3. ASSUME NEW t \in Inputs, Input(t)
      PROVE  TypeOK'
  BY <1>3 DEF Input, Push, codecVars
<1>4. ASSUME pc' \in Control, event' \in Topics, sub' \in Pointers,
             pc' = "callback" => sub' # NULL,
             queue' \in Seq(Nat), UNCHANGED <<table, codecVars>>
      PROVE  TypeOK'
  BY <1>4 DEF table, codecVars
<1>5. Leave => /\ pc' \in Control \ {"callback"}
               /\ event' \in Topics /\ sub' \in Pointers
  BY DEF Leave, Control, Topics, Pointers, OX_EVENT_NONE, OX_EVENT_LAST
<1>6. CASE WaitFails
  BY <1>4, <1>5, <1>6 DEF WaitFails
<1>7. CASE Call
  BY <1>4, <1>7 DEF Call, Control
<1>8. CASE Fetch
  <2>1. Tail(queue) \in Seq(Nat)
    BY <1>8 DEF Fetch
  <2>2. oxi_from_sdl_event(Head(queue)).type \in Topics
    BY FromSdlType
  <2> QED
    BY <1>4, <1>8, <2>1, <2>2 DEF Fetch, Control
<1>9. CASE Done
  BY <1>4, <1>5, <1>9 DEF Done
<1>10. CASE BreakOnNull
  BY <1>4, <1>5, <1>10 DEF BreakOnNull
<1>11. CASE Invoke
  BY <1>4, <1>11 DEF Invoke, Control
<1>12. CASE Return
  <2>1. sub \in Slots
    BY <1>12 DEF Return, Pointers
  <2>2. items[sub].next \in Pointers
    BY <2>1 DEF Subscription
  <2> QED
    BY <1>4, <1>12, <2>2 DEF Return, Control
<1>13. ASSUME NEW id \in Ids, oxi_unsubscribe(id)
       PROVE  TypeOK'
  <2>1. PICK t \in Topics :
          UnsubscribeHead(t, id) \/ UnsubscribeLater(t, id) \/ UnsubscribeLost(t, id)
    BY <1>13 DEF oxi_unsubscribe
  <2>2. CASE UnsubscribeHead(t, id) \/ UnsubscribeLost(t, id)
    BY <1>13, <2>2 DEF oxi_unsubscribe, UnsubscribeHead, UnsubscribeLost, table, codecVars, Control
  <2>3. CASE UnsubscribeLater(t, id)
    <3>1. PICK prev \in Slots, s \in Slots : ox_sub_remove(Unlinked(prev, s), id)
      BY <2>3 DEF UnsubscribeLater
    <3>2. Unlinked(prev, s) \in [Slots -> Subscription]
      BY UnlinkedEffect
    <3>3. items' \in [Slots -> Subscription] /\ count' \in 0..SUB_MAX
      <4>1. CASE items' = Unlinked(prev, s) /\ count' = count
        BY <3>2, <4>1
      <4>2. ASSUME NEW i \in 0..count-1, items' = Removed(Unlinked(prev, s), count, i),
                   count' = count - 1
            PROVE  items' \in [Slots -> Subscription] /\ count' \in 0..SUB_MAX
        <5>1. i \in Slots /\ count-1 \in Slots
          BY DEF Slots
        <5> QED
          BY <3>2, <4>2, <5>1 DEF Removed
      <4> QED
        BY <3>1, <3>2, <4>1, <4>2, RemoveEffect
    <3> QED
      BY <1>13, <2>3, <3>3 DEF oxi_unsubscribe, UnsubscribeLater, codecVars
  <2> QED
    BY <2>1, <2>2, <2>3
<1> QED
  BY <1>1, <1>2, <1>3, <1>6, <1>7, <1>8, <1>9, <1>10, <1>11, <1>12, <1>13
     DEF Next, ApiNext, Dispatch

\* The globals have their types after any number of commands, and the range of
\* commands starts above the input types or at 0.
LEMMA CommandsGone ==
  ASSUME NEW n \in Nat, CodecAfter(n)
  PROVE  /\ CodecTypes
         /\ cmd_event_type_first \in {-1, 0} \/ cmd_event_type_first >= SDL_EVENT_USER
BY DEF CodecAfter, CodecTypes, OX_CMD_SYSTEM_MAX

LEMMA TypeInit ==
  ASSUME Init PROVE TypeOK
<1>1. CodecTypes
  BY CommandsGone DEF Init
<1> QED
  BY <1>1 DEF Init, TypeOK, Pointers, Subscription, Zeroed, Control, CodecTypes, Topics,
    OX_EVENT_NONE, OX_EVENT_LAST

\* The table, the lists, the queue and the dispatch cursor keep their types:
\* `count' never exceeds the capacity of the array and no pointer leaves it,
\* whatever clients do with event.h and whatever rand() returns.
THEOREM Typing == Spec => []TypeOK
<1>1. Init => TypeOK
  BY TypeInit
<1>2. TypeOK /\ [Next]_vars => TypeOK'
  BY TypeStep
<1> QED
  BY <1>1, <1>2, PTL DEF Spec

\* oxi_unsubscribe leaves the items alone, changes one `next', or changes one
\* `next' and then takes an item out.
LEMMA UnsubscribeEffect ==
  ASSUME TypeOK, NEW id \in Ids, oxi_unsubscribe(id)
  PROVE  \/ UNCHANGED <<items, count>>
         \/ \E prev \in Slots, p \in Pointers :
              LET array == [items EXCEPT ![prev].next = p]
              IN  \/ items' = array /\ count' = count
                  \/ \E i \in 0..count-1 :
                       /\ items[i].id = id
                       /\ items' = Removed(array, count, i)
                       /\ count' = count - 1
<1>1. PICK t \in Topics :
        UnsubscribeHead(t, id) \/ UnsubscribeLater(t, id) \/ UnsubscribeLost(t, id)
  BY DEF oxi_unsubscribe
<1>2. CASE UnsubscribeHead(t, id) \/ UnsubscribeLost(t, id)
  BY <1>2 DEF UnsubscribeHead, UnsubscribeLost, table
<1>3. CASE UnsubscribeLater(t, id)
  <2>1. PICK prev \in Slots, s \in Slots : ox_sub_remove(Unlinked(prev, s), id)
    BY <1>3 DEF UnsubscribeLater
  <2>2. PICK p \in Pointers : Unlinked(prev, s) = [items EXCEPT ![prev].next = p]
    BY UnlinkedEffect
  <2>3. Unlinked(prev, s) \in [Slots -> Subscription]
    BY UnlinkedEffect
  <2>4. \/ items' = Unlinked(prev, s) /\ count' = count
        \/ \E i \in 0..count-1 :
             /\ items[i].id = id
             /\ items' = Removed(Unlinked(prev, s), count, i)
             /\ count' = count - 1
    BY <2>1, <2>3, RemoveEffect
  <2> QED
    BY <2>2, <2>4
<1> QED
  BY <1>1, <1>2, <1>3

\* A removal keeps the ids distinct and every other subscription.
LEMMA Leftover ==
  ASSUME TypeOK, UniqueIds,
         NEW prev \in Slots, NEW p \in Pointers, NEW i \in 0..count-1,
         items' = Removed([items EXCEPT ![prev].next = p], count, i),
         count' = count - 1
  PROVE  UniqueIds' /\ TakesOut(items[i].id)
<1> DEFINE array == [items EXCEPT ![prev].next = p]
           others == (0..count-1) \ {i}
<1>1. count \in 1..SUB_MAX /\ SUB_MAX \in Nat
  BY DEF TypeOK
<1>2. DOMAIN array = 0..SUB_MAX-1
  BY DEF TypeOK, Slots
<1>3. \A s \in others : SameSub(array[s], items[s])
  BY <1>1 DEF TypeOK, Subscription, Slots, SameSub
<1> HIDE DEF array
<1>4. PICK from \in [0..count-2 -> others] :
        /\ \A a, b \in 0..count-2 : from[a] = from[b] => a = b
        /\ \A r \in others : \E s \in 0..count-2 : from[s] = r
        /\ \A s \in 0..count-2 : Removed(array, count, i)[s] = array[from[s]]
  <2>1. count \in Nat \ {0} /\ 0..count-1 \subseteq DOMAIN array
    BY <1>1, <1>2
  <2>2. HoldsOthers(Removed(array, count, i), array, count, i)
    BY <2>1, RemovedKeepsOthers
  <2> QED
    BY <2>2 DEF HoldsOthers
<1>5. \A s \in 0..count-2 : items'[s] = array[from[s]]
  BY <1>4 DEF array
<1>6. \A s \in 0..count-2 : from[s] \in others /\ SameSub(items'[s], items[from[s]])
  BY <1>3, <1>4, <1>5
<1>7. 0..count'-1 = 0..count-2
  BY <1>1
<1>8. \A r \in others : items[r].id # items[i].id
  BY DEF UniqueIds
<1>9. UniqueIds'
  <2> SUFFICES ASSUME NEW a \in 0..count-2, NEW b \in 0..count-2,
                      items'[a].id = items'[b].id
               PROVE  a = b
    BY <1>7 DEF UniqueIds
  <2>1. items[from[a]].id = items[from[b]].id /\ from[a] \in 0..count-1 /\ from[b] \in 0..count-1
    BY <1>6 DEF SameSub
  <2>2. from[a] = from[b]
    BY <2>1 DEF UniqueIds
  <2> QED
    BY <1>4, <2>2
<1>10. LiveIds' = {items'[s].id : s \in 0..count-2}
  BY <1>7 DEF LiveIds
<1>11. LiveIds' \subseteq LiveIds \ {items[i].id}
  <2> SUFFICES ASSUME NEW s \in 0..count-2
               PROVE  items'[s].id \in LiveIds \ {items[i].id}
    BY <1>10
  <2>1. from[s] \in others /\ items'[s].id = items[from[s]].id
    BY <1>6 DEF SameSub
  <2>2. items[from[s]].id \in LiveIds
    BY <2>1 DEF LiveIds
  <2> QED
    BY <1>8, <2>1, <2>2
<1>12. \A r \in others : \E s \in 0..count-2 : SameSub(items'[s], items[r])
  BY <1>4, <1>6
<1>13. LiveIds \ {items[i].id} \subseteq LiveIds'
  <2> SUFFICES ASSUME NEW r \in 0..count-1, items[r].id # items[i].id
               PROVE  items[r].id \in LiveIds'
    BY DEF LiveIds
  <2>1. PICK s \in 0..count-2 : SameSub(items'[s], items[r])
    BY <1>12
  <2> QED
    BY <1>10, <2>1 DEF SameSub
<1>14. TakesOut(items[i].id)
  <2>1. ASSUME NEW r \in 0..count-1, items[r].id # items[i].id
        PROVE  \E j \in 0..count'-1 : SameSub(items'[j], items[r])
    BY <1>7, <1>12, <2>1
  <2> QED
    BY <1>11, <1>13, <2>1 DEF TakesOut
<1> QED
  BY <1>9, <1>14

\* Every step keeps the ids distinct.
LEMMA IdsStep ==
  ASSUME TypeOK, UniqueIds, [Next]_vars
  PROVE  UniqueIds'
<1>1. count \in Nat
  BY DEF TypeOK
<1>2. CASE UNCHANGED <<items, count>>
  BY <1>1, <1>2 DEF UniqueIds
<1>3. ASSUME NEW t \in SubTopics, NEW cb \in Callbacks, Subscribe(t, cb)
      PROVE  UniqueIds'
  <2>1. PICK id \in Nat : oxi_subscribe_events(t, cb, id)
    BY <1>3 DEF Subscribe, Rand
  <2>2. t \in Topics
    BY DEF Topics
  <2>3. CASE UNCHANGED <<items, count>>
    BY <1>1, <2>3 DEF UniqueIds
  <2>4. CASE /\ count < SUB_MAX
             /\ \A i \in 0..count-1 : items[i].id # id
             /\ items' = [items EXCEPT ![count] =
                  [id |-> id, callback |-> cb, next |-> topics[t], topic |-> t]]
             /\ count' = count + 1
    <3>1. count \in Slots /\ items \in [Slots -> Subscription]
      BY <1>1, <2>4 DEF Slots, TypeOK
    <3>2. /\ \A i \in 0..count-1 : items'[i] = items[i]
          /\ items'[count].id = id
      BY <1>1, <2>4, <3>1 DEF Slots
    <3>3. 0..count'-1 = (0..count-1) \cup {count}
      BY <1>1, <2>4
    <3>4. UniqueIds'
      BY <2>4, <3>2, <3>3 DEF UniqueIds
    <3> QED
      BY <1>1, <2>4, <3>4
  <2> QED
    BY <2>1, <2>2, <2>3, <2>4, SubscribeEffect
<1>4. ASSUME NEW id \in Ids, oxi_unsubscribe(id)
      PROVE  UniqueIds'
  <2>1. CASE UNCHANGED <<items, count>>
    BY <1>2, <2>1
  <2>2. ASSUME NEW prev \in Slots, NEW p \in Pointers,
               items' = [items EXCEPT ![prev].next = p], count' = count
        PROVE  UniqueIds'
    <3>1. \A s \in Slots : items'[s].id = items[s].id
      BY <2>2 DEF TypeOK, Subscription
    <3>2. \A s \in 0..count-1 : s \in Slots
      BY DEF Slots, TypeOK
    <3> QED
      BY <1>1, <2>2, <3>1, <3>2 DEF UniqueIds
  <2>3. ASSUME NEW prev \in Slots, NEW p \in Pointers, NEW i \in 0..count-1,
               items' = Removed([items EXCEPT ![prev].next = p], count, i),
               count' = count - 1
        PROVE  UniqueIds'
    BY <2>3, Leftover
  <2> QED
    BY <1>4, <2>1, <2>2, <2>3, UnsubscribeEffect
<1>5. CASE UNCHANGED vars
  BY <1>2, <1>5 DEF vars
<1>6. ASSUME NEW e \in Outgoing, oxi_publish_event(e) PROVE UNCHANGED <<items, count>>
  BY <1>6 DEF oxi_publish_event
<1>7. ASSUME NEW t \in Inputs, Input(t) PROVE UNCHANGED <<items, count>>
  BY <1>7 DEF Input
<1>8. CASE WaitFails \/ Dispatch
  BY <1>2, <1>8 DEF WaitFails, Dispatch, Call, Fetch, Done, BreakOnNull, Invoke, Return, table
<1>9. CASE Next
  BY <1>1, <1>2, <1>3, <1>4, <1>6, <1>7, <1>8, <1>9 DEF Next, ApiNext
<1> QED
  BY <1>5, <1>9

\* What a call that shrinks the table takes out is the id it was given.
LEMMA RemovalStep ==
  ASSUME TypeOK, UniqueIds, NEW id \in Ids, oxi_unsubscribe(id), count' < count
  PROVE  TakesOut(id)
<1>1. count \in Nat
  BY DEF TypeOK
<1>2. count' # count
  BY <1>1
<1>3. PICK prev \in Slots, p \in Pointers :
        \E i \in 0..count-1 :
          /\ items[i].id = id
          /\ items' = Removed([items EXCEPT ![prev].next = p], count, i)
          /\ count' = count - 1
  BY <1>2, UnsubscribeEffect
<1>4. PICK i \in 0..count-1 :
        /\ items[i].id = id
        /\ items' = Removed([items EXCEPT ![prev].next = p], count, i)
        /\ count' = count - 1
  BY <1>3
<1>5. TakesOut(items[i].id)
  BY <1>4, Leftover
<1> QED
  BY <1>4, <1>5

\* No two live subscriptions ever have the same id, for every sequence of
\* subscribe and unsubscribe calls and every value of rand(): ox_sub_add looks
\* the id up first, and ox_sub_remove does not duplicate the item it moves.
THEOREM IdsStayUnique == Spec => []UniqueIds
<1>1. Init => TypeOK /\ UniqueIds
  BY TypeInit DEF Init, UniqueIds
<1>2. TypeOK /\ UniqueIds /\ [Next]_vars => (TypeOK /\ UniqueIds)'
  BY TypeStep, IdsStep
<1> QED
  BY <1>1, <1>2, PTL DEF Spec

\* A call of oxi_unsubscribe that shrinks the table takes out the subscription
\* it names and keeps every other, whatever cell the last one moves to.
THEOREM RemovalIsExact == Spec => RemoveTakesOne
<1>1. TypeOK /\ UniqueIds =>
        [count' < count => \A id \in Ids : oxi_unsubscribe(id) => TakesOut(id)]_vars
  BY RemovalStep
<1> QED
  BY <1>1, Typing, IdsStayUnique, PTL DEF Spec, RemoveTakesOne

-------------------------------------------------------------------------------
(* Part 1, continued: input events on their way to a dispatch *)

\* The range of commands is not open yet, or lies above the input events, or
\* SDL has run out of numbers.
RangeAbove ==
  cmd_event_type_first \in {-1, 0} \/ cmd_event_type_first >= SDL_EVENT_USER

\* Then an input event is reported under its own type.
LEMMA InputsTranslate ==
  ASSUME CodecTypes, RangeAbove, cmd_event_type_first # 0, NEW t \in DOMAIN InputType
  PROVE  /\ oxi_from_sdl_event(t).type = InputType[t]
         /\ InputType[t] # OX_EVENT_NONE
<1>1. t \in Nat /\ t <= SDL_EVENT_KEY_UP /\ SDL_EVENT_KEY_UP \in Nat
  BY DEF InputType, SDL_EVENT_QUIT, SDL_EVENT_WINDOW_EXPOSED, SDL_EVENT_KEY_DOWN, SDL_EVENT_KEY_UP
<1>2. ~IsCommand(t)
  BY <1>1 DEF IsCommand, RangeAbove, CodecTypes
<1>3. oxi_from_sdl_event(t).type = InputType[t]
  BY <1>2 DEF oxi_from_sdl_event, Event
<1>4. InputType[t] # OX_EVENT_NONE
  BY DEF InputType, OX_EVENT_NONE, OX_EVENT_WINDOW_EXPOSED, OX_EVENT_KEY_DOWN, OX_EVENT_KEY_UP,
    OX_EVENT_QUIT, SDL_EVENT_QUIT, SDL_EVENT_WINDOW_EXPOSED, SDL_EVENT_KEY_DOWN, SDL_EVENT_KEY_UP
<1> QED
  BY <1>3, <1>4

\* What is in the queue stays where it is when something is pushed.
LEMMA PushKeepsOrder ==
  ASSUME TypeOK, NEW t, Push(t)
  PROVE  Len(queue') >= Len(queue) /\ \A n \in DOMAIN queue : queue'[n] = queue[n]
<1>1. queue \in Seq(Nat)
  BY DEF TypeOK
<1>2. CASE queue' = queue
  BY <1>1, <1>2
<1>3. CASE queue' = Append(queue, t)
  BY <1>1, <1>3
<1> QED
  BY <1>2, <1>3 DEF Push

LEMMA ArrivesStep == TypeOK /\ RangeAbove /\ [Next]_vars => Arrives /\ RangeAbove'
<1> SUFFICES ASSUME TypeOK, RangeAbove, [Next]_vars PROVE Arrives /\ RangeAbove'
  OBVIOUS
<1>1. queue \in Seq(Nat) /\ Len(queue) \in Nat /\ DOMAIN queue = 1..Len(queue) /\ CodecTypes
  BY DEF TypeOK, CodecTypes
<1>2. ASSUME NEW e \in Outgoing, oxi_publish_event(e) PROVE Arrives /\ RangeAbove'
  <2>1. Arrives
    BY <1>2, PushKeepsOrder DEF oxi_publish_event, Arrives
  <2>2. CASE UNCHANGED codecVars
    BY <2>1, <2>2 DEF codecVars, RangeAbove
  <2>3. CASE get_cmd_event_type
    BY <1>1, <2>1, <2>3 DEF get_cmd_event_type, SDL_RegisterEvents, RangeAbove, CodecTypes
  <2> QED
    BY <1>2, <2>2, <2>3 DEF oxi_publish_event, oxi_to_sdl_event
<1>3. ASSUME NEW t \in Inputs, Input(t) PROVE Arrives /\ RangeAbove'
  BY <1>3, PushKeepsOrder DEF Input, Arrives, codecVars, RangeAbove
<1>4. CASE Fetch
  <2>1. RangeAbove'
    BY <1>4 DEF Fetch, codecVars, RangeAbove
  <2> SUFFICES ASSUME NEW n \in DOMAIN queue, queue[n] \in DOMAIN InputType,
                      cmd_event_type_first # 0
               PROVE  \/ n # 1 /\ queue'[n - 1] = queue[n]
                      \/ n = 1 /\ pc' = "walk" /\ event' = InputType[queue[1]]
    BY <2>1 DEF Arrives
  <2>2. CASE n # 1
    <3>1. queue' = Tail(queue)
      BY <1>4 DEF Fetch
    <3>2. queue'[n - 1] = queue[n]
      BY <1>1, <2>2, <3>1
    <3> QED
      BY <2>2, <3>2
  <2>3. CASE n = 1
    <3>1. Head(queue) = queue[1]
      BY <1>1
    <3>2. /\ oxi_from_sdl_event(queue[1]).type = InputType[queue[1]]
          /\ InputType[queue[1]] # OX_EVENT_NONE
      BY <1>1, <2>3, InputsTranslate
    <3> QED
      BY <1>4, <2>3, <3>1, <3>2 DEF Fetch
  <2> QED
    BY <2>2, <2>3
<1>5. ASSUME UNCHANGED <<queue, codecVars>> PROVE Arrives /\ RangeAbove'
  BY <1>1, <1>5 DEF Arrives, codecVars, RangeAbove
<1>6. CASE \E id \in Ids : oxi_unsubscribe(id)
  BY <1>5, <1>6 DEF oxi_unsubscribe
<1>7. CASE \E t \in SubTopics, cb \in Callbacks : Subscribe(t, cb)
  BY <1>5, <1>7 DEF Subscribe
<1>8. CASE WaitFails \/ Call \/ Done \/ BreakOnNull \/ Invoke \/ Return
  BY <1>5, <1>8 DEF WaitFails, Call, Done, BreakOnNull, Invoke, Return
<1>9. CASE UNCHANGED vars
  BY <1>5, <1>9 DEF vars
<1> QED
  BY <1>2, <1>3, <1>4, <1>6, <1>7, <1>8, <1>9 DEF Next, ApiNext, Dispatch

\* Keys, window and quit events that SDL took are dispatched in their order and
\* under their own types, whatever is published, subscribed and unsubscribed in
\* the meantime, until SDL has no number left for a command (event.c:53, :137).
THEOREM InputsArriveInOrder == Spec => InputsArrive
<1>1. Init => RangeAbove
  BY CommandsGone DEF Init, RangeAbove
<1> QED
  BY <1>1, ArrivesStep, Typing, PTL DEF Spec, InputsArrive

-------------------------------------------------------------------------------
(* Part 2: what modules can reach, with collisions and a full table *)

\* What modules can do through ox_Api is part of what event.h offers.
LEMMA ApiWithinHeader == ApiSpec => Spec
<1>1. [ApiNext]_vars => [Next]_vars
  BY DEF Next
<1> QED
  BY <1>1, PTL DEF ApiSpec, Spec

\* Only oxi_subscribe_events changes the table.
LEMMA OnlySubscribe ==
  ASSUME [ApiNext]_vars
  PROVE  \/ UNCHANGED table
         \/ \E t \in SubTopics, cb \in Callbacks : Subscribe(t, cb)
<1>1. CASE UNCHANGED vars
  BY <1>1 DEF vars, table
<1>2. ASSUME NEW e \in Outgoing, oxi_publish_event(e) PROVE UNCHANGED table
  BY <1>2 DEF oxi_publish_event, table
<1>3. ASSUME NEW t \in Inputs, Input(t) PROVE UNCHANGED table
  BY <1>3 DEF Input, table
<1>4. CASE WaitFails \/ Dispatch
  BY <1>4 DEF WaitFails, Dispatch, Call, Fetch, Done, BreakOnNull, Invoke, Return
<1> QED
  BY <1>1, <1>2, <1>3, <1>4 DEF ApiNext

\* Every list goes down the table, in every state modules can reach: also
\* when rand() repeats an id and after the table is full.  So no list is
\* circular, and the loops over lists in event.c end.
THEOREM ListsGoDown == ApiSpec => []ListsDescend
<1>1. Init => ListsDescend
  BY DEF Init, ListsDescend, Zeroed, Slots, NULL
<1>2. ASSUME TypeOK, ListsDescend, [ApiNext]_vars PROVE ListsDescend'
  <2>1. CASE UNCHANGED table
    BY <1>2, <2>1 DEF ListsDescend, table
  <2>2. ASSUME NEW t \in SubTopics, NEW cb \in Callbacks, Subscribe(t, cb)
        PROVE  ListsDescend'
    <3>1. PICK id \in Nat : oxi_subscribe_events(t, cb, id)
      BY <2>2 DEF Subscribe, Rand
    <3>2. t \in Topics /\ count \in Nat /\ topics \in [Topics -> Pointers]
            /\ items \in [Slots -> Subscription] /\ \A u \in Topics : topics[u] < count
      BY <1>2 DEF Topics, TypeOK, ListsDescend
    <3>3. CASE /\ count < SUB_MAX
               /\ topics' = [topics EXCEPT ![t] = count]
               /\ items' = [items EXCEPT ![count] =
                    [id |-> id, callback |-> cb, next |-> topics[t], topic |-> t]]
               /\ count' = count + 1
      <4>1. \A u \in Topics : topics'[u] < count'
        BY <3>2, <3>3 DEF Pointers, Slots, NULL
      <4>2. \A s \in Slots : items'[s].next < s
        BY <1>2, <3>2, <3>3 DEF ListsDescend
      <4> QED
        BY <4>1, <4>2 DEF ListsDescend
    <3>4. CASE /\ \E cell \in -1..count-1 : topics' = [topics EXCEPT ![t] = cell]
               /\ UNCHANGED <<items, count>>
      BY <1>2, <3>2, <3>4 DEF ListsDescend
    <3> QED
      BY <1>2, <3>1, <3>2, <3>3, <3>4, SubscribeEffect
  <2> QED
    BY <1>2, <2>1, <2>2, OnlySubscribe
<1> QED
  BY <1>1, <1>2, ApiWithinHeader, Typing, PTL DEF ApiSpec

\* A dispatch goes down the table one callback at a time, whatever the callbacks
\* subscribe to: `sub = sub->next' reads a pointer below the cell it is in.
LEMMA DescendingStep ==
  ASSUME TypeOK, ListsDescend, [ApiNext]_vars
  PROVE  Descends
<1> SUFFICES ASSUME pc \in {"walk", "callback"}
             PROVE  pc' = "main" \/ sub' < sub \/ (sub' = sub /\ ~(pc = "callback" /\ pc' = "walk"))
  BY DEF Descends
<1>1. CASE UNCHANGED <<pc, sub>>
  BY <1>1
<1>2. CASE UNCHANGED vars
  BY <1>1, <1>2 DEF vars
<1>3. ASSUME NEW t \in SubTopics, NEW cb \in Callbacks, Subscribe(t, cb) PROVE UNCHANGED <<pc, sub>>
  BY <1>3 DEF Subscribe
<1>4. ASSUME NEW e \in Outgoing, oxi_publish_event(e) PROVE UNCHANGED <<pc, sub>>
  BY <1>4 DEF oxi_publish_event
<1>5. ASSUME NEW t \in Inputs, Input(t) PROVE UNCHANGED <<pc, sub>>
  BY <1>5 DEF Input
<1>6. CASE Done \/ BreakOnNull
  BY <1>6 DEF Done, BreakOnNull, Leave
<1>7. CASE Invoke
  BY <1>7 DEF Invoke
<1>8. CASE Return
  <2>1. sub \in Slots /\ sub' = items[sub].next
    BY <1>8 DEF Return, TypeOK, Pointers
  <2> QED
    BY <2>1 DEF ListsDescend
<1>9. ~WaitFails /\ ~Call /\ ~Fetch
  BY DEF WaitFails, Call, Fetch
<1> QED
  BY <1>1, <1>2, <1>3, <1>4, <1>5, <1>6, <1>7, <1>8, <1>9 DEF ApiNext, Dispatch

\* oxi_dispatch_next makes at most one callback per cell, in the order of
\* descending cells, with any number of subscriptions made meanwhile: what
\* makes every dispatch end.
THEOREM CursorGoesDown == ApiSpec => CursorDescends
<1>1. TypeOK /\ ListsDescend /\ [ApiNext]_vars => [Descends]_vars
  BY DescendingStep
<1> QED
  BY <1>1, ApiWithinHeader, Typing, ListsGoDown, PTL DEF ApiSpec, CursorDescends

-------------------------------------------------------------------------------
(* Part 3: a table with room, and ids that do not collide *)

\* What the theorems of this part assume: rand() does not return an id in
\* use, and the subscribers fit the table.
Roomy == ~RandCollides /\ MaxSubs <= SUB_MAX

\* Subscribing then always writes the next free cell and puts it first.
LEMMA SubscribeAppends ==
  ASSUME Roomy, TypeOK, NEW t \in SubTopics, NEW cb \in Callbacks, Subscribe(t, cb)
  PROVE  /\ count \in Slots
         /\ topics' = [topics EXCEPT ![t] = count]
         /\ \E id \in Nat : items' = [items EXCEPT ![count] =
              [id |-> id, callback |-> cb, next |-> topics[t], topic |-> t]]
         /\ count' = count + 1
<1>1. PICK id \in Rand : oxi_subscribe_events(t, cb, id)
  BY DEF Subscribe
<1>2. id \in Nat /\ t \in Topics /\ \A i \in 0..count-1 : items[i].id # id
  BY <1>1 DEF Rand, Roomy, LiveIds, Topics
<1>3. count \in Nat /\ count < SUB_MAX
  BY DEF Subscribe, Roomy, TypeOK
<1> QED
  BY <1>1, <1>2, <1>3, SubscribeEffect DEF Slots

\* Appending cell n to the table moves `Newest' on: the new cell is the newest
\* of its type, and for every other type nothing changes.
LEMMA NewestAppend ==
  ASSUME TypeOK, NEW n \in Slots, NEW t, NEW p, NEW item,
         items' = [items EXCEPT ![n] = item]
  PROVE  /\ item.topic = t => Newest(n, t, n + 1)'
         /\ item.topic # t /\ Newest(p, t, n) => Newest(p, t, n + 1)'
         /\ \A m \in 0..n : Newest(p, t, m) => Newest(p, t, m)'
<1>1. /\ n \in Nat /\ n \in DOMAIN items
      /\ \A i \in 0..n-1 : items'[i] = items[i]
      /\ items'[n] = item
  BY DEF TypeOK, Slots
<1>2. item.topic = t => Newest(n, t, n + 1)'
  BY <1>1 DEF Newest, NULL
<1>3. item.topic # t /\ Newest(p, t, n) => Newest(p, t, n + 1)'
  BY <1>1 DEF Newest, NULL
<1>4. \A m \in 0..n : Newest(p, t, m) => Newest(p, t, m)'
  BY <1>1 DEF Newest, NULL
<1> QED
  BY <1>2, <1>3, <1>4

\* Every list is exactly the subscriptions made for its type, newest first,
\* whatever callbacks do while a list is walked.
THEOREM ListsStayExact == ASSUME Roomy PROVE ApiSpec => []ListsExact
<1>1. Init => ListsExact
  BY DEF Init, ListsExact, Newest, NULL
<1>2. ASSUME TypeOK, ListsExact, [ApiNext]_vars PROVE ListsExact'
  <2>1. CASE UNCHANGED table
    BY <1>2, <2>1 DEF ListsExact, Newest, table
  <2>2. ASSUME NEW t \in SubTopics, NEW cb \in Callbacks, Subscribe(t, cb)
        PROVE  ListsExact'
    <3>1. PICK id \in Nat :
            /\ count \in Slots
            /\ topics' = [topics EXCEPT ![t] = count]
            /\ items' = [items EXCEPT ![count] =
                 [id |-> id, callback |-> cb, next |-> topics[t], topic |-> t]]
            /\ count' = count + 1
      BY <1>2, <2>2, SubscribeAppends
    <3>2. t \in Topics /\ count \in Nat /\ topics \in [Topics -> Pointers]
            /\ count \in DOMAIN items
      BY <1>2, <3>1 DEF Topics, TypeOK
    <3>3. PICK n \in Slots : n = count
      BY <3>1
    <3>4. \A i \in 0..n-1 : items'[i] = items[i]
      BY <3>1, <3>2, <3>3
    <3>5. items'[n].topic = t /\ items'[n].next = topics[t]
      BY <3>1, <3>2, <3>3
    <3>6. ASSUME NEW u \in Topics PROVE Newest(topics[u], u, count)'
      <4>1. PICK p : p = topics[u]
        OBVIOUS
      <4>2. Newest(p, u, n)
        BY <1>2, <3>3, <4>1 DEF ListsExact
      <4>3. PICK q : q = topics'[u]
        OBVIOUS
      <4>4. q = IF u = t THEN n ELSE p
        BY <3>1, <3>2, <3>3, <4>1, <4>3
      <4>5. Newest(q, u, n + 1)'
        <5> DEFINE item == [id |-> id, callback |-> cb, next |-> topics[t], topic |-> t]
        <5>1. items' = [items EXCEPT ![n] = item] /\ item.topic = t
          BY <3>1, <3>3
        <5> HIDE DEF item
        <5>2. CASE u = t
          BY <1>2, <4>4, <5>1, <5>2, NewestAppend
        <5>3. CASE u # t
          <6>1. q = p /\ item.topic # u
            BY <4>4, <5>1, <5>3
          <6> QED
            BY <1>2, <4>2, <5>1, <6>1, NewestAppend
        <5> QED
          BY <5>2, <5>3
      <4> QED
        BY <3>1, <3>3, <4>3, <4>5 DEF Newest
    <3>7. ASSUME NEW s \in 0..n PROVE Newest(items[s].next, items[s].topic, s)'
      <4>1. PICK p, u : p = items'[s].next /\ u = items'[s].topic
        OBVIOUS
      <4>2. Newest(p, u, s)
        BY <1>2, <3>2, <3>3, <3>4, <3>5, <4>1 DEF ListsExact
      <4>3. Newest(p, u, s)'
        BY <1>2, <3>1, <3>3, <4>2, NewestAppend
      <4> QED
        BY <4>1, <4>3 DEF Newest
    <3>8. 0..count'-1 = 0..n
      BY <3>1, <3>2, <3>3
    <3> QED
      BY <3>6, <3>7, <3>8 DEF ListsExact
  <2> QED
    BY <1>2, <2>1, <2>2, OnlySubscribe
<1> QED
  BY <1>1, <1>2, ApiWithinHeader, Typing, PTL DEF ApiSpec

-------------------------------------------------------------------------------
(* Part 4: walking a list *)

\* The least element of a set of numbers, the way to induct over the cells of
\* a list.
LEMMA LeastNumber ==
  ASSUME NEW S \in SUBSET Nat, S # {}
  PROVE  \E m \in S : \A n \in S : m <= n
<1>1. PICK m \in S : \A n \in S : ~(<<n, m>> \in OpToRel(<, Nat))
  BY NatLessThanWellFounded, WFMin
<1>2. \A n \in S : ~(n < m)
  BY <1>1 DEF OpToRel
<1> QED
  BY <1>2

\* The walk along a list exists: it begins at the head and follows `next'.
LEMMA ChainSteps ==
  ASSUME NEW t
  PROVE  /\ Chain(t)[0] = topics[t]
         /\ \A n \in 1..SUB_MAX : Chain(t)[n] =
              IF Chain(t)[n-1] = NULL THEN NULL ELSE items[Chain(t)[n-1]].next
<1> DEFINE next(p) == IF p = NULL THEN NULL ELSE items[p].next
           Is(c, n) == c = [m \in 0..n |-> IF m = 0 THEN topics[t] ELSE next(c[m-1])]
           Bad == {n \in Nat : ~ \E c : Is(c, n)}
<1> HIDE DEF Is
<1>1. Bad = {}
  <2>1. SUFFICES ASSUME Bad # {} PROVE FALSE
    OBVIOUS
  <2>2. PICK n \in Bad : \A m \in Bad : n <= m
    BY <2>1, LeastNumber
  <2>3. n # 0
    <3>1. Is([m \in 0..0 |-> topics[t]], 0)
      BY DEF Is
    <3> QED
      BY <2>2, <3>1
  <2>4. n-1 \in Nat /\ n-1 \notin Bad
    BY <2>2, <2>3
  <2>5. PICK c : Is(c, n-1)
    BY <2>4
  <2> DEFINE d == [m \in 0..n |-> IF m = n THEN next(c[n-1]) ELSE c[m]]
  <2>6. \A m \in 0..n-1 : d[m] = c[m] /\ c[m] = IF m = 0 THEN topics[t] ELSE next(c[m-1])
    BY <2>4, <2>5 DEF Is
  <2>7. d[n] = next(d[n-1])
    BY <2>3, <2>4, <2>6
  <2>8. \A m \in 0..n : d[m] = IF m = 0 THEN topics[t] ELSE next(d[m-1])
    <3>1. ASSUME NEW m \in 0..n PROVE d[m] = IF m = 0 THEN topics[t] ELSE next(d[m-1])
      <4>1. CASE m = n
        BY <2>3, <2>7, <4>1
      <4>2. CASE m # n
        <5>1. m \in 0..n-1 /\ (m # 0 => m-1 \in 0..n-1)
          BY <4>2, <2>2
        <5> HIDE DEF next, d
        <5> QED
          BY <5>1, <2>6
      <4> QED
        BY <4>1, <4>2
    <3> QED
      BY <3>1
  <2>9. Is(d, n)
    <3> HIDE DEF next
    <3>1. d = [m \in 0..n |-> d[m]]
      OBVIOUS
    <3> HIDE DEF d
    <3> QED
      BY <2>8, <3>1 DEF Is
  <2> QED
    BY <2>2, <2>9
<1>2. PICK c : Is(c, SUB_MAX)
  <2>1. \A n \in Nat : \E c : Is(c, n)
    BY <1>1
  <2> QED
    BY <2>1
<1>3. Is(Chain(t), SUB_MAX)
  BY <1>2 DEF Chain, Is
<1>4. PICK chain : chain = Chain(t)
  OBVIOUS
<1>5. \A n \in 0..SUB_MAX : chain[n] = IF n = 0 THEN topics[t] ELSE next(chain[n-1])
  <2> HIDE DEF next
  <2> QED
    BY <1>3, <1>4 DEF Is
<1>6. \A n \in 1..SUB_MAX : chain[n] = next(chain[n-1])
  <2> HIDE DEF next
  <2> QED
    BY <1>5
<1> QED
  BY <1>4, <1>5, <1>6

\* Newest lists lead to every subscription of their type: cell n is above the
\* subscription or it, and at least n below the top of the table.
LEMMA ListReaches ==
  ASSUME TypeOK, ListsExact, NEW s \in 0..count-1
  PROVE  \E n \in 0..SUB_MAX : Chain(items[s].topic)[n] = s
<1>1. PICK t \in Topics : t = items[s].topic
  <2>1. s \in Slots
    BY DEF TypeOK, Slots
  <2> QED
    BY <2>1 DEF TypeOK, Subscription
<1>2. PICK chain : chain = Chain(t)
  OBVIOUS
<1>3. /\ chain[0] = topics[t]
      /\ \A n \in 1..SUB_MAX : chain[n] =
           IF chain[n-1] = NULL THEN NULL ELSE items[chain[n-1]].next
  BY <1>2, ChainSteps
<1>4. SUFFICES ASSUME \A n \in 0..SUB_MAX : chain[n] # s PROVE FALSE
  BY <1>1, <1>2
<1> DEFINE Above(n) == /\ chain[n] \in s+1..count-1-n
                       /\ items[chain[n]].topic = t
           Bad == {n \in 0..SUB_MAX : ~Above(n)}
<1>5. count \in 0..SUB_MAX /\ SUB_MAX \in Nat
  BY DEF TypeOK
<1>6. Bad # {}
  <2>1. SUB_MAX \in 0..SUB_MAX
    BY <1>5
  <2>2. chain[SUB_MAX] \notin s+1..count-1-SUB_MAX
    <3>1. s+1..count-1-SUB_MAX = {}
      BY <1>5
    <3> QED
      BY <3>1
  <2>3. SUB_MAX \in Bad
    BY <2>1, <2>2
  <2> QED
    BY <2>3
<1>7. PICK n \in Bad : \A m \in Bad : n <= m
  <2>1. Bad \in SUBSET Nat
    BY <1>5
  <2> HIDE DEF Bad
  <2> QED
    BY <1>6, <2>1, LeastNumber
<1>8. n # 0
  <2>1. Newest(chain[0], t, count)
    BY <1>1, <1>3 DEF ListsExact
  <2>2. Above(0)
    BY <1>1, <1>4, <1>5, <2>1 DEF Newest, NULL
  <2> QED
    BY <1>7, <2>2
<1>9. n-1 \in 0..SUB_MAX /\ n \in 1..SUB_MAX /\ Above(n-1)
  BY <1>5, <1>7, <1>8
<1>10. PICK p \in s+1..count-n : p = chain[n-1]
  <2>1. count-1-(n-1) = count-n
    BY <1>5, <1>9
  <2> QED
    BY <1>9, <2>1
<1>11. Newest(items[p].next, t, p) /\ chain[n] = items[p].next
  BY <1>3, <1>5, <1>9, <1>10 DEF ListsExact, NULL
<1>12. Above(n)
  BY <1>1, <1>4, <1>5, <1>7, <1>10, <1>11 DEF Newest, NULL
<1> QED
  BY <1>7, <1>12

\* A subscription in the table is found on the list of its type: nothing that
\* callbacks subscribe cuts a list short.
THEOREM SubscribedStaysListed == ASSUME Roomy PROVE ApiSpec => []SubscribedIsListed
<1>1. TypeOK /\ ListsExact => SubscribedIsListed
  <2>1. SUFFICES ASSUME TypeOK, ListsExact, NEW s \in 0..count-1
                 PROVE  HoldsId(items[s].topic, items[s].id)
    BY DEF SubscribedIsListed
  <2>2. PICK n \in 0..SUB_MAX : Chain(items[s].topic)[n] = s
    BY <2>1, ListReaches
  <2>3. s # NULL
    BY DEF NULL
  <2> QED
    BY <2>2, <2>3 DEF HoldsId, HoldsAt
<1> QED
  BY <1>1, ApiWithinHeader, Typing, ListsStayExact, PTL
===============================================================================
