---------------------------- MODULE EventBusProofs ----------------------------
(***************************************************************************)
(* The event system of event.c implements the bus of EventBus: for every   *)
(* table size, number of callbacks and ids, queue length and set of        *)
(* events, when rand() does not return an id in use, the subscribers fit  *)
(* the table and nobody passes a NULL callback.                            *)
(***************************************************************************)
EXTENDS EventSystemProofs, SequenceTheorems

USE EventSystemAssumption, CodecAssumption

-------------------------------------------------------------------------------
(* The cursor of a dispatch *)

\* CursorOnTopic with what makes it inductive: where there is a cursor, and
\* that live subscriptions have a callback.
Cursor ==
  /\ CursorOnTopic
  /\ pc \in {"main", "wait", "walk", "callback"}
  /\ pc \in {"main", "wait"} => event = OX_EVENT_NONE /\ sub = NULL
  /\ pc \in {"walk", "callback"} => event # OX_EVENT_NONE
  /\ \A s \in 0..count-1 : items[s].callback \in Callbacks

\* a pointer below a bound is below a greater one
LEMMA PointerBelow ==
  ASSUME NEW m \in Nat, NEW n \in Nat, n >= m, NEW p \in -1..m-1
  PROVE  p \in -1..n-1
  OBVIOUS

\* A step of a client or of SDL leaves the cursor and the cells in use alone.
LEMMA CursorKept ==
  ASSUME TypeOK, Cursor, UNCHANGED <<pc, event, sub>>, count' >= count, count' \in Nat,
         \A s \in 0..count-1 : items'[s] = items[s],
         \A s \in count..count'-1 : items'[s].callback \in Callbacks
  PROVE  Cursor'
<1>1. count \in Nat /\ sub \in {-1} \cup Nat
  BY DEF TypeOK, Pointers, Slots, NULL
<1>2. CursorOnTopic'
  <2>1. ASSUME pc \in {"walk", "callback"}, sub # NULL
        PROVE  sub \in 0..count-1 /\ items'[sub] = items[sub]
    BY <1>1, <2>1 DEF Cursor, CursorOnTopic, NULL
  <2>2. ASSUME pc \in {"walk", "callback"} PROVE sub \in -1..count'-1
    <3>1. sub \in -1..count-1
      BY <2>2 DEF Cursor, CursorOnTopic
    <3>2. count' \in Nat /\ count' >= count
      OBVIOUS
    <3> QED
      BY <1>1, <3>1, <3>2, PointerBelow
  <2> QED
    BY <2>1, <2>2 DEF Cursor, CursorOnTopic
<1>3. \A s \in 0..count'-1 : items'[s].callback \in Callbacks
  <2> TAKE s \in 0..count'-1
  <2>1. CASE s < count
    BY <1>1, <2>1 DEF Cursor
  <2>2. CASE s >= count
    BY <1>1, <2>2
  <2> QED
    BY <1>1, <2>1, <2>2
<1> QED
  BY <1>2, <1>3 DEF Cursor

\* Every step keeps Cursor: a fetched event starts at the head of its own
\* list, and the next pointer of a cell on a list stays on it.
LEMMA CursorStep ==
  ASSUME Roomy, TypeOK, ListsExact, Cursor, [ApiNext]_vars
  PROVE  Cursor'
<1>1. count \in Nat
  BY DEF TypeOK
<1>2. CASE UNCHANGED <<pc, event, sub, items, count>>
  BY <1>1, <1>2, CursorKept
<1>3. ASSUME NEW t \in SubTopics, NEW cb \in Callbacks, Subscribe(t, cb)
      PROVE  Cursor'
  <2>1. PICK id \in Nat :
          /\ count \in Slots
          /\ items' = [items EXCEPT ![count] =
               [id |-> id, callback |-> cb, next |-> topics[t], topic |-> t]]
          /\ count' = count + 1
    BY <1>3, SubscribeAppends
  <2>2. count \in DOMAIN items
    BY <2>1 DEF TypeOK
  <2>3. \A s \in 0..count-1 : items'[s] = items[s]
    BY <1>1, <2>1
  <2>4. \A s \in count..count'-1 : items'[s].callback \in Callbacks
    BY <1>1, <2>1, <2>2
  <2> QED
    BY <1>1, <1>3, <2>1, <2>3, <2>4, CursorKept DEF Subscribe
<1>4. ASSUME NEW e \in Outgoing, oxi_publish_event(e) PROVE Cursor'
  BY <1>2, <1>4 DEF oxi_publish_event
<1>5. ASSUME NEW t \in Inputs, Input(t) PROVE Cursor'
  BY <1>2, <1>5 DEF Input
<1>6. ASSUME Leave, UNCHANGED table PROVE Cursor'
  BY <1>6 DEF Leave, Cursor, CursorOnTopic, table
<1>7. CASE WaitFails \/ Done \/ BreakOnNull
  BY <1>6, <1>7 DEF WaitFails, Done, BreakOnNull
<1>8. CASE Call
  BY <1>8 DEF Call, Cursor, CursorOnTopic, table
<1>9. CASE Fetch
  <2> DEFINE type == oxi_from_sdl_event(Head(queue)).type
  <2>1. type \in Topics
    BY FromSdlType
  <2> HIDE DEF type
  <2>2. CASE type = OX_EVENT_NONE
    BY <1>2, <1>9, <2>2 DEF Fetch, table, type
  <2>3. CASE type # OX_EVENT_NONE
    <3>1. /\ pc' = "walk" /\ event' = type /\ sub' = topics[type]
          /\ UNCHANGED <<items, count>>
      BY <1>9, <2>3 DEF Fetch, table, type
    <3>2. Newest(topics[type], type, count)
      BY <2>1 DEF ListsExact
    <3> QED
      BY <2>3, <3>1, <3>2 DEF Cursor, CursorOnTopic, Newest
  <2> QED
    BY <2>2, <2>3
<1>10. CASE Invoke
  BY <1>10 DEF Invoke, Cursor, CursorOnTopic, table
<1>11. CASE Return
  <2>1. sub \in 0..count-1 /\ items[sub].topic = event
    BY <1>1, <1>11 DEF Return, Cursor, CursorOnTopic, NULL
  <2>2. Newest(items[sub].next, event, sub)
    BY <2>1 DEF ListsExact
  <2>3. pc' = "walk" /\ sub' = items[sub].next /\ UNCHANGED <<items, count, event>>
    BY <1>11 DEF Return, table
  <2>4. sub' \in -1..count-1 /\ (sub' # NULL => items[sub'].topic = event)
    BY <1>1, <2>1, <2>2, <2>3 DEF Newest
  <2> QED
    BY <1>11, <2>3, <2>4 DEF Return, Cursor, CursorOnTopic
<1>12. CASE UNCHANGED vars
  BY <1>2, <1>12 DEF vars
<1> QED
  BY <1>3, <1>4, <1>5, <1>7, <1>8, <1>9, <1>10, <1>11, <1>12 DEF ApiNext, Dispatch

LEMMA CursorInvariant == ASSUME Roomy PROVE ApiSpec => []Cursor
<1>1. Init => Cursor
  BY DEF Init, Cursor, CursorOnTopic
<1>2. TypeOK /\ ListsExact /\ Cursor /\ [ApiNext]_vars => Cursor'
  BY CursorStep
<1> QED
  BY <1>1, <1>2, ApiWithinHeader, Typing, ListsStayExact, PTL DEF ApiSpec

\* The cursor of oxi_dispatch_next stays on the list of the event it
\* dispatches, however the callbacks it calls change that list.
THEOREM CursorStaysOnTopic == ASSUME Roomy PROVE ApiSpec => []CursorOnTopic
<1>1. Cursor => CursorOnTopic
  BY DEF Cursor
<1> QED
  BY <1>1, CursorInvariant, PTL

\* Under ox_Api a callback only ever gets an event of the type it subscribed
\* to, as handle_key of the command module asserts.
THEOREM DeliveryIsTyped == ASSUME Roomy PROVE ApiSpec => DeliveredToTopic
<1>1. ASSUME CursorOnTopic, pc = "walk", pc' = "callback", [ApiNext]_vars
      PROVE  items[sub].topic = event
  <2>1. Invoke
    BY <1>1 DEF ApiNext, Dispatch, Subscribe, oxi_publish_event, Input, WaitFails, Call,
      Fetch, Done, BreakOnNull, Return, Leave, vars
  <2> QED
    BY <1>1, <2>1 DEF Invoke, CursorOnTopic
<1>2. CursorOnTopic /\ [ApiNext]_vars
        => [pc = "walk" /\ pc' = "callback" => items[sub].topic = event]_vars
  BY <1>1
<1> QED
  BY <1>2, CursorStaysOnTopic, PTL DEF ApiSpec, DeliveredToTopic

-------------------------------------------------------------------------------
(* The refinement *)

\* A NULL callback ends a dispatch early, so the refinement excludes it.
WellUsed == Roomy /\ NullCallback \notin Callbacks

\* A step that keeps the table, the event and the cursor, and neither starts
\* nor ends a walk or a callback, is no step of the bus.
LEMMA BusStutters ==
  ASSUME UNCHANGED <<items, count, event, sub>>,
         UNCHANGED pc \/ {pc, pc'} \subseteq {"main", "wait"}
  PROVE  UNCHANGED Bus!vars
<1>1. /\ (pc \in {"walk", "callback"}) = (pc' \in {"walk", "callback"})
      /\ (pc = "walk") = (pc' = "walk") /\ (pc = "callback") = (pc' = "callback")
  OBVIOUS
<1>2. BusRegistered' = BusRegistered
  BY DEF BusRegistered
<1>3. BusTodo' = BusTodo
  BY <1>1 DEF BusTodo
<1>4. BusRunning' = BusRunning
  BY <1>1 DEF BusRunning
<1> QED
  BY <1>2, <1>3, <1>4 DEF Bus!vars

\* A function on 1..n is a sequence of length n.
LEMMA FunctionIsSeq ==
  ASSUME NEW S, NEW n \in Nat, NEW f \in [1..n -> S]
  PROVE  f \in Seq(S) /\ Len(f) = n
<1>1. f \in Seq(S)
  OBVIOUS
<1>2. Len(f) = n
  BY <1>1, LenProperties
<1> QED
  BY <1>1, <1>2

\* Appending to a sequence given as a function.
LEMMA AppendIsFunction ==
  ASSUME NEW S, NEW n \in Nat, NEW f \in [1..n -> S], NEW x \in S
  PROVE  Append(f, x) = [i \in 1..n+1 |-> IF i = n+1 THEN x ELSE f[i]]
<1>1. f \in Seq(S)
  BY FunctionIsSeq
<1>2. Len(f) = n
  BY FunctionIsSeq
<1>3. Append(f, x) \in [1..n+1 -> S]
  BY <1>1, <1>2, AppendProperties, LenProperties
<1>4. \A i \in 1..n+1 : Append(f, x)[i] = IF i = n+1 THEN x ELSE f[i]
  BY <1>1, <1>2, AppendProperties
<1> QED
  BY <1>3, <1>4

\* A subscription that is made goes to the end of the bus's.
LEMMA BusSubscribes ==
  ASSUME Roomy, TypeOK, ListsExact, Cursor,
         NEW t \in SubTopics, NEW cb \in Callbacks, Subscribe(t, cb)
  PROVE  Bus!Subscribe(t, cb)
<1>1. PICK id \in Nat :
        /\ count \in Slots
        /\ items' = [items EXCEPT ![count] =
             [id |-> id, callback |-> cb, next |-> topics[t], topic |-> t]]
        /\ count' = count + 1
  BY SubscribeAppends
<1>2. UNCHANGED <<pc, event, sub>>
  BY DEF Subscribe
<1>3. count \in Nat /\ count \in DOMAIN items
  BY <1>1 DEF TypeOK
<1>4. /\ \A s \in 0..count-1 : items'[s] = items[s]
      /\ items'[count].topic = t /\ items'[count].callback = cb
  BY <1>1, <1>3
<1>5. BusRegistered' = Append(BusRegistered, [topic |-> t, callback |-> cb])
  <2> DEFINE new == [topic |-> t, callback |-> cb]
             R == [topic : Topics, callback : Callbacks \cup {NullCallback}]
  <2>1. new \in R /\ BusRegistered \in [1..count -> R]
    BY <1>3 DEF TypeOK, Subscription, BusRegistered, Slots, Topics
  <2>2. BusRegistered' = [i \in 1..count+1 |-> IF i = count+1 THEN new ELSE BusRegistered[i]]
    BY <1>1, <1>3, <1>4 DEF BusRegistered
  <2> HIDE DEF new, R
  <2>3. BusRegistered' = Append(BusRegistered, new)
    BY <1>3, <2>1, <2>2, AppendIsFunction
  <2> QED
    BY <2>3 DEF new
<1>6. BusTodo' = BusTodo
  <2>1. \A i \in 1..count : items'[i-1] = items[i-1]
    BY <1>3, <1>4
  <2>2. pc \in {"walk", "callback"} => sub < count /\ sub \in Int
    BY <1>3 DEF Cursor, CursorOnTopic
  <2> QED
    BY <1>1, <1>2, <1>3, <2>1, <2>2 DEF BusTodo
<1>7. BusRunning' = BusRunning
  BY <1>2 DEF BusRunning
<1> QED
  BY <1>2, <1>5, <1>6, <1>7 DEF Bus!Subscribe

\* The number of subscriptions of the bus.
LEMMA BusLength == ASSUME TypeOK PROVE Len(BusRegistered) = count
<1> DEFINE R == [topic : Topics, callback : Callbacks \cup {NullCallback}]
<1>1. count \in Nat /\ BusRegistered \in [1..count -> R]
  BY DEF TypeOK, Subscription, BusRegistered, Slots, Topics
<1> HIDE DEF R
<1> QED
  BY <1>1, FunctionIsSeq

\* Fetching an event begins a dispatch to every subscription for its type, or,
\* if it cannot be translated, is no step of the bus.
LEMMA BusBegins ==
  ASSUME TypeOK, ListsExact, Cursor, Fetch
  PROVE  UNCHANGED Bus!vars \/ \E t \in Topics : Bus!Begin(t)
<1> DEFINE type == oxi_from_sdl_event(Head(queue)).type
<1>1. type \in Topics
  BY FromSdlType
<1>2. IF type = OX_EVENT_NONE
      THEN UNCHANGED <<pc, event, sub>>
      ELSE pc' = "walk" /\ event' = type /\ sub' = topics[type]
  BY DEF Fetch
<1>3. UNCHANGED <<items, count>> /\ pc = "wait"
  BY DEF Fetch, table
<1> HIDE DEF type
<1>4. CASE type = OX_EVENT_NONE
  BY <1>2, <1>3, <1>4, BusStutters
<1>5. CASE type # OX_EVENT_NONE
  <2>1. pc' = "walk" /\ event' = type /\ sub' = topics[type]
    BY <1>2, <1>5
  <2>2. event = OX_EVENT_NONE
    BY <1>3 DEF Cursor
  <2>3. count \in Nat /\ \A i \in 1..count : BusRegistered[i].topic = items[i-1].topic
    BY DEF TypeOK, BusRegistered
  <2>4. topics[type] \in -1..count-1
          /\ \A i \in 1..count : items[i-1].topic = type => i-1 <= topics[type]
    BY <1>1, <2>3 DEF ListsExact, Newest
  <2>5. BusTodo' = {i \in 1..count : items[i-1].topic = type}
    BY <1>3, <2>1, <2>4 DEF BusTodo
  <2>6. BusTodo' = {i \in 1..Len(BusRegistered) : BusRegistered[i].topic = type}
    BY <2>3, <2>5, BusLength
  <2>7. BusRegistered' = BusRegistered /\ BusRunning' = BusRunning
    BY <1>3, <2>1 DEF BusRegistered, BusRunning
  <2>8. Bus!Begin(type)
    BY <2>1, <2>2, <2>6, <2>7 DEF Bus!Begin
  <2> QED
    BY <1>1, <2>8
<1> QED
  BY <1>4, <1>5

\* Calling the callback under the cursor takes the newest subscription left.
LEMMA BusTakes ==
  ASSUME TypeOK, Cursor, Invoke
  PROVE  Bus!Take
<1>1. /\ pc = "walk" /\ pc' = "callback" /\ UNCHANGED <<items, count, event, sub>>
      /\ count \in Nat
  BY DEF Invoke, table, TypeOK
<1>2. sub \in 0..count-1 /\ items[sub].topic = event
  BY <1>1 DEF Invoke, Cursor, CursorOnTopic, NULL
<1>3. sub + 1 \in BusTodo /\ \A j \in BusTodo : j <= sub + 1
  BY <1>1, <1>2 DEF BusTodo
<1>4. BusTodo' = BusTodo \ {sub + 1}
  BY <1>1, <1>2 DEF BusTodo
<1>5. BusRegistered[sub + 1].callback # NullCallback
  BY <1>1, <1>2 DEF Invoke, BusRegistered
<1>6. BusRunning = 0 /\ BusRunning' = sub + 1
  BY <1>1 DEF BusRunning
<1>7. UNCHANGED <<BusRegistered, event>>
  BY <1>1 DEF BusRegistered
<1> QED
  BY <1>3, <1>4, <1>5, <1>6, <1>7 DEF Bus!Take

\* Going on to the next cell leaves out no subscription and repeats none.
LEMMA BusReturns ==
  ASSUME TypeOK, ListsExact, Cursor, Return
  PROVE  Bus!Return
<1>1. /\ pc = "callback" /\ pc' = "walk" /\ sub' = items[sub].next
      /\ UNCHANGED <<items, count, event>> /\ count \in Nat
  BY DEF Return, table, TypeOK
<1>2. sub \in 0..count-1 /\ items[sub].topic = event
  BY <1>1 DEF Cursor, CursorOnTopic, NULL
<1>3. /\ items[sub].next \in -1..sub-1
      /\ \A i \in 0..sub-1 : items[i].topic = event => i <= items[sub].next
  BY <1>2 DEF ListsExact, Newest
<1>4. BusTodo = {i \in 1..count : items[i-1].topic = event /\ i-1 < sub}
  BY <1>1, <1>2 DEF BusTodo
<1>5. BusTodo' = {i \in 1..count : items[i-1].topic = event /\ i-1 <= items[sub].next}
  BY <1>1 DEF BusTodo
<1>6. BusTodo' = BusTodo
  <2>1. ASSUME NEW i \in 1..count, items[i-1].topic = event
        PROVE  i-1 < sub <=> i-1 <= items[sub].next
    BY <1>1, <1>2, <1>3, <2>1
  <2> QED
    BY <1>4, <1>5, <2>1
<1>7. BusRunning # 0 /\ BusRunning' = 0
  BY <1>1, <1>2 DEF BusRunning
<1>8. UNCHANGED <<BusRegistered, event>>
  BY <1>1 DEF BusRegistered
<1> QED
  BY <1>6, <1>7, <1>8 DEF Bus!Return

\* The walk reaches the end of the list when nobody is left out.
LEMMA BusEnds ==
  ASSUME TypeOK, Cursor, Done
  PROVE  Bus!End
<1>1. /\ pc = "walk" /\ pc' = "main" /\ sub = NULL /\ event' = OX_EVENT_NONE
      /\ UNCHANGED <<items, count>> /\ count \in Nat
  BY DEF Done, Leave, table, TypeOK
<1>2. BusTodo = {} /\ BusTodo' = {}
  BY <1>1 DEF BusTodo, NULL
<1>3. BusRunning = 0 /\ BusRunning' = 0
  BY <1>1 DEF BusRunning
<1>4. event # OX_EVENT_NONE /\ BusRegistered' = BusRegistered
  BY <1>1 DEF Cursor, BusRegistered
<1> QED
  BY <1>1, <1>2, <1>3, <1>4 DEF Bus!End

\* Every step of the event system is a step of the bus or none.
LEMMA BusStep ==
  ASSUME WellUsed, TypeOK, ListsExact, Cursor, [ApiNext]_vars
  PROVE  [Bus!Next]_(Bus!vars)
<1>1. CASE UNCHANGED <<items, count, event, sub, pc>>
  BY <1>1, BusStutters
<1>2. ASSUME NEW t \in SubTopics, NEW cb \in Callbacks, Subscribe(t, cb)
      PROVE  Bus!Next
  BY <1>2, BusSubscribes DEF Bus!Next, Topics, WellUsed
<1>3. ASSUME NEW e \in Outgoing, oxi_publish_event(e) PROVE UNCHANGED Bus!vars
  BY <1>3, BusStutters DEF oxi_publish_event
<1>4. ASSUME NEW t \in Inputs, Input(t) PROVE UNCHANGED Bus!vars
  BY <1>4, BusStutters DEF Input
<1>5. CASE WaitFails \/ Call
  <2>1. UNCHANGED <<items, count, event, sub>> /\ {pc, pc'} \subseteq {"main", "wait"}
    BY <1>5 DEF WaitFails, Leave, Call, Cursor, table
  <2> QED
    BY <2>1, BusStutters
<1>6. CASE Fetch
  BY <1>6, BusBegins DEF Bus!Next
<1>7. CASE Done
  BY <1>7, BusEnds DEF Bus!Next
<1>8. CASE BreakOnNull
  <2>1. sub \in 0..count-1
    BY <1>8 DEF BreakOnNull, Cursor, CursorOnTopic, TypeOK, NULL
  <2> QED
    BY <1>8, <2>1 DEF BreakOnNull, Cursor, WellUsed
<1>9. CASE Invoke
  BY <1>9, BusTakes DEF Bus!Next
<1>10. CASE Return
  BY <1>10, BusReturns DEF Bus!Next
<1>11. CASE UNCHANGED vars
  BY <1>1, <1>11 DEF vars
<1> QED
  BY <1>2, <1>3, <1>4, <1>5, <1>6, <1>7, <1>8, <1>9, <1>10, <1>11 DEF ApiNext, Dispatch

\* The event system of event.c implements the bus its header promises: an
\* event is delivered exactly once to every subscription that was there for
\* its type when its dispatch began, newest first, one callback at a time,
\* whatever the callbacks subscribe and publish.
THEOREM ImplementsBus == ASSUME WellUsed PROVE ApiSpec => BusSpec
<1>1. Init => Bus!Init
  <2> SUFFICES ASSUME Init PROVE Bus!Init
    OBVIOUS
  <2>1. BusRegistered = << >>
    BY DEF Init, BusRegistered
  <2>2. BusTodo = {} /\ BusRunning = 0
    BY DEF Init, BusTodo, BusRunning
  <2> QED
    BY <2>1, <2>2 DEF Init, Bus!Init
<1>2. TypeOK /\ ListsExact /\ Cursor /\ [ApiNext]_vars => [Bus!Next]_(Bus!vars)
  BY BusStep
<1>3. Roomy
  BY DEF WellUsed
<1> QED
  BY <1>1, <1>2, <1>3, ApiWithinHeader, Typing, ListsStayExact, CursorInvariant, PTL
     DEF ApiSpec, BusSpec, Bus!Spec
===============================================================================
