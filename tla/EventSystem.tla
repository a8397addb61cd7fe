------------------------------ MODULE EventSystem ------------------------------
(***************************************************************************)
(* The event system of ox-kernel/event.c: a fixed table of subscriptions,  *)
(* threaded into one singly linked list per event type, and the dispatch   *)
(* loop that walks a list and calls the callbacks.                         *)
(*                                                                         *)
(* Everything runs on one thread.  What interleaves is the dispatch loop   *)
(* with the callbacks it makes (which subscribe, publish and unsubscribe   *)
(* while `sub' still points into the table) and with the input SDL queues. *)
(***************************************************************************)
EXTENDS EventCodec, FixedSet, Sequences

CONSTANTS
  SUB_MAX,      \* capacity of the subscription table (1024)
  Ids,          \* what rand() returns
  Callbacks,    \* (callback, user_data) pairs clients subscribe
  NullCallback, \* a NULL callback; clients may pass it if it is in Callbacks
  SubTopics,    \* event types clients subscribe to
  Inputs,       \* SDL types of the events the user and the window system cause
  RandCollides, \* may rand() return the id of a live subscription?
  CommandsBefore, \* commands published before the first state
  MaxSubs,      \* bound: no subscribe call once this many are live
  MaxRegistered, \* bound: no command published once SDL gave out this many numbers
  QueueMax      \* bound: capacity of SDL's event queue

ASSUME EventSystemAssumption ==
  /\ SUB_MAX \in Nat \ {0}
  /\ Ids \subseteq Nat
  /\ SubTopics \subseteq 0..OX_EVENT_LAST-1
  /\ Inputs \subseteq Nat
  /\ RandCollides \in BOOLEAN
  /\ CommandsBefore \in Nat /\ MaxSubs \in Nat /\ MaxRegistered \in Nat
  /\ QueueMax \in Nat \ {0}

Topics   == 0..OX_EVENT_LAST-1
Slots    == 0..SUB_MAX-1
Pointers == Slots \cup {NULL}

\* ox_Subscription.  `topic' is a ghost: the type it was subscribed to.
Subscription == [id : Nat, callback : Callbacks \cup {NullCallback},
                 next : Pointers, topic : Topics]
Zeroed == [id |-> 0, callback |-> NullCallback, next |-> NULL, topic |-> OX_EVENT_NONE]

VARIABLES
  topics,  \* ox_EventSystem.topics: head of each list
  items,   \* subscription_set.items
  count,   \* subscription_set.count
  queue,   \* SDL's event queue, as SDL types
  pc,      \* where the thread is, see Control
  event,   \* oxi_dispatch_next: type of the event being dispatched
  sub      \* oxi_dispatch_next: the list cursor

table == <<topics, items, count>>
vars  == <<topics, items, count, queue, pc, event, sub, codecVars>>

\* "main": outside oxi_dispatch_next; "wait": in SDL_WaitEvent; "walk": at the
\* head of the loop over the list; "callback": inside sub->callback; "segv":
\* died on a null pointer; "hang": in a list walk that never ends
Control == {"main", "wait", "walk", "callback", "segv", "hang"}

\* a fresh event system; of what went before only the commands left a trace
Init ==
  /\ topics = [t \in Topics |-> NULL]
  /\ items = [s \in Slots |-> Zeroed]
  /\ count = 0
  /\ queue = << >>
  /\ pc = "main"
  /\ event = OX_EVENT_NONE
  /\ sub = NULL
  /\ CodecAfter(CommandsBefore)

SubIds  == [s \in Slots |-> items[s].id]
LiveIds == {items[s].id : s \in 0..count-1}

\* code outside event.c runs: main, a module's init or start, or a callback
ClientRuns == pc \in {"main", "callback"}

-------------------------------------------------------------------------------
(***************************************************************************)
(* oxi_subscribe_events                                                    *)
(***************************************************************************)

\* the values rand() may return here
Rand == IF RandCollides THEN Ids ELSE Ids \ LiveIds

\* bugs for the checks: the new item does not point to the old head; an item
\* with the id of a live one replaces it
SubscribeUnlinked(type, cb, id) ==
  LET cell == AddCell(SubIds, count, SUB_MAX, id)
      new  == [id |-> id, callback |-> cb, next |-> NULL, topic |-> type]
  IN  /\ topics' = [topics EXCEPT ![type] = cell]
      /\ items' = [items EXCEPT ![cell] = new]
      /\ count' = count + 1
SubscribeReplaces(type, cb, id) ==
  LET cell == AddCell(SubIds, count, SUB_MAX, id)
      new  == [id |-> id, callback |-> cb, next |-> topics[type], topic |-> type]
  IN  /\ topics' = [topics EXCEPT ![type] = cell]
      /\ items' = [items EXCEPT ![cell] = new]
      /\ count' = IF IsNew(SubIds, count, SUB_MAX, id) THEN count + 1 ELSE count

\* The test `ox_sub_avail(..) >= 0' lets a full table through: ox_sub_add
\* then returns NULL, which becomes the head of the list.  With the id of a
\* live subscription ox_sub_add keeps the old item and returns its address.
oxi_subscribe_events(type, cb, id) ==
  LET cell == AddCell(SubIds, count, SUB_MAX, id)
      new  == [id |-> id, callback |-> cb, next |-> topics[type], topic |-> type]
  IN  IF Avail(count, SUB_MAX) >= 0
      THEN /\ topics' = [topics EXCEPT ![type] = cell]
           /\ IF IsNew(SubIds, count, SUB_MAX, id)
              THEN items' = [items EXCEPT ![cell] = new] /\ count' = count + 1
              ELSE UNCHANGED <<items, count>>
      ELSE UNCHANGED table

Subscribe(type, cb) ==
  /\ ClientRuns
  /\ count < MaxSubs
  /\ \E id \in Rand : oxi_subscribe_events(type, cb, id)
  /\ UNCHANGED <<queue, pc, event, sub, codecVars>>

-------------------------------------------------------------------------------
(***************************************************************************)
(* oxi_unsubscribe.  In the kernel's header, not in ox_Api.                *)
(***************************************************************************)

\* the list of type t, cell by cell; NULL for ever after its end, and not
\* NULL at SUB_MAX only if it runs in a circle
Chain(t) ==
  LET cell[n \in 0..SUB_MAX] ==
        IF n = 0 THEN topics[t]
        ELSE LET prev == cell[n-1] IN IF prev = NULL THEN NULL ELSE items[prev].next
  IN  cell

\* cell n of the list of type t holds `id'
HoldsAt(t, n, id) == Chain(t)[n] # NULL /\ items[Chain(t)[n]].id = id
HoldsId(t, id)    == \E n \in 0..SUB_MAX : HoldsAt(t, n, id)
Circular(t)       == Chain(t)[SUB_MAX] # NULL

\* the scan of oxi_unsubscribe over the topics gets as far as t
ScanReaches(t, id) == \A u \in 0..t-1 : ~HoldsId(u, id)

\* pop_by_id past its search: prev->next is cleared, then set to the cell
\* after the next one
Unlinked(prev, s) ==
  LET cut   == [items EXCEPT ![prev].next = NULL]
      after == cut[s].next
  IN  IF after = NULL THEN cut ELSE [cut EXCEPT ![prev].next = cut[after].next]

\* ox_sub_remove, on the array pop_by_id left
ox_sub_remove(array, id) ==
  LET i == Index(SubIds, count, id)
  IN  IF i < 0
      THEN items' = array /\ UNCHANGED count
      ELSE items' = Removed(array, count, i) /\ count' = count - 1

\* the subscription is the newest of its type: prev is NULL
UnsubscribeHead(t, id) ==
  /\ HoldsAt(t, 0, id)
  /\ pc' = "segv"
  /\ UNCHANGED table

UnsubscribeLater(t, id) ==
  /\ \E n \in 1..SUB_MAX, prev \in Slots, s \in Slots :
       /\ HoldsAt(t, n, id)
       /\ \A m \in 0..n-1 : ~HoldsAt(t, m, id)
       /\ prev = Chain(t)[n-1] /\ s = Chain(t)[n]
       /\ ox_sub_remove(Unlinked(prev, s), id)
  /\ UNCHANGED <<topics, pc>>

\* the list is circular and does not hold the id: pop_by_id never returns
UnsubscribeLost(t, id) ==
  /\ ~HoldsId(t, id) /\ Circular(t)
  /\ pc' = "hang"
  /\ UNCHANGED table

\* an id no list holds changes nothing
oxi_unsubscribe(id) ==
  /\ ClientRuns
  /\ \E t \in Topics :
       /\ HoldsId(t, id) \/ Circular(t)
       /\ ScanReaches(t, id)
       /\ UnsubscribeHead(t, id) \/ UnsubscribeLater(t, id) \/ UnsubscribeLost(t, id)
  /\ UNCHANGED <<queue, event, sub, codecVars>>

-------------------------------------------------------------------------------
(***************************************************************************)
(* SDL's queue: oxi_publish_event and the events of the outside            *)
(***************************************************************************)

\* SDL_PushEvent drops the event when the queue is full
Push(t) == queue' = IF Len(queue) < QueueMax THEN Append(queue, t) ELSE queue

\* an event oxi_to_sdl_event refuses is not published and changes nothing
oxi_publish_event(e) ==
  /\ ClientRuns
  /\ e.type = OX_EVENT_COMMAND => sdl_userevents < MaxRegistered
  /\ oxi_to_sdl_event(e)
  /\ Push(ToSdl(e))
  /\ UNCHANGED <<topics, items, count, pc, event, sub>>

Outgoing == {Event(OX_EVENT_QUIT, OX_CMD_NONE)} \cup {Event(OX_EVENT_COMMAND, c) : c \in Codes}

\* the user or the window system causes an event
Input(t) ==
  /\ pc \notin {"segv", "hang"}
  /\ Len(queue) < QueueMax
  /\ Push(t)
  /\ UNCHANGED <<topics, items, count, pc, event, sub, codecVars>>

-------------------------------------------------------------------------------
(***************************************************************************)
(* oxi_dispatch_next                                                       *)
(***************************************************************************)

\* the main loop of ox.c calls it
Call ==
  /\ pc = "main"
  /\ pc' = "wait"
  /\ UNCHANGED <<table, queue, event, sub, codecVars>>

\* it returns: its locals are gone
Leave ==
  /\ pc' = "main"
  /\ event' = OX_EVENT_NONE
  /\ sub' = NULL

\* SDL_WaitEvent fails; it looks at the queue before anything that can fail
WaitFails ==
  /\ pc = "wait"
  /\ queue = << >>
  /\ Leave
  /\ UNCHANGED <<table, queue, codecVars>>

\* a bug for the checks: an untranslatable event is only looked at
FetchPeeks ==
  /\ pc = "wait"
  /\ queue # << >>
  /\ LET type == oxi_from_sdl_event(Head(queue)).type
     IN  IF type = OX_EVENT_NONE
         THEN UNCHANGED <<queue, pc, event, sub>>
         ELSE queue' = Tail(queue) /\ pc' = "walk" /\ event' = type /\ sub' = topics[type]
  /\ UNCHANGED <<table, codecVars>>

\* SDL_WaitEvent takes an event; one that cannot be translated is forgotten
\* and the wait goes on
Fetch ==
  /\ pc = "wait"
  /\ queue # << >>
  /\ queue' = Tail(queue)
  /\ LET type == oxi_from_sdl_event(Head(queue)).type
     IN  IF type = OX_EVENT_NONE
         THEN UNCHANGED <<pc, event, sub>>
         ELSE pc' = "walk" /\ event' = type /\ sub' = topics[type]
  /\ UNCHANGED <<table, codecVars>>

\* the end of the list
Done ==
  /\ pc = "walk"
  /\ sub = NULL
  /\ Leave
  /\ UNCHANGED <<table, queue, codecVars>>

\* a NULL callback: the code says "Skipping" and breaks out of the loop
BreakOnNull ==
  /\ pc = "walk"
  /\ sub # NULL
  /\ items[sub].callback = NullCallback
  /\ Leave
  /\ UNCHANGED <<table, queue, codecVars>>

Invoke ==
  /\ pc = "walk"
  /\ sub # NULL
  /\ items[sub].callback # NullCallback
  /\ pc' = "callback"
  /\ UNCHANGED <<table, queue, event, sub, codecVars>>

\* bugs for the checks: the walk goes down the table, or does not go on
ReturnNextCell ==
  /\ pc = "callback"
  /\ pc' = "walk"
  /\ sub' = sub - 1
  /\ UNCHANGED <<table, queue, event, codecVars>>
ReturnStays ==
  /\ pc = "callback"
  /\ pc' = "walk"
  /\ UNCHANGED <<table, queue, event, sub, codecVars>>

\* the callback returns; `sub = sub->next' reads the table as it is now
Return ==
  /\ pc = "callback"
  /\ pc' = "walk"
  /\ sub' = items[sub].next
  /\ UNCHANGED <<table, queue, event, codecVars>>

-------------------------------------------------------------------------------
Dispatch == Call \/ Fetch \/ Done \/ BreakOnNull \/ Invoke \/ Return

\* what ox_Api lets modules do, which is all that happens in the shipped program
ApiNext ==
  \/ \E t \in SubTopics, cb \in Callbacks : Subscribe(t, cb)
  \/ \E e \in Outgoing : oxi_publish_event(e)
  \/ \E t \in Inputs : Input(t)
  \/ WaitFails
  \/ Dispatch

\* everything event.h offers
Next == ApiNext \/ \E id \in Ids : oxi_unsubscribe(id)

ApiSpec == Init /\ [][ApiNext]_vars
Spec    == Init /\ [][Next]_vars

\* The main loop calls oxi_dispatch_next for ever and callbacks return.
\* Nothing is assumed of the user, of SDL's failures or of subscribers.
FairApiSpec == ApiSpec /\ WF_vars(Dispatch)

-------------------------------------------------------------------------------
(***************************************************************************)
(* Properties                                                              *)
(***************************************************************************)

TypeOK ==
  /\ topics \in [Topics -> Pointers]
  /\ items \in [Slots -> Subscription]
  /\ count \in 0..SUB_MAX
  /\ queue \in Seq(Nat)
  /\ pc \in Control
  /\ event \in Topics
  /\ sub \in Pointers
  /\ pc = "callback" => sub # NULL
  /\ cmd_event_type_first \in {-1} \cup Nat
  /\ cmd_event_type_last \in {-1} \cup Nat
  /\ sdl_userevents \in Nat

\* No two live subscriptions have the same id, whatever rand() returns and
\* however subscribing and unsubscribing alternate: ox_sub_add looks an id up
\* before it takes a cell, and ox_sub_remove moves the last item without
\* duplicating it.
UniqueIds ==
  \A i, j \in 0..count-1 : items[i].id = items[j].id => i = j

\* Unsubscribing an id takes just that subscription out of the table and
\* leaves every other one in it, callback and type, though the last one changes
\* its cell.
SameSub(x, y) == x.id = y.id /\ x.callback = y.callback /\ x.topic = y.topic
TakesOut(id) ==
  /\ LiveIds' = LiveIds \ {id}
  /\ \A i \in 0..count-1 : items[i].id # id =>
       \E j \in 0..count'-1 : SameSub(items'[j], items[i])

RemoveTakesOne ==
  [][count' < count => \A id \in Ids : oxi_unsubscribe(id) => TakesOut(id)]_vars

\* p points to the newest of the first n subscriptions made for type t, or is
\* NULL if there is none
Newest(p, t, n) ==
  /\ p \in -1..n-1
  /\ p # NULL => items[p].topic = t
  /\ \A i \in 0..n-1 : items[i].topic = t => i <= p

\* With distinct ids and room in the table, every list is exactly the
\* subscriptions made for its type, newest first: nothing a callback does
\* while the list is walked loses, repeats or misfiles a subscription.
ListsExact ==
  /\ \A t \in Topics : Newest(topics[t], t, count)
  /\ \A s \in 0..count-1 : Newest(items[s].next, items[s].topic, s)

\* The cursor of a dispatch stays on the list of the event it dispatches.
CursorOnTopic ==
  /\ pc \in {"walk", "callback"} =>
       sub \in -1..count-1 /\ (sub # NULL => items[sub].topic = event)
  /\ pc = "callback" => sub # NULL /\ items[sub].callback # NullCallback

\* Every list goes down the table, so no list is circular and every walk ends:
\* true even when ids collide and when the table is full.
ListsDescend ==
  /\ \A t \in Topics : topics[t] < count
  /\ \A s \in Slots : items[s].next < s

\* Each callback that returns leaves the cursor lower in the table than it was,
\* and nothing takes it up again before the dispatch is over: not a callback that
\* subscribes to the type it is called for, not a repeated id, not a full table.
\* So a dispatch makes no more callbacks than the table has cells.
Descends ==
  pc \in {"walk", "callback"} =>
    \/ pc' = "main"
    \/ sub' < sub
    \/ sub' = sub /\ ~(pc = "callback" /\ pc' = "walk")

CursorDescends == [][Descends]_vars

\* An input event in SDL's queue keeps its place or moves up by one, and at the
\* front is taken by a dispatch of its own type: no command published in the
\* meantime makes it a command, and no subscriber sees a later event before it.
\* Only when SDL has run out of numbers is it taken for something else.
Arrives ==
  \A n \in DOMAIN queue : queue[n] \in DOMAIN InputType =>
    \/ Len(queue') >= Len(queue) /\ queue'[n] = queue[n]
    \/ n # 1 /\ queue'[n - 1] = queue[n]
    \/ n = 1 /\ pc' = "walk" /\ event' = InputType[queue[1]]
    \/ cmd_event_type_first = 0

InputsArrive == [][Arrives]_vars

\* "ox_subscribe_events registers a callback for events of the given type"
\* (event.h:38): a subscription in the table is found on the list of its type.
SubscribedIsListed ==
  pc # "segv" => \A s \in 0..count-1 : HoldsId(items[s].topic, items[s].id)

\* A callback only ever gets an event of the type it subscribed to, as the
\* assertion at the top of command.c's handle_key takes for granted
\* (command.c:132).
DeliveredToTopic ==
  [][pc = "walk" /\ pc' = "callback" => items[sub].topic = event]_vars

\* An event that is being dispatched is done with at some point.
DispatchEnds == pc = "walk" ~> pc = "main"

\* A quit event in SDL's queue is dispatched at some point, as a quit event
\* behind whatever keys, commands and untranslatable events there are, unless
\* SDL runs out of numbers before its turn: then it is dispatched as a command,
\* and no subscriber of quit events hears of it.
QuitDispatched ==
  (\E i \in DOMAIN queue : queue[i] = SDL_EVENT_QUIT)
    ~> /\ pc = "walk"
       /\ event = IF cmd_event_type_first = 0 THEN OX_EVENT_COMMAND ELSE OX_EVENT_QUIT

\* "Found ox_Subscription with NULL callback. Skipping" (event.c:154): when the
\* list of a dispatch is left before its end, the subscriptions left out are the
\* ones without a callback.
NullSkipped ==
  [][pc = "walk" /\ pc' = "main" =>
       \A s \in 0..sub : items[s].topic = event => items[s].callback = NullCallback]_vars

\* The abstract state of the bus: cell i-1 is the i-th subscription made, and
\* a dispatch still has to reach the subscriptions for its event from the
\* cursor down, the cursor's own unless its callback runs.
BusRegistered ==
  [i \in 1..count |-> [topic |-> items[i-1].topic, callback |-> items[i-1].callback]]
BusTodo ==
  {i \in 1..count : /\ pc \in {"walk", "callback"}
                    /\ items[i-1].topic = event
                    /\ i-1 <= sub
                    /\ i-1 = sub => pc = "walk"}
BusRunning == IF pc = "callback" THEN sub + 1 ELSE 0

Bus == INSTANCE EventBus WITH
  NoCallback <- NullCallback,
  NoTopic    <- OX_EVENT_NONE,
  registered <- BusRegistered,
  current    <- event,
  todo       <- BusTodo,
  running    <- BusRunning

\* The event system implements the bus of EventBus.
BusSpec == Bus!Spec
===============================================================================
