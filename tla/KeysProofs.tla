------------------------------ MODULE KeysProofs ------------------------------
(***************************************************************************)
(* The keys that are held, for every number of keys, every size of the set *)
(* and of SDL's queue, and every number of commands SDL has numbers for.   *)
(***************************************************************************)
EXTENDS Keys, FixedSetProofs, SequenceTheorems

USE KeysAssumption DEF HeldKeys

KeysInv == TypeOK /\ HeldOnce /\ HeldAgrees

Events == KeyEvents \cup {Quit, Command}

-------------------------------------------------------------------------------
(* The set *)

LEMMA SetShape ==
  ASSUME TypeOK, HeldOnce
  PROVE  /\ items \in [0..POLYPHONY-1 -> Keys \cup {NoKey}]
         /\ POLYPHONY \in Nat /\ count \in 0..POLYPHONY
         /\ keys_down = Members(items, count) /\ Distinct(items, count)
  BY DEF TypeOK, HeldOnce, keys_down, Members, Distinct

\* A key that is taken in is new, and it is refused only when POLYPHONY others
\* are in the set.
LEMMA Adding ==
  ASSUME TypeOK, HeldOnce, NEW k \in HeldKeys, key_set_add(k)
  PROVE  /\ items' \in [0..POLYPHONY-1 -> Keys \cup {NoKey}] /\ count' \in 0..POLYPHONY
         /\ HeldOnce'
         /\ keys_down' = IF Cardinality(keys_down) < POLYPHONY THEN keys_down \cup {k}
                                                               ELSE keys_down
<1> DEFINE new == IsNew(items, count, POLYPHONY, k)
<1>1. /\ items \in [0..POLYPHONY-1 -> Keys \cup {NoKey}]
      /\ POLYPHONY \in Nat /\ count \in 0..POLYPHONY
      /\ keys_down = Members(items, count) /\ Distinct(items, count)
  BY SetShape
<1>2. /\ new <=> k \notin keys_down /\ Cardinality(keys_down) < POLYPHONY
      /\ new => LET added == [items EXCEPT ![count] = k]
                IN  /\ Members(added, count + 1) = keys_down \cup {k}
                    /\ Distinct(added, count + 1)
  <2>1. LET set   == Members(items, count)
            added == [items EXCEPT ![count] = k]
        IN  /\ new <=> k \notin set /\ Cardinality(set) < POLYPHONY
            /\ new => Members(added, count + 1) = set \cup {k} /\ Distinct(added, count + 1)
    BY <1>1, AddIsSetAdd
  <2> HIDE DEF new
  <2> QED
    BY <1>1, <2>1
<1>3. new => count < POLYPHONY
  BY <1>1, AddCellFits
<1>4. IF new THEN items' = [items EXCEPT ![count] = k] /\ count' = count + 1
             ELSE UNCHANGED <<items, count>>
  BY DEF key_set_add
<1> HIDE DEF new
<1>5. CASE ~new
  <2>1. UNCHANGED <<items, count>> /\ keys_down' = keys_down
    BY <1>4, <1>5 DEF keys_down
  <2>2. HeldOnce'
    BY <2>1 DEF HeldOnce
  <2>3. Cardinality(keys_down) < POLYPHONY => k \in keys_down
    BY <1>2, <1>5
  <2> QED
    BY <1>1, <2>1, <2>2, <2>3
<1>6. CASE new
  <2>1. items' \in [0..POLYPHONY-1 -> Keys \cup {NoKey}] /\ count' \in 0..POLYPHONY
    BY <1>1, <1>3, <1>4, <1>6
  <2>2. keys_down' = keys_down \cup {k}
    BY <1>2, <1>4, <1>6 DEF keys_down, Members
  <2>3. HeldOnce'
    BY <1>2, <1>4, <1>6, <2>2 DEF HeldOnce, Distinct
  <2> QED
    BY <1>2, <1>6, <2>1, <2>2, <2>3
<1> QED
  BY <1>5, <1>6

\* A key that is released is not in the set any more, and no other key goes.
LEMMA Removing ==
  ASSUME TypeOK, HeldOnce, NEW k \in Keys, key_set_remove(k)
  PROVE  /\ items' \in [0..POLYPHONY-1 -> Keys \cup {NoKey}] /\ count' \in 0..POLYPHONY
         /\ HeldOnce'
         /\ keys_down' = keys_down \ {k}
<1> DEFINE n == Index(items, count, k)
<1>1. /\ items \in [0..POLYPHONY-1 -> Keys \cup {NoKey}]
      /\ POLYPHONY \in Nat /\ count \in 0..POLYPHONY
      /\ keys_down = Members(items, count) /\ Distinct(items, count)
  BY SetShape
<1>2. /\ n < 0 <=> k \notin keys_down
      /\ k \in keys_down => /\ n \in 0..count-1
                            /\ Members(Removed(items, count, n), count - 1) = keys_down \ {k}
                            /\ Distinct(Removed(items, count, n), count - 1)
  BY <1>1, RemoveIsSetRemove
<1>3. IF n < 0 THEN UNCHANGED <<items, count>>
      ELSE /\ items' = [Removed(items, count, n) EXCEPT ![count-1] = NoKey]
           /\ count' = count - 1
  BY DEF key_set_remove
<1> HIDE DEF n
<1>4. CASE n < 0
  BY <1>1, <1>2, <1>3, <1>4 DEF HeldOnce, keys_down
<1>5. CASE ~(n < 0)
  <2>1. items' \in [0..POLYPHONY-1 -> Keys \cup {NoKey}] /\ count' \in 0..POLYPHONY
    BY <1>1, <1>2, <1>3, <1>5 DEF Removed
  <2>2. /\ count' = count - 1
        /\ \A m \in 0..count'-1 : items'[m] = Removed(items, count, n)[m]
    BY <1>1, <1>2, <1>3, <1>5 DEF Removed
  <2>3. keys_down' = Members(Removed(items, count, n), count - 1)
    BY <2>2 DEF keys_down, Members
  <2>4. keys_down' = keys_down \ {k}
    BY <1>2, <1>5, <2>3
  <2>5. HeldOnce'
    BY <1>1, <1>2, <1>5, <2>2, <2>4 DEF HeldOnce, Distinct
  <2> QED
    BY <2>1, <2>4, <2>5
<1> QED
  BY <1>4, <1>5

-------------------------------------------------------------------------------
(* The queue *)

LEMMA EventKeys ==
  /\ \A e \in KeyEvents : e.key \in Keys /\ e.type \in {"KEY_DOWN", "KEY_UP"}
  /\ Quit.key = NoKey /\ Command.key = NoKey /\ NoEvent.key = NoKey
  /\ Quit \notin KeyEvents /\ Command \notin KeyEvents /\ NoEvent \notin KeyEvents
  /\ Quit # Command
  BY DEF KeyEvents, Quit, Command, NoEvent

\* An event finds room, at the end of the queue, or the queue stays as it is.
LEMMA Pushing ==
  ASSUME TypeOK, NEW e \in Events, Push(e)
  PROVE  /\ queue' \in Seq(Events) /\ Len(queue') <= QueueMax
         /\ Full => queue' = queue
         /\ ~Full => /\ Len(queue') = Len(queue) + 1 /\ queue'[Len(queue) + 1] = e
                     /\ \A n \in DOMAIN queue : queue'[n] = queue[n]
                     /\ DOMAIN queue' = DOMAIN queue \cup {Len(queue) + 1}
         /\ DOMAIN queue = 1..Len(queue) /\ Len(queue) \in Nat
<1>1. queue \in Seq(Events) /\ Len(queue) <= QueueMax /\ Len(queue) \in Nat
  BY DEF TypeOK, Events
<1>2. CASE Full
  BY <1>1, <1>2 DEF Push, Full
<1>3. CASE ~Full
  <2>1. queue' = Append(queue, e) /\ Len(queue) < QueueMax
    BY <1>1, <1>3 DEF Push, Full
  <2> HIDE DEF Events
  <2> QED
    BY <1>1, <1>3, <2>1
<1> QED
  BY <1>2, <1>3

\* A command that is published counts down SDL's blocks of numbers, and garbage
\* is a command, a quit event or nothing.
LEMMA Publishing ==
  ASSUME TypeOK
  PROVE  /\ PushCommand => Push(Command) /\ blocks' \in -1..BLOCKS
         /\ PublishGarbage => /\ UNCHANGED queue \/ \E p \in {Quit, Command} : Push(p)
                              /\ blocks' \in -1..BLOCKS
<1>1. blocks \in -1..BLOCKS /\ BLOCKS \in Nat
  BY DEF TypeOK
<1>2. PushCommand => Push(Command) /\ blocks' \in -1..BLOCKS
  BY <1>1 DEF PushCommand
<1> QED
  BY <1>1, <1>2 DEF PublishGarbage

\* An event without a key, at the end of the queue, says nothing of any key.
LEMMA PushingOther ==
  ASSUME TypeOK, HeldAgrees, NEW e \in {Quit, Command}, Push(e), Running,
         UNCHANGED <<held, event, items, count, lost>>
  PROVE  HeldAgrees'
<1>1. e \in Events /\ e.key = NoKey
  BY EventKeys DEF Events
<1>2. CASE Full
  BY <1>1, <1>2, Pushing DEF HeldAgrees, LastFor, keys_down, Running
<1>3. CASE ~Full
  <2>1. /\ DOMAIN queue' = DOMAIN queue \cup {Len(queue) + 1}
        /\ \A n \in DOMAIN queue : queue'[n] = queue[n]
        /\ queue'[Len(queue) + 1].key = NoKey
    BY <1>1, <1>3, Pushing
  <2>2. \A k \in Keys : k # NoKey
    OBVIOUS
  <2>3. \A k \in Keys, n \in DOMAIN queue' : LastFor(n, k)' => n \in DOMAIN queue /\ LastFor(n, k)
    BY <2>1, <2>2 DEF LastFor
  <2>4. \A k \in Keys : (\A n \in DOMAIN queue' : queue'[n].key # k)
                          <=> (\A n \in DOMAIN queue : queue[n].key # k)
    BY <2>1, <2>2
  <2> QED
    BY <2>1, <2>3, <2>4 DEF HeldAgrees, keys_down, Running
<1> QED
  BY <1>2, <1>3

\* A key changes, or is reported again: if the report goes through it is the
\* last one of its key, and if it does not the key is lost.
LEMMA Reporting ==
  ASSUME TypeOK, HeldAgrees, NEW k \in Keys, NEW type \in {"KEY_DOWN", "KEY_UP"},
         Report(type, k), k \in HeldKeys => (k \in held' <=> type = "KEY_DOWN"),
         held' \subseteq HeldKeys, \A l \in Keys \ {k} : l \in held' <=> l \in held
  PROVE  TypeOK' /\ HeldAgrees'
<1> DEFINE e == [type |-> type, key |-> k]
<1>1. /\ e \in Events /\ Push(e) /\ e.key = k /\ e.type = type
      /\ UNCHANGED <<event, items, count, parsers, pc, blocks>>
      /\ lost' = IF Full THEN lost \cup ({k} \cap HeldKeys) ELSE lost \ {k}
  BY DEF Report, Events, KeyEvents
<1> HIDE DEF e
<1>2. TypeOK'
  BY <1>1, Pushing DEF TypeOK, Events
<1>3. \A l \in Keys \ {k} : l \in held' <=> l \in held
  OBVIOUS
<1>4. CASE Full
  <2>1. queue' = queue
    BY <1>1, <1>4, Pushing
  <2> QED
    BY <1>1, <1>2, <1>3, <1>4, <2>1 DEF HeldAgrees, LastFor, keys_down
<1>5. CASE ~Full
  <2>1. /\ DOMAIN queue' = DOMAIN queue \cup {Len(queue) + 1}
        /\ \A n \in DOMAIN queue : queue'[n] = queue[n]
        /\ queue'[Len(queue) + 1] = e
        /\ DOMAIN queue = 1..Len(queue) /\ Len(queue) \in Nat
    BY <1>1, <1>5, Pushing
  <2>2. \A n \in DOMAIN queue' : LastFor(n, k)' => n = Len(queue) + 1
    BY <1>1, <2>1 DEF LastFor
  <2>3. \A l \in Keys \ {k}, n \in DOMAIN queue' :
          LastFor(n, l)' => n \in DOMAIN queue /\ LastFor(n, l)
    BY <1>1, <2>1 DEF LastFor
  <2>4. \A l \in Keys \ {k} : (\A n \in DOMAIN queue' : queue'[n].key # l)
                                <=> (\A n \in DOMAIN queue : queue[n].key # l)
    BY <1>1, <2>1
  <2>5. ASSUME pc # "exited", NEW l \in HeldKeys \ lost'
        PROVE  /\ \A n \in DOMAIN queue' :
                    LastFor(n, l)' => (l \in held' <=> queue'[n].type = "KEY_DOWN")
               /\ (\A n \in DOMAIN queue' : queue'[n].key # l) =>
                    (l \in held' <=>
                       IF event.key = l THEN event.type = "KEY_DOWN" ELSE l \in keys_down)
    <3>1. CASE l = k
      BY <1>1, <2>1, <2>2, <3>1
    <3>2. CASE l # k
      <4>1. l \in HeldKeys \ lost /\ l \in Keys \ {k}
        BY <1>1, <1>5, <2>5, <3>2
      <4> QED
        BY <1>3, <2>1, <2>3, <2>4, <2>5, <4>1 DEF HeldAgrees
    <3> QED
      BY <3>1, <3>2
  <2> QED
    BY <1>1, <1>2, <2>5 DEF HeldAgrees, keys_down
<1> QED
  BY <1>2, <1>4, <1>5

\* The key event that is handled moves from the event to the set, or its key is
\* lost because the set is full.
LEMMA HandlingKey ==
  ASSUME KeysInv, HandleKey
  PROVE  KeysInv'
<1> DEFINE k == event.key
<1>1. /\ pc = "handle" /\ event \in KeyEvents /\ k \in HeldKeys
      /\ event' = NoEvent /\ pc' = "loop" /\ UNCHANGED <<held, parsers>>
      /\ event.type \in {"KEY_DOWN", "KEY_UP"}
  BY EventKeys DEF HandleKey, KeysInv, TypeOK
<1>2. /\ items' \in [0..POLYPHONY-1 -> Keys \cup {NoKey}] /\ count' \in 0..POLYPHONY
      /\ HeldOnce'
      /\ event.type = "KEY_UP" => keys_down' = keys_down \ {k}
      /\ event.type = "KEY_DOWN" =>
           keys_down' = IF Cardinality(keys_down) < POLYPHONY THEN keys_down \cup {k}
                                                              ELSE keys_down
  BY <1>1, Adding, Removing DEF HandleKey, KeysInv
<1>3. /\ UNCHANGED queue \/ \E p \in {Quit, Command} : Push(p)
      /\ blocks' \in -1..BLOCKS
      /\ lost' = IF event.type = "KEY_DOWN" /\ k \notin keys_down'
                    /\ \A n \in DOMAIN queue : queue[n].key # k
                 THEN lost \cup {k} ELSE lost
  BY Publishing DEF HandleKey, KeysInv
<1> HIDE DEF k
<1>4. /\ {Quit, Command} \subseteq Events
      /\ \A p \in {Quit, Command} : p.key = NoKey
      /\ NoEvent.key = NoKey /\ NoKey \notin Keys
  BY EventKeys DEF Events
<1>5. TypeOK'
  <2>1. queue' \in Seq(Events) /\ Len(queue') <= QueueMax
    BY <1>3, <1>4, Pushing DEF KeysInv, TypeOK, Events
  <2>2. lost' \subseteq HeldKeys
    BY <1>1, <1>3 DEF KeysInv, TypeOK
  <2>3. blocks' \in -1..BLOCKS
    BY <1>3
  <2> QED
    BY <1>1, <1>2, <2>1, <2>2, <2>3 DEF KeysInv, TypeOK, Events
<1>6. \A l \in Keys, n \in DOMAIN queue' :
        LastFor(n, l)' => n \in DOMAIN queue /\ LastFor(n, l) /\ queue'[n] = queue[n]
  BY <1>3, <1>4, Pushing DEF KeysInv, LastFor
<1>7. \A l \in Keys : (\A n \in DOMAIN queue' : queue'[n].key # l)
                        => (\A n \in DOMAIN queue : queue[n].key # l)
  BY <1>3, <1>4, Pushing DEF KeysInv
<1>8. ASSUME NEW l \in HeldKeys \ lost'
      PROVE  /\ \A n \in DOMAIN queue' :
                  LastFor(n, l)' => (l \in held' <=> queue'[n].type = "KEY_DOWN")
             /\ (\A n \in DOMAIN queue' : queue'[n].key # l) =>
                  (l \in held' <=> l \in keys_down')
  <2>1. /\ \A n \in DOMAIN queue : LastFor(n, l) => (l \in held <=> queue[n].type = "KEY_DOWN")
        /\ (\A n \in DOMAIN queue : queue[n].key # l) =>
             (l \in held <=> IF k = l THEN event.type = "KEY_DOWN" ELSE l \in keys_down)
    BY <1>1, <1>3, <1>8 DEF KeysInv, HeldAgrees, k
  <2>2. ASSUME \A n \in DOMAIN queue : queue[n].key # l
        PROVE  l \in keys_down' <=> IF k = l THEN event.type = "KEY_DOWN" ELSE l \in keys_down
    BY <1>1, <1>2, <1>3, <1>8, <2>2
  <2> QED
    BY <1>1, <1>6, <1>7, <2>1, <2>2
<1>9. HeldAgrees'
  BY <1>1, <1>4, <1>8 DEF HeldAgrees
<1> QED
  BY <1>2, <1>5, <1>9 DEF KeysInv

\* The first event moves from the queue into the module, if it is about a key;
\* what the later ones say is said of the same keys.
LEMMA Dispatching ==
  ASSUME KeysInv, Dispatch
  PROVE  KeysInv'
<1> DEFINE e == Head(queue)
<1>1. /\ pc = "loop" /\ event = NoEvent /\ queue # << >> /\ queue' = Tail(queue)
      /\ IF NumbersOut
         THEN /\ event' = NoEvent /\ pc' = "loop"
              /\ lost' = IF LastOfKey(e) THEN lost \cup {e.key} ELSE lost
         ELSE /\ event' = IF e \in KeyEvents THEN e ELSE NoEvent
              /\ pc' = IF e \in KeyEvents THEN "handle" ELSE IF e = Quit THEN "quit" ELSE "loop"
              /\ lost' = lost
      /\ UNCHANGED <<held, items, count, parsers, blocks>>
  BY EventKeys DEF Dispatch, oxi_from_sdl_event, KeysInv, TypeOK
<1>2. queue \in Seq(Events) /\ Len(queue) \in Nat /\ Len(queue) <= QueueMax
  BY DEF KeysInv, TypeOK, Events
<1>3. /\ e \in Events /\ e = queue[1] /\ Len(queue) >= 1 /\ queue' \in Seq(Events)
      /\ Len(queue') = Len(queue) - 1 /\ DOMAIN queue' = 1..Len(queue)-1
      /\ DOMAIN queue = 1..Len(queue)
      /\ \A n \in 1..Len(queue)-1 : queue'[n] = queue[n + 1]
  <2> HIDE DEF Events
  <2> QED
    BY <1>1, <1>2, HeadTailProperties, EmptySeq
<1> HIDE DEF e
<1>4. TypeOK'
  <2>1. lost' \subseteq HeldKeys
    BY <1>1 DEF KeysInv, TypeOK, LastOfKey
  <2>2. event' \in KeyEvents \cup {NoEvent} /\ (pc' = "handle" => event' \in KeyEvents)
        /\ pc' \in {"loop", "handle", "quit"} /\ (pc' = "loop" => event' = NoEvent)
    BY <1>1
  <2>3. Len(queue') <= QueueMax
    BY <1>2, <1>3
  <2> QED
    BY <1>1, <1>3, <2>1, <2>2, <2>3 DEF KeysInv, TypeOK, Events
<1>5. HeldOnce'
  BY <1>1 DEF KeysInv, HeldOnce, keys_down
<1>6. ASSUME NEW l \in HeldKeys \ lost'
      PROVE  /\ \A n \in DOMAIN queue' :
                  LastFor(n, l)' => (l \in held' <=> queue'[n].type = "KEY_DOWN")
             /\ (\A n \in DOMAIN queue' : queue'[n].key # l) =>
                  (l \in held' <=>
                     IF event'.key = l THEN event'.type = "KEY_DOWN" ELSE l \in keys_down')
  <2>1. /\ \A n \in DOMAIN queue : LastFor(n, l) => (l \in held <=> queue[n].type = "KEY_DOWN")
        /\ (\A n \in DOMAIN queue : queue[n].key # l) => (l \in held <=> l \in keys_down)
    <3>1. l \in HeldKeys \ lost
      BY <1>1, <1>6
    <3> QED
      BY <1>1, <3>1, EventKeys DEF KeysInv, HeldAgrees
  <2>2. \A n \in DOMAIN queue : n = 1 \/ (n - 1 \in DOMAIN queue' /\ queue'[n - 1] = queue[n])
    BY <1>2, <1>3
  <2>3. ASSUME NEW n \in DOMAIN queue', LastFor(n, l)'
        PROVE  l \in held' <=> queue'[n].type = "KEY_DOWN"
    <3>1. n + 1 \in DOMAIN queue /\ queue'[n] = queue[n + 1] /\ n \in Nat
      BY <1>2, <1>3
    <3>2. LastFor(n + 1, l)
      <4>1. \A m \in DOMAIN queue : queue[m].key = l => m <= n + 1
        <5> SUFFICES ASSUME NEW m \in DOMAIN queue, queue[m].key = l, m # 1
                     PROVE  m <= n + 1
          BY <3>1
        <5>1. m - 1 <= n /\ m \in Nat
          BY <1>2, <1>3, <2>2, <2>3 DEF LastFor
        <5> QED
          BY <3>1, <5>1
      <4> QED
        BY <2>3, <3>1, <4>1 DEF LastFor
    <3> QED
      BY <1>1, <2>1, <3>1, <3>2
  <2>4. ASSUME \A n \in DOMAIN queue' : queue'[n].key # l
        PROVE  l \in held' <=>
                 IF event'.key = l THEN event'.type = "KEY_DOWN" ELSE l \in keys_down'
    <3>1. \A n \in DOMAIN queue : queue[n].key = l => n = 1
      BY <2>2, <2>4
    <3>2. keys_down' = keys_down
      BY <1>1 DEF keys_down
    <3>3. CASE e.key = l
      <4>3. ~NumbersOut
        <5>1. \A n \in 2..Len(queue) : queue[n].key # l
          BY <1>2, <1>3, <3>1
        <5>2. LastOfKey(e)
          BY <3>3, <5>1 DEF LastOfKey
        <5> QED
          BY <1>1, <1>6, <3>3, <5>2
      <4>1. e \in KeyEvents /\ event' = e
        BY <1>1, <1>3, <3>3, <4>3, EventKeys DEF Events
      <4>2. 1 \in DOMAIN queue /\ LastFor(1, l)
        BY <1>2, <1>3, <3>1, <3>3 DEF LastFor
      <4> QED
        BY <1>1, <1>3, <2>1, <3>3, <4>1, <4>2
    <3>4. CASE e.key # l
      <4>1. \A n \in DOMAIN queue : queue[n].key # l
        BY <1>3, <3>1, <3>4
      <4>2. event'.key # l
        BY <1>1, <3>4, EventKeys
      <4> QED
        BY <1>1, <2>1, <3>2, <4>1, <4>2
    <3> QED
      BY <3>3, <3>4
  <2> QED
    BY <2>3, <2>4
<1>7. HeldAgrees'
  BY <1>1, <1>6 DEF HeldAgrees
<1> QED
  BY <1>4, <1>5, <1>7 DEF KeysInv

-------------------------------------------------------------------------------
LEMMA KeysInit == Init => KeysInv
<1> SUFFICES ASSUME Init PROVE KeysInv
  OBVIOUS
<1>1. queue = << >> /\ count = 0 /\ lost = held /\ held \subseteq HeldKeys
  BY DEF Init
<1>2. queue \in Seq(KeyEvents \cup {Quit, Command}) /\ Len(queue) = 0
  BY <1>1, EmptySeq
<1>3. TypeOK
  <2>1. BLOCKS \in -1..BLOCKS /\ 0 \in 0..POLYPHONY /\ 0 <= QueueMax
    OBVIOUS
  <2> QED
    BY <1>1, <1>2, <2>1 DEF Init, TypeOK
<1>4. keys_down = {}
  BY <1>1 DEF keys_down
<1>5. HeldOnce
  BY <1>1, <1>4 DEF HeldOnce
<1>6. HeldAgrees
  <2>1. event.key = NoKey /\ DOMAIN queue = {}
    BY <1>1, EventKeys DEF Init
  <2> QED
    BY <1>1, <1>4, <2>1 DEF HeldAgrees
<1> QED
  BY <1>3, <1>5, <1>6 DEF KeysInv

LEMMA KeysStep == KeysInv /\ [Next]_vars => KeysInv'
<1> SUFFICES ASSUME KeysInv, [Next]_vars PROVE KeysInv'
  OBVIOUS
<1>1. TypeOK /\ HeldOnce /\ HeldAgrees
  BY DEF KeysInv
<1>2. ASSUME UNCHANGED <<items, count>> PROVE HeldOnce'
  BY <1>1, <1>2 DEF HeldOnce, keys_down
<1>3. ASSUME NEW k \in Keys,
             Press(k) \/ Repeat(k) \/ Release(k) \/ (k = SDLK_ESCAPE /\ EscapeKey)
      PROVE  KeysInv'
  <2>1. PICK type \in {"KEY_DOWN", "KEY_UP"} :
          /\ Report(type, k)
          /\ k \in HeldKeys => (k \in held' <=> type = "KEY_DOWN")
          /\ held' \subseteq HeldKeys /\ \A l \in Keys \ {k} : l \in held' <=> l \in held
    <3>1. held \subseteq HeldKeys
      BY <1>1 DEF TypeOK
    <3>2. CASE Press(k) \/ Repeat(k) \/ Release(k)
      BY <3>1, <3>2 DEF Press, Repeat, Release
    <3>3. CASE k = SDLK_ESCAPE /\ EscapeKey
      BY <3>1, <3>3 DEF EscapeKey
    <3> QED
      BY <1>3, <3>2, <3>3
  <2>2. UNCHANGED <<items, count>>
    BY <2>1 DEF Report
  <2> QED
    BY <1>1, <1>2, <2>1, <2>2, Reporting DEF KeysInv
<1>4. CASE Publish
  <2>1. /\ Push(Command) /\ Running /\ blocks' \in -1..BLOCKS
        /\ UNCHANGED <<held, event, items, count, parsers, pc, lost>>
    BY <1>1, <1>4, Publishing DEF Publish, Running
  <2>2. TypeOK'
    BY <1>1, <2>1, Pushing DEF TypeOK, Events
  <2> QED
    BY <1>1, <1>2, <2>1, <2>2, PushingOther DEF KeysInv
<1>5. CASE HandleEscape
  <2>1. /\ pc = "handle" /\ Push(Quit) /\ event.key = SDLK_ESCAPE
        /\ event' = NoEvent /\ pc' = "loop"
        /\ UNCHANGED <<held, items, count, parsers, blocks, lost>>
    BY <1>5 DEF HandleEscape
  <2>2. TypeOK'
    BY <1>1, <2>1, Pushing DEF TypeOK, Events
  <2>3. \A k \in Keys, n \in DOMAIN queue' :
          LastFor(n, k)' => n \in DOMAIN queue /\ LastFor(n, k) /\ queue'[n] = queue[n]
    BY <1>1, <2>1, Pushing, EventKeys DEF LastFor, Events
  <2>4. \A k \in Keys : (\A n \in DOMAIN queue' : queue'[n].key # k)
                          => (\A n \in DOMAIN queue : queue[n].key # k)
    BY <1>1, <2>1, Pushing, EventKeys DEF Events
  <2>5. HeldAgrees'
    <3>1. event'.key = NoKey /\ \A k \in Keys : k # NoKey
      BY <2>1, EventKeys
    <3>2. keys_down' = keys_down
      BY <2>1 DEF keys_down
    <3> QED
      BY <1>1, <2>1, <2>3, <2>4, <3>1, <3>2 DEF HeldAgrees
  <2> QED
    BY <1>2, <2>1, <2>2, <2>5 DEF KeysInv
<1>6. CASE Register
  BY <1>1, <1>2, <1>6 DEF Register, KeysInv, TypeOK, HeldAgrees, LastFor, keys_down
<1>7. CASE ExitUnparsed
  BY <1>1, <1>2, <1>7 DEF ExitUnparsed, KeysInv, TypeOK, HeldAgrees
<1>8. CASE UNCHANGED vars
  BY <1>1, <1>2, <1>8 DEF vars, KeysInv, TypeOK, HeldAgrees, LastFor, keys_down
<1> QED
  BY <1>3, <1>4, <1>5, <1>6, <1>7, <1>8, HandlingKey, Dispatching DEF Next, Handle

LEMMA KeysStay == Spec => []KeysInv
<1> QED
  BY KeysInit, KeysStep, PTL DEF Spec

\* The types of the command module's state and of the queue (command.h).
THEOREM KeysTyped == Spec => []TypeOK
<1>1. KeysInv => TypeOK
  BY DEF KeysInv
<1> QED
  BY <1>1, KeysStay, PTL

\* No key is in the set twice, and escape never (handle_key, key_set).
THEOREM KeysHeldOnce == Spec => []HeldOnce
<1>1. KeysInv => HeldOnce
  BY DEF KeysInv
<1> QED
  BY <1>1, KeysStay, PTL

\* The set and the events on their way agree with the keyboard about every key
\* but the lost ones: those whose last event SDL dropped, found the set full, or
\* was taken for a command (handle_key, oxi_from_sdl_event).
THEOREM KeysAgree == Spec => []HeldAgrees
<1>1. KeysInv => HeldAgrees
  BY DEF KeysInv
<1> QED
  BY <1>1, KeysStay, PTL

-------------------------------------------------------------------------------
(* What a step does to the set, and to a press of escape *)

LEMMA SetStep ==
  KeysInv /\ [Next]_vars =>
    keys_down' = IF pc = "handle" /\ pc' = "loop" /\ event.key # SDLK_ESCAPE
                 THEN SetAfter(event) ELSE keys_down
<1> SUFFICES ASSUME KeysInv, [Next]_vars
             PROVE  keys_down' = IF pc = "handle" /\ pc' = "loop" /\ event.key # SDLK_ESCAPE
                                 THEN SetAfter(event) ELSE keys_down
  OBVIOUS
<1>1. CASE HandleKey
  <2>1. /\ pc = "handle" /\ pc' = "loop" /\ event.key \in HeldKeys
        /\ event.type \in {"KEY_DOWN", "KEY_UP"}
    BY <1>1, EventKeys DEF HandleKey, KeysInv, TypeOK
  <2>2. CASE event.type = "KEY_UP"
    BY <1>1, <2>1, <2>2, Removing DEF HandleKey, KeysInv, SetAfter
  <2>3. CASE event.type # "KEY_UP"
    BY <1>1, <2>1, <2>3, Adding DEF HandleKey, KeysInv, SetAfter
  <2> QED
    BY <2>2, <2>3
<1>2. ASSUME UNCHANGED <<items, count>>,
             pc # "handle" \/ pc' # "loop" \/ event.key = SDLK_ESCAPE
      PROVE  keys_down' = IF pc = "handle" /\ pc' = "loop" /\ event.key # SDLK_ESCAPE
                          THEN SetAfter(event) ELSE keys_down
  BY <1>2 DEF keys_down
<1>3. CASE EscapeKey \/ \E k \in Keys : Press(k) \/ Repeat(k) \/ Release(k)
  BY <1>2, <1>3 DEF Press, Repeat, Release, EscapeKey, Report
<1>4. CASE Register \/ Publish \/ Dispatch \/ HandleEscape \/ ExitUnparsed
  BY <1>2, <1>4 DEF Register, Publish, Dispatch, HandleEscape, ExitUnparsed
<1>5. CASE UNCHANGED vars
  BY <1>2, <1>5 DEF vars
<1> QED
  BY <1>1, <1>3, <1>4, <1>5 DEF Next, Handle

\* The array of held keys behaves as a set of at most POLYPHONY keys: a press is
\* refused only when it is full, a release takes out its own key, nothing else
\* changes it (handle_key, key_set).
THEOREM KeySetStaysASet == Spec => KeySetIsSet
<1> QED
  BY KeysStay, SetStep, PTL DEF Spec, KeySetIsSet

\* What is in the queue stays there when something is pushed.
LEMMA QueuedStays ==
  ASSUME TypeOK, NEW p \in Events, Push(p), NEW e, Queued(e)
  PROVE  Queued(e)'
<1>1. PICK n \in DOMAIN queue : queue[n] = e
  BY DEF Queued
<1>2. n \in DOMAIN queue' /\ queue'[n] = e
  BY <1>1, Pushing
<1> QED
  BY <1>2 DEF Queued

\* One step, whatever the other events in the queue are.
LEMMA EscapeStep ==
  KeysInv /\ [Next]_vars =>
    (EscapeOnItsWay =>
       EscapeOnItsWay' \/ pc' = "quit" \/ EscapeDropped \/ EscapeMistaken)
<1> SUFFICES ASSUME KeysInv, [Next]_vars, EscapeOnItsWay
             PROVE  EscapeOnItsWay' \/ pc' = "quit" \/ EscapeDropped \/ EscapeMistaken
  OBVIOUS
<1>1. TypeOK
  BY DEF KeysInv
<1>2. /\ Escape \in KeyEvents /\ Escape.key = SDLK_ESCAPE /\ Escape # Quit
      /\ Quit \in Events /\ Command \in Events /\ KeyEvents \subseteq Events
  BY EventKeys DEF Escape, Events, KeyEvents
<1>3. ASSUME NEW p \in Events, Push(p) \/ UNCHANGED queue, UNCHANGED event
      PROVE  EscapeOnItsWay'
  BY <1>1, <1>3, QueuedStays DEF EscapeOnItsWay, Queued
<1>4. CASE EscapeKey \/ \E k \in Keys : Press(k) \/ Repeat(k) \/ Release(k)
  <2>1. PICK k \in Keys, type \in {"KEY_DOWN", "KEY_UP"} : Report(type, k)
    BY <1>4 DEF Press, Repeat, Release, EscapeKey
  <2>2. [type |-> type, key |-> k] \in Events
    BY DEF Events, KeyEvents
  <2>3. Push([type |-> type, key |-> k]) /\ UNCHANGED event
    BY <2>1 DEF Report
  <2> QED
    BY <1>3, <2>2, <2>3
<1>5. CASE Publish \/ Register \/ ExitUnparsed \/ UNCHANGED vars
  <2>1. (Push(Command) \/ UNCHANGED queue) /\ UNCHANGED event
    BY <1>5 DEF Publish, PushCommand, Register, ExitUnparsed, vars
  <2> QED
    BY <1>2, <1>3, <2>1
<1>6. CASE HandleKey
  <2>1. /\ UNCHANGED queue \/ \E p \in {Quit, Command} : Push(p)
        /\ event.key # SDLK_ESCAPE
    BY <1>1, <1>6, Publishing DEF HandleKey
  <2>2. Queued(Escape) \/ Queued(Quit)
    BY <1>2, <2>1 DEF EscapeOnItsWay
  <2>3. Queued(Escape)' \/ Queued(Quit)'
    <3>1. CASE UNCHANGED queue
      BY <2>2, <3>1 DEF Queued
    <3>2. ASSUME NEW p \in {Quit, Command}, Push(p) PROVE Queued(Escape)' \/ Queued(Quit)'
      BY <1>1, <1>2, <2>2, <3>2, QueuedStays
    <3> QED
      BY <2>1, <3>1, <3>2
  <2> QED
    BY <2>3 DEF EscapeOnItsWay
<1>7. CASE HandleEscape
  <2>1. Push(Quit) /\ pc' = "loop"
    BY <1>7 DEF HandleEscape
  <2>2. CASE ~Full
    <3>1. Len(queue) + 1 \in DOMAIN queue' /\ queue'[Len(queue) + 1] = Quit
      BY <1>1, <1>2, <2>1, <2>2, Pushing
    <3> QED
      BY <3>1 DEF EscapeOnItsWay, Queued
  <2>3. CASE Full
    <3>1. CASE event = Escape
      BY <2>1, <2>3, <3>1 DEF EscapeDropped
    <3>2. CASE event # Escape
      <4>1. Queued(Escape) \/ Queued(Quit)
        BY <3>2 DEF EscapeOnItsWay
      <4> QED
        BY <1>1, <1>2, <2>1, <4>1, QueuedStays DEF EscapeOnItsWay
    <3> QED
      BY <3>1, <3>2
  <2> QED
    BY <2>2, <2>3
<1>8. CASE Dispatch
  <2>1. /\ pc = "loop" /\ queue # << >> /\ queue' = Tail(queue)
        /\ NumbersOut \/ /\ event' = IF Head(queue) \in KeyEvents THEN Head(queue) ELSE NoEvent
                         /\ pc' = IF Head(queue) \in KeyEvents THEN "handle"
                                  ELSE IF Head(queue) = Quit THEN "quit" ELSE "loop"
    BY <1>8 DEF Dispatch, oxi_from_sdl_event
  <2>2. PICK e \in {Escape, Quit} : Queued(e)
    <3>1. event # Escape
      BY <1>1, <1>2, <2>1, EventKeys DEF TypeOK
    <3> QED
      BY <3>1 DEF EscapeOnItsWay
  <2>3. PICK n \in DOMAIN queue : queue[n] = e
    BY <2>2 DEF Queued
  <2>4. /\ queue \in Seq(Events) /\ DOMAIN queue = 1..Len(queue) /\ Head(queue) = queue[1]
        /\ DOMAIN queue' = 1..Len(queue)-1 /\ Len(queue) \in Nat
        /\ \A m \in 1..Len(queue)-1 : queue'[m] = queue[m + 1]
    <3>1. queue \in Seq(Events)
      BY <1>1 DEF TypeOK, Events
    <3> HIDE DEF Events
    <3> QED
      BY <2>1, <3>1, HeadTailProperties, EmptySeq
  <2>5. CASE n = 1
    BY <1>2, <2>1, <2>3, <2>4, <2>5, EventKeys DEF EscapeOnItsWay, EscapeMistaken
  <2>6. CASE n # 1
    <3>1. n - 1 \in DOMAIN queue' /\ queue'[n - 1] = e
      BY <2>3, <2>4, <2>6
    <3> QED
      BY <3>1 DEF EscapeOnItsWay, Queued
  <2> QED
    BY <2>5, <2>6
<1> QED
  BY <1>4, <1>5, <1>6, <1>7, <1>8 DEF Next, Handle

\* A press of escape in the queue stays on its way until the program ends, until
\* its quit event finds the queue full, or until SDL has no number left and it is
\* taken for a command: no other event, and no key that is held, makes the module
\* forget it (handle_key, oxi_from_sdl_event).
THEOREM EscapeStaysOnItsWay == Spec => EscapeStays
<1> QED
  BY KeysStay, EscapeStep, PTL DEF Spec, EscapeStays
===============================================================================
