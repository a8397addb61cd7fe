------------------------------ MODULE KernelProofs ------------------------------
(***************************************************************************)
(* The life of the program for every number of slots, every set of         *)
(* libraries and every load list: types, handles, callbacks into closed    *)
(* libraries, the order of shutdown, and what a crash needs.               *)
(***************************************************************************)
EXTENDS Kernel, FiniteSetTheorems, SequenceTheorems, TLAPS

USE KernelAssumption

-------------------------------------------------------------------------------
(* Types, slots and handles *)

Down == {"unload", "stop", "returned", "segv"}

\* The slots unload_modules still has to take down that hold library l.
Holding(l) == {s \in k..mods_count-1 : mods[s] = l}

\* the handle of the module that is coming up
Coming(l) == IF pc \in {"init", "start"} /\ Line = l THEN 1 ELSE 0

LEMMA HoldersAre == ASSUME NEW l PROVE Holders(l) = Cardinality(Holding(l)) + Coming(l)
  BY DEF Holders, Holding, Coming

\* Where main is and which slots can be filled: the ones from mods_count on
\* are {0}, unload_modules has not begun before the loop is over, and a line
\* opens a library at most once.
Place ==
  /\ pc \in {"setup", "open"} => i = 0
  /\ pc \notin Down => k = 0
  /\ k <= mods_count
  /\ pc = "stop" => k < mods_count /\ mods[k] # NoLib
  /\ \A s \in Slots : s >= mods_count => mods[s] = NoLib
  /\ \A l \in Libs : base[l] <= i + 1 /\ (pc # "segv" => refs[l] <= i + Coming(l))

Sound == TypeOK /\ Place /\ HandlesCounted

\* There are at most as many of them as slots are left.
LEMMA HoldingFinite ==
  ASSUME ModuleTypes, k <= mods_count, NEW l
  PROVE  IsFiniteSet(Holding(l)) /\ Cardinality(Holding(l)) \in 0..mods_count-k
<1>1. k \in Int /\ mods_count \in Int /\ mods_count-1 \in Int
  BY DEF ModuleTypes
<1>2. IsFiniteSet(k..mods_count-1)
  BY <1>1, FS_Interval
<1>3. Holding(l) \subseteq k..mods_count-1
  BY DEF Holding
<1>4. IsFiniteSet(Holding(l)) /\ Cardinality(Holding(l)) <= Cardinality(k..mods_count-1)
  BY <1>2, <1>3, FS_Subset
<1>5. Cardinality(Holding(l)) \in Nat
  BY <1>4, FS_CardinalityType
<1>6. Cardinality(k..mods_count-1) = IF k > mods_count-1 THEN 0 ELSE (mods_count-1)-k+1
  BY <1>1, FS_Interval
<1> QED
  BY <1>1, <1>4, <1>5, <1>6

\* A handle is there to be closed, and there is a count left for one more.
LEMMA HandlesBounded ==
  ASSUME Sound, pc # "segv", NEW l \in Libs
  PROVE  /\ pc \in {"init", "start"} /\ Line = l => refs[l] >= 1
         /\ pc = "stop" /\ mods[k] = l => refs[l] >= 1
<1>1. IsFiniteSet(Holding(l)) /\ Cardinality(Holding(l)) \in 0..mods_count-k
  BY HoldingFinite DEF Sound, Place, TypeOK
<1>2. refs[l] >= Cardinality(Holding(l)) + Coming(l) /\ refs[l] \in Int
  BY HoldersAre DEF Sound, HandlesCounted, TypeOK, ModuleTypes
<1>3. k \in Nat /\ mods_count \in Nat
  BY DEF Sound, TypeOK, ModuleTypes
<1>4. ASSUME pc = "stop", mods[k] = l PROVE Cardinality(Holding(l)) # 0
  <2>1. k \in Holding(l)
    BY <1>3, <1>4 DEF Sound, Place, Holding
  <2> QED
    BY <1>1, <2>1, FS_EmptySet
<1> QED
  BY <1>1, <1>2, <1>3, <1>4 DEF Coming

\* Steps that only touch SDL's queue and numbers.
OnlyQueue ==
  Forget \/ PublishQuit \/ PublishCommand \/ \E e \in SDLEvents : Input(e)

LEMMA QueueOnly ==
  ASSUME OnlyQueue
  PROVE  UNCHANGED <<list, loader, libs, made, should_exit, pc, k, ghosts, bus>>
  BY DEF OnlyQueue, Forget, PublishQuit, PublishCommand, Input

\* Steps that use an event system that is not there.
NoEventSystem == SubscribeNull \/ ReadyNull

LEMMA OnlyCrashes ==
  ASSUME NoEventSystem
  PROVE  /\ ~event_system /\ pc' = "segv" /\ pc \in {"init", "start", "dispatch", "ready"}
         /\ UNCHANGED <<list, loader, libs, made, should_exit, sdl, k, ghosts, bus>>
  BY DEF NoEventSystem, SubscribeNull, ReadyNull, Running

LEMMA HandlesKept ==
  ASSUME HandlesCounted, UNCHANGED <<list, loader, libs, k>>,
         pc' # "segv" => pc # "segv" /\ (pc \in {"init", "start"} <=> pc' \in {"init", "start"}),
         mishap => mishap'
  PROVE  HandlesCounted'
  BY DEF HandlesCounted, Holders, loader, libs, Line

LEMMA SoundInit == Init => Sound
<1> SUFFICES ASSUME Init PROVE Sound
  OBVIOUS
<1>1. ModuleTypes
  <2>1. started \in Seq(Libs) /\ stopped \in Seq(Libs)
    BY EmptySeq DEF Init
  <2>2. /\ mods \in [Slots -> Libs \cup {NoLib}]
        /\ refs \in [Libs -> 0..MAX_MODS] /\ base \in [Libs -> 0..MAX_MODS]
    BY DEF Init
  <2>3. /\ list \in LoadLists /\ pc = "setup" /\ i = 0 /\ k = 0 /\ mods_count = 0
        /\ failed = {} /\ event_system \in BOOLEAN /\ display \in BOOLEAN /\ mishap = FALSE
    BY DEF Init
  <2>4. i \in 0..MAX_MODS /\ k \in 0..MAX_MODS /\ mods_count \in 0..i
    BY <2>3
  <2> QED
    BY <2>1, <2>2, <2>3, <2>4 DEF ModuleTypes, Control
<1>2. EventTypes
  <2>1. /\ queue = << >> /\ registered = << >> /\ should_exit = FALSE
        /\ blocks \in -1..BLOCKS
    BY DEF Init, Bus!Init
  <2>2. /\ queue \in Seq(SDLEvents) /\ Len(queue) <= QueueMax
        /\ registered \in Seq(Subscription)
    BY <2>1, EmptySeq
  <2>3. /\ current = NoTopic /\ todo = {} /\ running = 0 /\ unheard = {}
    BY DEF Init, Bus!Init
  <2> QED
    BY <2>1, <2>2, <2>3 DEF EventTypes
<1>3. Place
  BY DEF Init, Place, Coming
<1>4. ASSUME NEW l \in Libs PROVE Cardinality(Holding(l)) = 0
  <2>1. Holding(l) = {}
    BY DEF Init, Holding
  <2> QED
    BY <2>1, FS_EmptySet
<1>5. HandlesCounted
  BY <1>4, HoldersAre DEF Init, HandlesCounted, Coming
<1> QED
  BY <1>1, <1>2, <1>3, <1>5 DEF Sound, TypeOK

-------------------------------------------------------------------------------
(* What the bus does to its variables *)

LEMMA RunningTyped ==
  ASSUME ModuleTypes, EventTypes
  PROVE  Running \in {quit_handler} \cup Mappings
<1>1. ASSUME pc \in {"init", "start"} PROVE base[Line] \in 0..MAX_MODS
  BY <1>1 DEF ModuleTypes
<1>2. ASSUME running # 0 PROVE registered[running] \in Subscription
  BY <1>2, ElementOfSeq DEF EventTypes
<1> QED
  BY <1>1, <1>2 DEF Running, quit_handler, Mappings, Subscription

LEMMA Subscribing ==
  ASSUME EventTypes, NEW t \in Topics, NEW cb \in {quit_handler} \cup Mappings,
         Bus!Subscribe(t, cb)
  PROVE  /\ registered' \in Seq(Subscription)
         /\ DOMAIN registered' = DOMAIN registered \cup {Len(registered) + 1}
         /\ \A j \in DOMAIN registered : registered'[j] = registered[j]
         /\ registered'[Len(registered) + 1] = [topic |-> t, callback |-> cb]
<1> DEFINE new == [topic |-> t, callback |-> cb]
<1>1. new \in Subscription /\ registered \in Seq(Subscription)
  BY DEF Subscription, EventTypes
<1>2. registered' = Append(registered, new)
  BY DEF Bus!Subscribe
<1> HIDE DEF new
<1>3. /\ registered' \in Seq(Subscription) /\ Len(registered') = Len(registered) + 1
      /\ \A j \in 1..Len(registered) : registered'[j] = registered[j]
      /\ registered'[Len(registered) + 1] = new
  BY <1>1, <1>2
<1>4. DOMAIN registered = 1..Len(registered) /\ DOMAIN registered' = 1..Len(registered')
      /\ Len(registered) \in Nat
  BY <1>1, <1>3, LenProperties
<1> QED
  BY <1>3, <1>4 DEF new

LEMMA Taking ==
  ASSUME EventTypes, Bus!Take
  PROVE  /\ running = 0 /\ running' \in todo /\ todo' = todo \ {running'}
         /\ UNCHANGED <<registered, current>>
<1>1. PICK n \in todo :
        /\ todo' = todo \ {n}
        /\ running' = IF registered[n].callback = NoCallback THEN 0 ELSE n
  BY DEF Bus!Take
<1>2. registered[n] \in Subscription
  BY LenProperties, ElementOfSeq DEF EventTypes
<1>3. registered[n].callback # NoCallback
  BY <1>2 DEF Subscription, NoCallback, quit_handler, Mappings
<1> QED
  BY <1>1, <1>3 DEF Bus!Take

LEMMA Pushing ==
  ASSUME EventTypes, NEW e \in SDLEvents, Push(e)
  PROVE  queue' \in Seq(SDLEvents) /\ Len(queue') <= QueueMax
  BY DEF EventTypes, Push

LEMMA Popping ==
  ASSUME EventTypes, queue # << >>, queue' = Tail(queue)
  PROVE  /\ Head(queue) \in SDLEvents
         /\ queue' \in Seq(SDLEvents) /\ Len(queue') <= QueueMax
  BY HeadTailProperties DEF EventTypes

\* Every step keeps the types of the queue and of the bus.
LEMMA EventTypesStep ==
  ASSUME ModuleTypes, EventTypes, [Next]_vars
  PROVE  EventTypes'
<1>1. CASE UNCHANGED <<sdl, should_exit, unheard, bus>>
  BY <1>1 DEF EventTypes, bus, sdl
<1>2. CASE setup_ox \/ Load \/ Call \/ WaitFails \/ Unload \/ StopSubscribes
  BY <1>1, <1>2 DEF setup_ox, Load, OpenList, SkipLine, CannotLoad, OpenLib, InitReturns,
     Fails, StartReturns, LoadDone, Call, WaitFails, Unload, CallStop,
     StopFails, StopReturns, Exit, StopSubscribes, ghosts
<1>3. ASSUME NEW t \in Topics, NEW cb \in {quit_handler} \cup Mappings, Bus!Subscribe(t, cb),
             UNCHANGED <<sdl, should_exit, unheard>>
      PROVE  EventTypes'
  <2>1. UNCHANGED <<current, todo, running>>
    BY <1>3 DEF Bus!Subscribe
  <2> QED
    BY <1>3, <2>1, Subscribing DEF EventTypes, sdl
<1>4. CASE Ready
  BY <1>3, <1>4 DEF Ready, ghosts
<1>5. ASSUME NEW t \in Topics, Subscribe(t) PROVE EventTypes'
  BY <1>3, <1>5, RunningTyped DEF Subscribe, ghosts
<1>6. CASE OnlyQueue
  <2>1. blocks' \in -1..BLOCKS
    BY <1>6 DEF OnlyQueue, Forget, PublishQuit, PublishCommand, Input, EventTypes
  <2>2. queue' \in Seq(SDLEvents) /\ Len(queue') <= QueueMax
    BY <1>6, Pushing, Popping
    DEF OnlyQueue, Forget, PublishQuit, PublishCommand, Input, SDLEvents
  <2> QED
    BY <1>6, <2>1, <2>2, QueueOnly DEF EventTypes, ghosts, bus
<1>7. CASE NoEventSystem
  BY <1>1, <1>7, OnlyCrashes DEF ghosts
<1>8. CASE Cleanup
  BY <1>8 DEF Cleanup, EventTypes, ghosts, bus
<1>9. CASE Fetch
  <2>1. /\ Head(queue) \in SDLEvents
        /\ queue' \in Seq(SDLEvents) /\ Len(queue') <= QueueMax
    BY <1>9, Popping DEF Fetch
  <2>2. PICK t \in oxi_from_sdl_event(Head(queue)) \ {NoTopic} : Bus!Begin(t)
    BY <1>9 DEF Fetch
  <2>3. t \in Topics
    BY <2>1, <2>2 DEF oxi_from_sdl_event, SDLEvents
  <2>4. DOMAIN registered = 1..Len(registered)
    BY LenProperties DEF EventTypes
  <2> QED
    BY <1>9, <2>1, <2>2, <2>3, <2>4 DEF Fetch, Bus!Begin, EventTypes
<1>10. CASE Invoke
  BY <1>10, Taking DEF Invoke, EventTypes, sdl
<1>11. CASE Return
  BY <1>11 DEF Return, Bus!Return, EventTypes, ghosts, sdl
<1>12. CASE Dispatched
  BY <1>12 DEF Dispatched, Bus!End, EventTypes, ghosts, sdl
<1>13. CASE UNCHANGED vars
  BY <1>1, <1>13 DEF vars, ghosts
<1> QED
  BY <1>2, <1>4, <1>5, <1>6, <1>7, <1>8, <1>9, <1>10, <1>11, <1>12, <1>13
  DEF Next, Main, MainLoop, OnlyQueue, NoEventSystem

-------------------------------------------------------------------------------
(* Loading and unloading *)

\* A step that moves main on and leaves slots, counters and libraries alone.
LEMMA ModulesKept ==
  ASSUME Sound, UNCHANGED <<list, loader, libs, made, k, started, stopped, failed>>,
         mishap' \in BOOLEAN, mishap => mishap', pc' \in Control,
         pc' \in {"init", "start"} => pc \in {"init", "start"},
         pc' # "segv" => pc # "segv" /\ (pc \in {"init", "start"} => pc' \in {"init", "start"}),
         pc' \in {"setup", "open"} => pc \in {"setup", "open"},
         pc' \notin Down => pc \notin Down,
         pc' = "stop" => pc = "stop" \/ (k < mods_count /\ mods[k] # NoLib)
  PROVE  ModuleTypes' /\ Place' /\ HandlesCounted'
<1>1. ModuleTypes'
  BY DEF Sound, TypeOK, ModuleTypes, loader, libs, made, Line
<1>2. pc' # "segv" => \A l \in Libs : Coming(l)' = Coming(l)
  BY DEF Coming, loader, Line
<1>3. Place'
  BY <1>2 DEF Sound, Place, loader, libs
<1>4. HandlesCounted'
  BY HandlesKept DEF Sound
<1> QED
  BY <1>1, <1>3, <1>4

\* mods[i] = m keeps the other slots and adds slot i to the ones that hold m.
LEMMA Storing ==
  ASSUME Sound, pc \in {"load", "init", "start"}, i < MAX_MODS,
         NEW m \in Libs \cup {NoLib}, Store(m), k' = k
  PROVE  /\ mods' \in [Slots -> Libs \cup {NoLib}]
         /\ i' \in 0..MAX_MODS /\ i' = i + 1 /\ mods_count' = i + 1 /\ k = 0
         /\ \A s \in Slots : s >= mods_count' => mods'[s] = NoLib
         /\ \A l \in Libs : Cardinality(Holding(l)') =
                             Cardinality(Holding(l)) + IF l = m THEN 1 ELSE 0
<1>1. /\ i \in Slots /\ i \in Nat /\ mods \in [Slots -> Libs \cup {NoLib}]
      /\ mods_count \in 0..i
  BY DEF Sound, TypeOK, ModuleTypes, Slots
<1>2. /\ mods' = [mods EXCEPT ![i] = m] /\ mods_count' = i + 1 /\ i' = i + 1
  BY DEF Store
<1>3. k = 0
  BY DEF Sound, Place, Down
<1>4. \A s \in Slots : s >= mods_count => mods[s] = NoLib
  BY DEF Sound, Place
<1>5. ASSUME NEW l \in Libs
      PROVE  Holding(l)' = IF l = m THEN Holding(l) \cup {i} ELSE Holding(l)
  <2>1. l # NoLib
    OBVIOUS
  <2>2. \A s \in 0..i-1 : s >= mods_count => mods[s] # l
    BY <1>1, <1>4, <2>1 DEF Slots
  <2>3. \A s \in 0..i-1 : mods'[s] = mods[s]
    BY <1>1, <1>2 DEF Slots
  <2>4. mods'[i] = m
    BY <1>1, <1>2
  <2>5. Holding(l)' = {s \in 0..i : mods'[s] = l}
    BY <1>1, <1>2, <1>3 DEF Holding
  <2>6. Holding(l) = {s \in 0..i-1 : mods[s] = l}
    BY <1>1, <1>3, <2>2 DEF Holding
  <2> QED
    BY <1>1, <2>3, <2>4, <2>5, <2>6
<1>6. ASSUME NEW l \in Libs
      PROVE  Cardinality(Holding(l)') = Cardinality(Holding(l)) + IF l = m THEN 1 ELSE 0
  <2>1. IsFiniteSet(Holding(l)) /\ Cardinality(Holding(l)) \in Nat
    BY HoldingFinite, FS_CardinalityType DEF Sound, Place, TypeOK
  <2>2. i \notin Holding(l)
    BY <1>1 DEF Holding
  <2> QED
    BY <1>5, <2>1, <2>2, FS_AddElement
<1> QED
  BY <1>1, <1>2, <1>3, <1>4, <1>6 DEF Slots

\* One handle less, of a library that has one.
LEMMA Closing ==
  ASSUME ModuleTypes, NEW m \in Libs, refs[m] >= 1, dlclose(m)
  PROVE  /\ refs' \in [Libs -> 0..MAX_MODS] /\ base' \in [Libs -> 0..MAX_MODS]
         /\ \A l \in Libs : /\ refs'[l] = refs[l] - IF l = m THEN 1 ELSE 0
                            /\ base'[l] \in {base[l], 0}
         /\ (\A l \in Libs : base[l] = 0 <=> refs[l] = 0)
              => (\A l \in Libs : base'[l] = 0 <=> refs'[l] = 0)
  BY DEF ModuleTypes, dlclose

LEMMA Opening ==
  ASSUME ModuleTypes, NEW m \in Libs, refs[m] < MAX_MODS, i < MAX_MODS, dlopen(m)
  PROVE  /\ refs' \in [Libs -> 0..MAX_MODS] /\ base' \in [Libs -> 0..MAX_MODS]
         /\ \A l \in Libs : refs'[l] = refs[l] + IF l = m THEN 1 ELSE 0
         /\ (\A l \in Libs : base[l] = 0 <=> refs[l] = 0)
              => (\A l \in Libs : base'[l] = 0 <=> refs'[l] = 0)
  BY DEF ModuleTypes, dlopen

\* HandlesCounted, in terms of slots and of the module that is coming up.
Counted ==
  \A l \in Libs : /\ refs[l] >= Cardinality(Holding(l)) + Coming(l)
                  /\ refs[l] = Cardinality(Holding(l)) + Coming(l) \/ mishap
                  /\ base[l] = 0 <=> refs[l] = 0

\* the handles of l that are left when slot i becomes m
Left(l, m) == refs[l] - Coming(l) + IF l = m THEN 1 ELSE 0

\* A line of the load list is read: HandlesCounted is kept, because the module
\* that comes up keeps its handle and the one that fails gives it back.
LEMMA LoadStep ==
  ASSUME Sound, SkipLine \/ CannotLoad \/ OpenLib \/ Fails \/ StartReturns
  PROVE  ModuleTypes' /\ Place' /\ HandlesCounted'
<1>1. ModuleTypes /\ Place
  BY DEF Sound, TypeOK
<1>2. /\ pc \in {"load", "init", "start"} /\ i < MAX_MODS /\ i < Len(list) /\ k = 0
      /\ pc \in {"init", "start"} => Line \in Libs
  BY <1>1 DEF SkipLine, CannotLoad, OpenLib, Fails, StartReturns, HasLine, ModuleTypes,
     Place, Down
<1>3. \A l \in Libs : /\ refs[l] >= Cardinality(Holding(l)) + Coming(l)
                      /\ refs[l] = Cardinality(Holding(l)) + Coming(l) \/ mishap
                      /\ base[l] = 0 <=> refs[l] = 0
                      /\ refs[l] <= i + Coming(l) /\ refs[l] \in Nat
  BY <1>1, <1>2, HoldersAre DEF Sound, HandlesCounted, Place, ModuleTypes
<1>4. \A l \in Libs : Cardinality(Holding(l)) \in Nat
  BY <1>1, HoldingFinite, FS_CardinalityType DEF Place
<1>5. SUFFICES ModuleTypes' /\ Place' /\ Counted'
  BY DEF Counted, HandlesCounted, Holders, Holding, Coming
<1>6. CASE SkipLine
  <2>1. /\ i' = i + 1 /\ pc = "load" /\ pc' = "load"
        /\ UNCHANGED <<list, mods, mods_count, libs, made, k, ghosts>>
    BY <1>6 DEF SkipLine, HasLine
  <2>2. ModuleTypes'
    <3>1. i' \in 0..MAX_MODS /\ mods_count' \in 0..i' /\ pc' \in Control
      BY <1>1, <1>2, <2>1 DEF ModuleTypes
    <3> QED
      BY <1>1, <2>1, <3>1 DEF ModuleTypes, libs, ghosts, made
  <2>3. \A l \in Libs : Holding(l)' = Holding(l) /\ Coming(l)' = 0 /\ Coming(l) = 0
    BY <2>1 DEF Holding, Coming
  <2>4. \A l \in Libs : refs'[l] = refs[l] /\ base'[l] = base[l]
    BY <2>1 DEF libs
  <2>5. Place'
    <3>1. \A l \in Libs : refs'[l] <= i' + Coming(l)' /\ base'[l] <= i' + 1
      BY <1>1, <1>3, <2>1, <2>3, <2>4 DEF ModuleTypes, Place
    <3> QED
      BY <1>1, <2>1, <3>1 DEF Place
  <2> QED
    BY <1>3, <2>1, <2>2, <2>3, <2>4, <2>5 DEF ghosts, Counted
<1>7. CASE OpenLib
  <2>1. /\ Line \in Libs /\ dlopen(Line) /\ pc = "load" /\ pc' = "init"
        /\ UNCHANGED <<list, loader, made, k, ghosts>>
    BY <1>7 DEF OpenLib, HasLine
  <2>2. refs[Line] < MAX_MODS
    BY <1>1, <1>2, <1>3, <2>1 DEF ModuleTypes, Coming
  <2>3. /\ refs' \in [Libs -> 0..MAX_MODS] /\ base' \in [Libs -> 0..MAX_MODS]
        /\ \A l \in Libs : refs'[l] = refs[l] + IF l = Line THEN 1 ELSE 0
        /\ \A l \in Libs : base'[l] = 0 <=> refs'[l] = 0
    BY <1>1, <1>2, <1>3, <2>1, <2>2, Opening
  <2>4. Line' = Line /\ UNCHANGED <<i, mods, mods_count>>
    BY <2>1 DEF Line, loader
  <2>5. ModuleTypes'
    BY <1>1, <1>2, <2>1, <2>3, <2>4 DEF ModuleTypes, Control, ghosts, made
  <2>6. \A l \in Libs : /\ Holding(l)' = Holding(l) /\ Coming(l) = 0
                        /\ Coming(l)' = IF l = Line THEN 1 ELSE 0
    BY <2>1, <2>4 DEF Holding, Coming
  <2>7. Place'
    <3>1. \A l \in Libs : refs'[l] <= i' + Coming(l)' /\ base'[l] <= i' + 1
      BY <1>1, <1>3, <2>1, <2>3, <2>4, <2>6 DEF ModuleTypes, Place, dlopen
    <3> QED
      BY <1>1, <2>1, <2>4, <3>1 DEF Place, Down
  <2> QED
    BY <1>3, <1>4, <2>1, <2>3, <2>5, <2>6, <2>7 DEF ghosts, Counted
<1>8. ASSUME NEW m \in Libs \cup {NoLib}, Store(m), pc' = "load",
             UNCHANGED <<list, k, made, stopped>>, started' \in Seq(Libs),
             failed' \subseteq Mappings, mishap' \in BOOLEAN, mishap => mishap',
             refs' \in [Libs -> 0..MAX_MODS], base' \in [Libs -> 0..MAX_MODS],
             \A l \in Libs : /\ refs'[l] >= Left(l, m) /\ refs'[l] <= refs[l]
                             /\ refs'[l] = Left(l, m) \/ mishap',
             \A l \in Libs : base'[l] \in {base[l], 0} /\ (base'[l] = 0 <=> refs'[l] = 0)
      PROVE  ModuleTypes' /\ Place' /\ Counted'
  <2>1. /\ mods' \in [Slots -> Libs \cup {NoLib}]
        /\ i' \in 0..MAX_MODS /\ i' = i + 1 /\ mods_count' = i + 1 /\ k = 0
        /\ \A s \in Slots : s >= mods_count' => mods'[s] = NoLib
        /\ \A l \in Libs : Cardinality(Holding(l)') =
                            Cardinality(Holding(l)) + IF l = m THEN 1 ELSE 0
    BY <1>2, <1>8, Storing
  <2>2. ModuleTypes'
    BY <1>1, <1>8, <2>1 DEF ModuleTypes, Control, made
  <2>6. \A l \in Libs : /\ refs'[l] <= refs[l] /\ base'[l] \in {base[l], 0}
                        /\ base'[l] = 0 <=> refs'[l] = 0
    BY <1>8
  <2>3. \A l \in Libs : /\ Coming(l)' = 0 /\ Coming(l) \in {0, 1}
                        /\ refs'[l] \in Int /\ refs[l] \in Int
    BY <1>1, <1>8 DEF Coming, ModuleTypes
  <2>4. Place'
    <3>1. i \in Nat /\ k' = 0 /\ mods_count' = i + 1 /\ pc' = "load"
      BY <1>1, <1>8, <2>1 DEF ModuleTypes
    <3>2. \A s \in Slots : s >= mods_count' => mods'[s] = NoLib
      BY <2>1
    <3>3. \A l \in Libs : refs'[l] <= i' + Coming(l)' /\ base'[l] <= i' + 1
      <4> SUFFICES ASSUME NEW l \in Libs
                   PROVE  refs'[l] <= i' + Coming(l)' /\ base'[l] <= i' + 1
        OBVIOUS
      <4>1. refs[l] <= i + Coming(l) /\ refs'[l] <= refs[l]
        BY <1>3, <2>6
      <4>2. base[l] \in Nat /\ base[l] <= i + 1 /\ base'[l] \in {base[l], 0}
        BY <1>1, <2>6 DEF Place, ModuleTypes
      <4> QED
        BY <2>1, <2>3, <3>1, <4>1, <4>2
    <3> QED
      BY <3>1, <3>2, <3>3 DEF Place
  <2>5. ASSUME NEW l \in Libs
        PROVE  /\ refs'[l] >= Cardinality(Holding(l)') + Coming(l)'
               /\ refs'[l] = Cardinality(Holding(l)') + Coming(l)' \/ mishap'
               /\ base'[l] = 0 <=> refs'[l] = 0
    <3>1. /\ Cardinality(Holding(l)') = Cardinality(Holding(l)) + IF l = m THEN 1 ELSE 0
          /\ refs'[l] >= Left(l, m)
          /\ refs'[l] = Left(l, m) \/ mishap'
      BY <1>8, <2>1
    <3>2. /\ refs[l] >= Cardinality(Holding(l)) + Coming(l)
          /\ refs[l] = Cardinality(Holding(l)) + Coming(l) \/ mishap
          /\ Cardinality(Holding(l)) \in Nat
      BY <1>3, <1>4
    <3>3. /\ Coming(l)' = 0 /\ Coming(l) \in {0, 1} /\ refs'[l] \in Int /\ refs[l] \in Int
          /\ mishap => mishap'
      BY <1>8, <2>3
    <3> QED
      BY <2>6, <3>1, <3>2, <3>3 DEF Left
  <2> QED
    BY <2>2, <2>4, <2>5 DEF Counted
<1>9. \A l \in Libs : refs[l] \in Nat /\ l # NoLib /\ Coming(l) \in {0, 1}
  BY <1>1 DEF ModuleTypes, Coming
<1>10. CASE CannotLoad
  <2>1. \A l \in Libs : Coming(l) = 0
    BY <1>10 DEF CannotLoad, HasLine, Coming
  <2>2. /\ Store(NoLib) /\ pc' = "load"
        /\ UNCHANGED <<list, libs, made, k, ghosts>>
    BY <1>10 DEF CannotLoad, HasLine
  <2>3. \A l \in Libs : /\ refs'[l] = Left(l, NoLib) /\ refs'[l] = refs[l]
                        /\ base'[l] \in {base[l], 0} /\ (base'[l] = 0 <=> refs'[l] = 0)
    BY <1>3, <1>9, <2>1, <2>2 DEF libs, Left
  <2>4. /\ refs' \in [Libs -> 0..MAX_MODS] /\ base' \in [Libs -> 0..MAX_MODS]
        /\ failed' \subseteq Mappings /\ mishap' \in BOOLEAN /\ (mishap => mishap')
        /\ started' \in Seq(Libs) /\ UNCHANGED <<list, k, made, stopped>>
    BY <1>1, <2>2 DEF ModuleTypes, libs, ghosts
  <2>5. \A l \in Libs : /\ refs'[l] >= Left(l, NoLib) /\ refs'[l] <= refs[l]
                        /\ refs'[l] = Left(l, NoLib) \/ mishap'
    BY <1>9, <2>3
  <2>6. \A l \in Libs : base'[l] \in {base[l], 0} /\ (base'[l] = 0 <=> refs'[l] = 0)
    BY <2>3
  <2> QED
    BY <1>8, <2>2, <2>4, <2>5, <2>6
<1>11. CASE Fails
  <2>1. /\ Store(NoLib) /\ failed' = failed \cup {i + 1} /\ pc' = "load"
        /\ UNCHANGED <<list, made, k, started, stopped>>
        /\ pc \in {"init", "start"} /\ Line \in Libs
    BY <1>2, <1>11 DEF Fails
  <2>2. failed' \subseteq Mappings
    BY <1>1, <1>2, <2>1 DEF ModuleTypes, Mappings
  <2>3. \A l \in Libs : Left(l, NoLib) = refs[l] - IF l = Line THEN 1 ELSE 0
    BY <1>9, <2>1 DEF Coming, Left
  <2>4. started' \in Seq(Libs)
    BY <1>1, <2>1 DEF ModuleTypes
  <2>5. CASE dlclose(Line) /\ UNCHANGED mishap
    <3>1. /\ refs' \in [Libs -> 0..MAX_MODS] /\ base' \in [Libs -> 0..MAX_MODS]
          /\ \A l \in Libs : refs'[l] = refs[l] - IF l = Line THEN 1 ELSE 0
          /\ \A l \in Libs : base'[l] \in {base[l], 0} /\ (base'[l] = 0 <=> refs'[l] = 0)
      BY <1>1, <1>2, <1>3, <2>1, <2>5, HandlesBounded, Closing
    <3>2. \A l \in Libs : /\ refs'[l] >= Left(l, NoLib) /\ refs'[l] <= refs[l]
                          /\ refs'[l] = Left(l, NoLib) \/ mishap'
      BY <1>9, <2>3, <3>1
    <3>3. mishap' \in BOOLEAN /\ (mishap => mishap')
      BY <1>1, <2>5 DEF ModuleTypes
    <3>4. UNCHANGED <<list, k, made, stopped>>
      BY <2>1
    <3> QED
      BY <1>8, <2>1, <2>2, <2>4, <3>1, <3>2, <3>3, <3>4
  <2>6. CASE StaysOpen
    <3>1. /\ refs' \in [Libs -> 0..MAX_MODS] /\ base' \in [Libs -> 0..MAX_MODS]
          /\ mishap' = TRUE /\ UNCHANGED <<refs, base>>
      BY <1>1, <2>6 DEF StaysOpen, libs, ModuleTypes
    <3>2. \A l \in Libs : /\ refs'[l] >= Left(l, NoLib) /\ refs'[l] <= refs[l]
                          /\ refs'[l] = Left(l, NoLib) \/ mishap'
      BY <1>9, <2>3, <3>1
    <3>3. \A l \in Libs : base'[l] \in {base[l], 0} /\ (base'[l] = 0 <=> refs'[l] = 0)
      BY <1>3, <3>1
    <3>4. UNCHANGED <<list, k, made, stopped>> /\ mishap' \in BOOLEAN /\ (mishap => mishap')
      BY <2>1, <3>1
    <3> QED
      BY <1>8, <2>1, <2>2, <2>4, <3>1, <3>2, <3>3, <3>4
  <2> QED
    BY <1>11, <2>5, <2>6 DEF Fails
<1>12. CASE StartReturns
  <2>1. /\ Store(Line) /\ started' = Append(started, Line) /\ pc' = "load"
        /\ UNCHANGED <<list, libs, made, k, stopped, failed, mishap>>
        /\ pc \in {"init", "start"} /\ Line \in Libs
    BY <1>2, <1>12 DEF StartReturns
  <2>2. \A l \in Libs : Left(l, Line) = refs[l]
    BY <1>9, <2>1 DEF Coming, Left
  <2>3. started' \in Seq(Libs)
    BY <1>1, <2>1 DEF ModuleTypes
  <2>4. /\ refs' \in [Libs -> 0..MAX_MODS] /\ base' \in [Libs -> 0..MAX_MODS]
        /\ \A l \in Libs : base'[l] \in {base[l], 0} /\ (base'[l] = 0 <=> refs'[l] = 0)
        /\ failed' \subseteq Mappings /\ mishap' \in BOOLEAN /\ (mishap => mishap')
    BY <1>1, <1>3, <2>1 DEF ModuleTypes, libs
  <2>5. \A l \in Libs : /\ refs'[l] >= Left(l, Line) /\ refs'[l] <= refs[l]
                        /\ refs'[l] = Left(l, Line) \/ mishap'
    BY <1>9, <2>1, <2>2 DEF libs
  <2>6. UNCHANGED <<list, k, made, stopped>>
    BY <2>1
  <2> QED
    BY <1>8, <2>1, <2>3, <2>4, <2>5, <2>6
<1> QED
  BY <1>6, <1>7, <1>10, <1>11, <1>12

\* One module is taken down: its slot and its handle go together.
LEMMA StopStep ==
  ASSUME Sound, StopReturns
  PROVE  ModuleTypes' /\ Place' /\ HandlesCounted'
<1> DEFINE m == mods[k]
<1>1. ModuleTypes /\ Place
  BY DEF Sound, TypeOK
<1>2. /\ pc = "stop" /\ k \in Nat /\ k < mods_count /\ mods_count \in 0..MAX_MODS
      /\ k \in Slots /\ m \in Libs
  BY <1>1 DEF StopReturns, Place, ModuleTypes, Slots
<1>3. /\ (dlclose(m) /\ mishap' \in {mishap, TRUE}) \/ StaysOpen
      /\ stopped' = Append(stopped, m) /\ k' = k + 1 /\ pc' = "unload"
      /\ UNCHANGED <<list, i, mods, mods_count, made, started, failed>>
  BY DEF StopReturns, loader
<1> HIDE DEF m
<1>4. /\ refs' \in [Libs -> 0..MAX_MODS] /\ base' \in [Libs -> 0..MAX_MODS]
      /\ (\A l \in Libs : refs'[l] = refs[l] - IF l = m THEN 1 ELSE 0)
           \/ (UNCHANGED refs /\ mishap')
      /\ \A l \in Libs : base'[l] \in {base[l], 0} /\ (base'[l] = 0 <=> refs'[l] = 0)
  <2>1. refs[m] >= 1
    BY <1>2, HandlesBounded DEF m
  <2>2. \A l \in Libs : base[l] = 0 <=> refs[l] = 0
    BY <1>2 DEF Sound, HandlesCounted
  <2>3. CASE dlclose(m)
    BY <1>1, <1>2, <2>1, <2>2, <2>3, Closing
  <2>4. CASE StaysOpen
    BY <1>1, <2>2, <2>4 DEF StaysOpen, libs, ModuleTypes
  <2> QED
    BY <1>3, <2>3, <2>4
<1>5. mishap' \in BOOLEAN /\ (mishap => mishap')
  BY <1>1, <1>3 DEF ModuleTypes, StaysOpen
<1>6. ModuleTypes'
  <2>1. stopped' \in Seq(Libs)
    BY <1>1, <1>2, <1>3 DEF ModuleTypes
  <2>2. k' \in 0..MAX_MODS /\ pc' \in Control
    BY <1>2, <1>3 DEF Control
  <2> QED
    BY <1>1, <1>3, <1>4, <1>5, <2>1, <2>2 DEF ModuleTypes, made
<1>7. \A l \in Libs : /\ Coming(l) = 0 /\ Coming(l)' = 0
                      /\ refs[l] \in Nat /\ refs'[l] \in Nat
  BY <1>1, <1>2, <1>3, <1>4 DEF Coming, ModuleTypes
<1>8. Place'
  <2>1. i \in Nat /\ i' = i
    BY <1>1, <1>3 DEF ModuleTypes
  <2>2. ASSUME NEW l \in Libs PROVE refs'[l] <= i' + Coming(l)' /\ base'[l] <= i' + 1
    <3>1. refs[l] <= i /\ base[l] <= i + 1 /\ base[l] \in Nat
      BY <1>1, <1>2, <1>7, <2>1 DEF Place, ModuleTypes
    <3>2. base'[l] \in {base[l], 0}
      BY <1>4
    <3>3. refs'[l] <= refs[l]
      BY <1>4, <1>7
    <3> QED
      BY <1>7, <2>1, <3>1, <3>2, <3>3
  <2> QED
    BY <1>1, <1>2, <1>3, <1>7, <2>2 DEF Place, Down
<1>9. ASSUME NEW l \in Libs
      PROVE  /\ refs'[l] >= Cardinality(Holding(l)')
             /\ refs'[l] = Cardinality(Holding(l)') \/ mishap'
             /\ Cardinality(Holding(l)') \in Int
  <2>1. Holding(l)' = IF l = m THEN Holding(l) \ {k} ELSE Holding(l)
    BY <1>2, <1>3 DEF Holding, m
  <2>2. l = m => k \in Holding(l)
    BY <1>2 DEF Holding, m
  <2>3. IsFiniteSet(Holding(l)) /\ Cardinality(Holding(l)) \in Nat
    BY <1>1, HoldingFinite, FS_CardinalityType DEF Place
  <2>4. Cardinality(Holding(l)') = Cardinality(Holding(l)) - IF l = m THEN 1 ELSE 0
    <3>1. CASE l = m
      <4>1. /\ Holding(l)' = Holding(l) \ {k}
            /\ Cardinality(Holding(l) \ {k}) = Cardinality(Holding(l)) - 1
        BY <2>1, <2>2, <2>3, <3>1, FS_RemoveElement
      <4> QED
        BY <3>1, <4>1
    <3>2. CASE l # m
      BY <2>1, <2>3, <3>2
    <3> QED
      BY <3>1, <3>2
  <2>5. /\ refs[l] >= Cardinality(Holding(l))
        /\ refs[l] = Cardinality(Holding(l)) \/ mishap
    BY <1>2, <1>7, <2>3, HoldersAre DEF Sound, HandlesCounted
  <2>6. refs[l] \in Nat /\ refs'[l] \in Nat
    BY <1>7
  <2>7. refs'[l] = refs[l] - (IF l = m THEN 1 ELSE 0) \/ (refs'[l] = refs[l] /\ mishap')
    BY <1>4
  <2> QED
    BY <1>5, <2>3, <2>4, <2>5, <2>6, <2>7
<1>10. HandlesCounted'
  <2>1. \A l \in Libs : Holders(l)' = Cardinality(Holding(l)')
    <3>1. pc' \notin {"init", "start"}
      BY <1>3
    <3>2. \A l \in Libs : Holders(l)' = Cardinality(Holding(l)') + 0
      BY <3>1 DEF Holders, Holding
    <3> QED
      BY <1>9, <3>2
  <2> QED
    BY <1>4, <1>9, <2>1 DEF HandlesCounted
<1> QED
  BY <1>6, <1>8, <1>10

LEMMA SoundStep == Sound /\ [Next]_vars => Sound'
<1> SUFFICES ASSUME Sound, [Next]_vars PROVE Sound'
  OBVIOUS
<1>1. EventTypes'
  BY EventTypesStep DEF Sound, TypeOK
<1> SUFFICES ModuleTypes' /\ Place' /\ HandlesCounted'
  BY <1>1 DEF Sound, TypeOK
<1>2. pc \in Control /\ mishap \in BOOLEAN
  BY DEF Sound, TypeOK, ModuleTypes
<1>3. CASE SkipLine \/ CannotLoad \/ OpenLib \/ Fails \/ StartReturns
  BY <1>3, LoadStep
<1>4. CASE StopReturns
  BY <1>4, StopStep
<1>5. CASE setup_ox \/ OpenList \/ InitReturns \/ LoadDone
  BY <1>2, <1>5, ModulesKept
  DEF setup_ox, OpenList, InitReturns, LoadDone, Control, Down, ghosts
<1>6. CASE Ready \/ Call \/ WaitFails \/ Cleanup
  BY <1>2, <1>6, ModulesKept DEF Ready, Call, WaitFails, Cleanup, Control, Down, ghosts
<1>7. CASE Fetch \/ Invoke \/ Return \/ Dispatched
  BY <1>2, <1>7, ModulesKept
  DEF Fetch, Invoke, Return, Dispatched, Control, Down, ghosts
<1>8. CASE CallStop
  <2>1. /\ pc = "unload" /\ pc' \in {"stop", "segv"}
        /\ pc' = "stop" => k < mods_count /\ mods[k] # NoLib
        /\ UNCHANGED <<list, loader, libs, made, k, ghosts>>
    BY <1>8 DEF CallStop
  <2> QED
    BY <1>2, <2>1, ModulesKept DEF Control, Down, ghosts
<1>9. CASE Exit \/ StopFails \/ StopSubscribes
  <2>1. /\ pc \in {"unload", "stop"} /\ pc' \in {pc, "segv", "returned"}
        /\ mishap' \in BOOLEAN /\ (mishap => mishap')
    BY <1>2, <1>9 DEF Exit, StopFails, StopSubscribes, ghosts
  <2>2. UNCHANGED <<list, loader, libs, made, k, started, stopped, failed>>
    BY <1>9 DEF Exit, StopFails, StopSubscribes, ghosts
  <2> QED
    <3>1. /\ pc' \in Control
          /\ pc \in {"init", "start"} <=> pc' \in {"init", "start"}
          /\ pc # "segv"
          /\ pc' \in {"setup", "open"} => pc \in {"setup", "open"}
          /\ pc' \notin Down => pc \notin Down
          /\ pc' = "stop" => pc = "stop"
      BY <2>1 DEF Control, Down
    <3> QED
      BY <2>1, <2>2, <3>1, ModulesKept
<1>10. ASSUME UNCHANGED <<list, loader, libs, made, k, pc, started, stopped, failed, mishap>>
       PROVE  ModuleTypes' /\ Place' /\ HandlesCounted'
  <2>1. pc' = pc /\ pc' \in Control /\ mishap' \in BOOLEAN
    BY <1>2, <1>10
  <2>2. UNCHANGED <<list, loader, libs, made, k, started, stopped, failed>>
    BY <1>10
  <2>3. /\ pc \in {"init", "start"} <=> pc' \in {"init", "start"}
        /\ pc' \in {"setup", "open"} => pc \in {"setup", "open"}
        /\ pc' \notin Down => pc \notin Down
        /\ pc' = "stop" => pc = "stop" \/ (k < mods_count /\ mods[k] # NoLib)
        /\ pc' # "segv" => pc # "segv" /\ (pc \in {"init", "start"} => pc' \in {"init", "start"})
        /\ mishap => mishap'
    BY <1>10, <2>1
  <2> QED
    BY <2>1, <2>2, <2>3, ModulesKept
<1>11. CASE OnlyQueue
  BY <1>10, <1>11, QueueOnly DEF ghosts
<1>12. ASSUME NEW t \in Topics, Subscribe(t) PROVE ModuleTypes' /\ Place' /\ HandlesCounted'
  BY <1>10, <1>12 DEF Subscribe, ghosts
<1>13. CASE NoEventSystem
  <2>1. /\ pc' = "segv" /\ pc' \in Control /\ mishap' = mishap
        /\ UNCHANGED <<list, loader, libs, made, k, started, stopped, failed>>
    BY <1>13, OnlyCrashes DEF Control, ghosts
  <2> QED
    BY <1>2, <2>1, ModulesKept DEF Down
<1>14. CASE UNCHANGED vars
  BY <1>10, <1>14 DEF vars, ghosts
<1> QED
  BY <1>3, <1>4, <1>5, <1>6, <1>7, <1>8, <1>9, <1>11, <1>12, <1>13, <1>14
  DEF Next, Main, Load, MainLoop, Unload, OnlyQueue, NoEventSystem

LEMMA StaysSound == Spec => []Sound
<1>1. Init => Sound
  BY SoundInit
<1>2. Sound /\ [Next]_vars => Sound'
  BY SoundStep
<1> QED
  BY <1>1, <1>2, PTL DEF Spec

\* The loader's and the bus's variables keep their types (ox.c, module.c).
THEOREM Typing == Spec => []TypeOK
<1>1. Sound => TypeOK
  BY DEF Sound
<1> QED
  BY <1>1, StaysSound, PTL

\* No library is closed early, and none is left open before a dlclose fails, through
\* every failure and down to the last stop (start_native_module, unload_module).
THEOREM HandlesStayCounted == Spec => []HandlesCounted
<1>1. Sound => HandlesCounted
  BY DEF Sound
<1> QED
  BY <1>1, StaysSound, PTL

-------------------------------------------------------------------------------
(* The code main calls *)

\* The libraries of the module that comes up and of those that are up are mapped.
UsersMapped ==
  /\ pc \in {"init", "start"} => base[Line] # 0
  /\ \A s \in k..mods_count-1 : mods[s] # NoLib => base[mods[s]] # 0

\* what main still has to call is there
CallsReach == pc # "segv" => UsersMapped

LEMMA UsersAreMapped ==
  ASSUME Sound, pc # "segv"
  PROVE  UsersMapped
<1>1. ModuleTypes /\ k <= mods_count
  BY DEF Sound, TypeOK, Place
<1>2. ASSUME pc \in {"init", "start"} PROVE base[Line] # 0
  <2>1. Line \in Libs /\ refs[Line] >= 1
    BY <1>1, <1>2, HandlesBounded DEF ModuleTypes
  <2>2. \A l \in Libs : base[l] = 0 <=> refs[l] = 0
    BY DEF Sound, HandlesCounted
  <2> QED
    BY <1>1, <2>1, <2>2 DEF ModuleTypes
<1>3. ASSUME NEW s \in k..mods_count-1, mods[s] # NoLib PROVE base[mods[s]] # 0
  <2> DEFINE l == mods[s]
  <2>1. l \in Libs /\ s \in Holding(l)
    BY <1>1, <1>3 DEF ModuleTypes, Slots, Holding
  <2>2. Cardinality(Holding(l)) \in Nat \ {0}
    BY <1>1, <2>1, HoldingFinite, FS_EmptySet DEF ModuleTypes
  <2>3. refs[l] >= Cardinality(Holding(l)) + Coming(l) /\ refs[l] \in Nat
    BY <1>1, <2>1, HoldersAre DEF Sound, HandlesCounted, ModuleTypes
  <2>4. refs[l] # 0
    BY <2>2, <2>3 DEF Coming
  <2> QED
    BY <2>1, <2>4 DEF Sound, HandlesCounted
<1> QED
  BY <1>2, <1>3 DEF UsersMapped

\* A step that maps no library anew and fills no slot: what was mapped and is
\* still in use stays where it was.
LEMMA CodeKept ==
  ASSUME Sound, CodeInPlace, pc' # "segv", CallsReach', UNCHANGED list,
         \A l \in Libs : base'[l] \in {base[l], 0},
         pc' \in {"init", "start"} => pc \in {"init", "start"} /\ UNCHANGED i,
         k' >= k, k' \in Nat, mods_count' \in Nat, mods' \in [Slots -> Libs \cup {NoLib}],
         mods_count' <= MAX_MODS,
         \A s \in k'..mods_count'-1 : mods'[s] # NoLib => s < mods_count /\ mods'[s] = mods[s]
  PROVE  CodeInPlace'
<1>1. ModuleTypes
  BY DEF Sound, TypeOK
<1>2. ASSUME pc' \in {"init", "start"} PROVE base'[Line'] \in 1..i'+1
  BY <1>1, <1>2 DEF CodeInPlace, CallsReach, UsersMapped, ModuleTypes, Line
<1>3. ASSUME NEW s \in k'..mods_count'-1, mods'[s] # NoLib PROVE base'[mods'[s]] \in 1..s+1
  <2>1. s < mods_count /\ mods'[s] = mods[s]
    BY <1>3
  <2>2. s \in k..mods_count-1 /\ s \in Slots
    <3>1. s \in Int /\ k <= s /\ 0 <= s
      BY <1>1, <1>3 DEF ModuleTypes
    <3> QED
      BY <1>1, <2>1, <3>1 DEF ModuleTypes, Slots
  <2>3. base[mods[s]] \in 1..s+1 /\ mods[s] \in Libs
    BY <1>1, <1>3, <2>1, <2>2 DEF CodeInPlace, ModuleTypes
  <2>4. base'[mods[s]] # 0
    BY <1>3, <2>1 DEF CallsReach, UsersMapped
  <2> QED
    BY <2>1, <2>3, <2>4
<1> QED
  BY <1>2, <1>3 DEF CodeInPlace

LEMMA CodeStep ==
  ASSUME Sound, CodeInPlace, CallsReach', [Next]_vars
  PROVE  CodeInPlace'
<1>1. ModuleTypes /\ Place
  BY DEF Sound, TypeOK
<1>2. /\ i \in 0..MAX_MODS /\ k \in Nat /\ mods_count \in 0..i /\ k <= mods_count
      /\ mods \in [Slots -> Libs \cup {NoLib}]
      /\ \A s \in Slots : s >= mods_count => mods[s] = NoLib
  BY <1>1 DEF ModuleTypes, Place
<1>3. ASSUME UNCHANGED <<list, i, mods, mods_count, base, k>>,
             pc' \in {"init", "start"} => pc \in {"init", "start"}
      PROVE  CodeInPlace'
  BY <1>3 DEF CodeInPlace, Line
<1>4. CASE setup_ox \/ OpenList \/ InitReturns \/ LoadDone \/ MainLoop \/ WaitFails
  BY <1>3, <1>4 DEF setup_ox, OpenList, InitReturns, LoadDone, MainLoop, Ready, ReadyNull, Call,
     Fetch, Forget, Invoke, Return, Dispatched, Cleanup, WaitFails, loader, libs
<1>5. CASE CallStop \/ StopFails \/ StopSubscribes \/ Exit
  BY <1>3, <1>5 DEF CallStop, StopFails, StopSubscribes, Exit, loader, libs
<1>6. CASE OnlyQueue \/ NoEventSystem \/ \E t \in Topics : Subscribe(t)
  BY <1>3, <1>6, QueueOnly, OnlyCrashes DEF Subscribe, loader, libs
<1>7. ASSUME Store(NoLib), i < MAX_MODS, pc' = "load", UNCHANGED <<list, k>>,
             \A l \in Libs : base'[l] \in {base[l], 0}
      PROVE  CodeInPlace'
  <2>1. /\ mods' = [mods EXCEPT ![i] = NoLib] /\ mods_count' = i + 1
        /\ mods_count' \in 0..MAX_MODS
    BY <1>2, <1>7 DEF Store
  <2>2. \A s \in k'..mods_count'-1 : mods'[s] # NoLib => s < mods_count /\ mods'[s] = mods[s]
    BY <1>2, <1>7, <2>1 DEF Slots
  <2>3. mods' \in [Slots -> Libs \cup {NoLib}]
    BY <1>2, <2>1
  <2>4. /\ k' >= k /\ k' \in Nat /\ mods_count' \in Nat /\ mods_count' <= MAX_MODS
        /\ UNCHANGED list /\ pc' \notin {"init", "start"}
    BY <1>2, <1>7, <2>1
  <2> QED
    BY <1>7, <2>2, <2>3, <2>4, CodeKept
<1>8. CASE SkipLine
  <2>1. /\ pc' = "load" /\ UNCHANGED <<list, mods, mods_count, base, k>>
    BY <1>8 DEF SkipLine, HasLine, libs
  <2> QED
    BY <1>3, <2>1 DEF CodeInPlace
<1>9. CASE CannotLoad
  BY <1>7, <1>9 DEF CannotLoad, HasLine, libs
<1>10. CASE Fails
  <2>1. i < MAX_MODS /\ \A l \in Libs : base'[l] \in {base[l], 0}
    BY <1>1, <1>10 DEF Fails, StaysOpen, dlclose, ModuleTypes, libs
  <2> QED
    BY <1>7, <1>10, <2>1 DEF Fails
<1>11. CASE OpenLib
  <2>1. /\ pc = "load" /\ Line \in Libs /\ dlopen(Line) /\ UNCHANGED <<list, i, mods, mods_count, k>>
    BY <1>11 DEF OpenLib, HasLine, loader
  <2>2. \A l \in Libs : base[l] # 0 => base'[l] = base[l]
    BY <1>1, <2>1 DEF Sound, HandlesCounted, dlopen, ModuleTypes
  <2>3. ASSUME NEW s \in k..mods_count-1, mods[s] # NoLib PROVE base'[mods[s]] \in 1..s+1
    <3>1. base[mods[s]] \in 1..s+1 /\ mods[s] \in Libs
      BY <1>2, <2>3 DEF CodeInPlace, Slots
    <3> QED
      BY <2>2, <3>1
  <2>4. base'[Line] \in 1..i+1
    <3>1. base[Line] \in 0..MAX_MODS /\ base[Line] <= i + 1 /\ refs[Line] \in Nat
      BY <1>1, <2>1 DEF Place, ModuleTypes
    <3>2. base[Line] = 0 <=> refs[Line] = 0
      BY <2>1 DEF Sound, HandlesCounted
    <3>3. base'[Line] = IF refs[Line] = 0 THEN i + 1 ELSE base[Line]
      BY <1>1, <2>1 DEF dlopen, ModuleTypes
    <3> QED
      BY <1>2, <3>1, <3>2, <3>3
  <2>5. Line' = Line
    BY <2>1 DEF Line
  <2> QED
    BY <2>1, <2>3, <2>4, <2>5 DEF CodeInPlace
<1>12. CASE StartReturns
  <2>1. /\ pc = "start" /\ pc' = "load" /\ Store(Line) /\ UNCHANGED <<list, base, k>>
    BY <1>12 DEF StartReturns, libs
  <2>2. i \in Slots /\ base[Line] \in 1..i+1
    BY <1>1, <2>1 DEF CodeInPlace, ModuleTypes, Slots
  <2>3. mods' = [mods EXCEPT ![i] = Line] /\ mods_count' = i + 1
    BY <2>1 DEF Store
  <2>4. ASSUME NEW s \in k..i, mods'[s] # NoLib PROVE base[mods'[s]] \in 1..s+1
    <3>1. s \in Slots /\ mods'[s] = IF s = i THEN Line ELSE mods[s]
      BY <1>2, <2>2, <2>3 DEF Slots
    <3>2. CASE s = i
      BY <2>2, <3>1, <3>2
    <3>3. CASE s # i
      <4>1. s \in k..mods_count-1
        BY <1>2, <2>4, <3>1, <3>3
      <4> QED
        BY <2>4, <3>1, <3>3, <4>1 DEF CodeInPlace
    <3> QED
      BY <3>2, <3>3
  <2> QED
    BY <1>2, <2>1, <2>3, <2>4 DEF CodeInPlace
<1>13. CASE StopReturns
  <2>1. /\ dlclose(mods[k]) \/ UNCHANGED base
        /\ k' = k + 1 /\ pc' = "unload" /\ UNCHANGED <<list, i, mods, mods_count>>
    BY <1>13 DEF StopReturns, StaysOpen, loader, libs
  <2>2. \A l \in Libs : base'[l] \in {base[l], 0}
    BY <1>1, <2>1 DEF dlclose, ModuleTypes
  <2> QED
    BY <1>2, <2>1, <2>2, CodeKept
<1>14. CASE UNCHANGED vars
  BY <1>3, <1>14 DEF vars, loader, libs
<1> QED
  BY <1>4, <1>5, <1>6, <1>8, <1>9, <1>10, <1>11, <1>12, <1>13, <1>14
  DEF Next, Main, Load, Unload, OnlyQueue, NoEventSystem

\* ox_init, start and stop are called where dlsym found them, however libraries
\* are shared and whichever modules fail (start_native_module, unload_module).
THEOREM CodeStaysInPlace == Spec => []CodeInPlace
<1>1. Init => CodeInPlace
  BY DEF Init, CodeInPlace
<1>2. Sound => CallsReach
  BY UsersAreMapped DEF CallsReach
<1>3. Sound /\ CodeInPlace /\ CallsReach' /\ [Next]_vars => CodeInPlace'
  BY CodeStep
<1> QED
  BY <1>1, <1>2, <1>3, StaysSound, PTL DEF Spec

-------------------------------------------------------------------------------
(* Callbacks, and what a crash needs *)

\* A line that failed has an empty slot among the ones in use; a module that
\* is coming up and shares its library with nobody mapped it itself, so that
\* closing it again takes away no other module's callbacks.
Callbacks ==
  /\ \A f \in failed : f - 1 < mods_count /\ mods[f - 1] = NoLib
  /\ pc \in {"init", "start"} /\ refs[Line] = 1 => base[Line] = i + 1
  /\ OnlyFailedDangle

\* a callback that can be called, or whose line failed
Excused(cb) == Mapped(cb) \/ cb \in failed

LEMMA CallbacksInit == Init => Callbacks
  BY DEF Init, Callbacks, OnlyFailedDangle, Bus!Init

\* A step that leaves libraries, slots and subscriptions alone.
LEMMA CallbacksKept ==
  ASSUME Callbacks, UNCHANGED <<list, i, mods, mods_count, libs, failed, registered>>,
         pc' \in {"init", "start"} => pc \in {"init", "start"},
         pc' \notin Down => pc \notin Down
  PROVE  Callbacks'
  BY DEF Callbacks, OnlyFailedDangle, Mapped, libs, Line, Down

\* A subscription is made for a callback that can be called, or that another
\* subscription has already.
LEMMA SubscribingExcused ==
  ASSUME Sound, Callbacks, NEW t \in Topics, NEW cb \in {quit_handler} \cup Mappings,
         Bus!Subscribe(t, cb), pc \notin Down => Excused(cb),
         UNCHANGED <<list, i, mods, mods_count, libs, failed>>,
         pc' \in {"init", "start"} => pc \in {"init", "start"},
         pc' \notin Down => pc \notin Down
  PROVE  Callbacks'
<1>1. EventTypes
  BY DEF Sound, TypeOK
<1>2. /\ DOMAIN registered' = DOMAIN registered \cup {Len(registered) + 1}
      /\ \A j \in DOMAIN registered : registered'[j] = registered[j]
      /\ registered'[Len(registered) + 1] = [topic |-> t, callback |-> cb]
  BY <1>1, Subscribing
<1>3. ASSUME pc' \notin Down, NEW j \in DOMAIN registered'
      PROVE  Excused(registered'[j].callback)
  <2>1. CASE j \in DOMAIN registered
    BY <1>2, <1>3, <2>1 DEF Callbacks, OnlyFailedDangle, Down, Excused
  <2>2. CASE j = Len(registered) + 1
    BY <1>2, <1>3, <2>2
  <2> QED
    BY <1>2, <2>1, <2>2
<1>4. \A c : Excused(c)' <=> Mapped(c) \/ c \in failed
  BY DEF Excused, Mapped, libs
<1> QED
  BY <1>3, <1>4 DEF Callbacks, OnlyFailedDangle, Down, Excused, Mapped, libs, Line

LEMMA CallbacksStep == Sound /\ Callbacks /\ [Next]_vars => Callbacks'
<1> SUFFICES ASSUME Sound, Callbacks, [Next]_vars PROVE Callbacks'
  OBVIOUS
<1>1. ModuleTypes /\ EventTypes /\ Place
  BY DEF Sound, TypeOK
<1>2. CASE UNCHANGED <<list, i, mods, mods_count, libs, failed, registered, pc>>
  BY <1>2, CallbacksKept
<1>3. CASE setup_ox \/ OpenList \/ InitReturns \/ LoadDone \/ Call \/ WaitFails \/ Cleanup
  BY <1>3, CallbacksKept DEF setup_ox, OpenList, InitReturns, LoadDone, Call, WaitFails,
     Cleanup, loader, bus, ghosts, Down
<1>4. CASE Fetch \/ Invoke \/ Return \/ Dispatched
  <2>1. /\ UNCHANGED <<list, i, mods, mods_count, libs, failed, registered>>
        /\ pc \in {"wait", "dispatch"} /\ pc' \in {"dispatch", "loop", "segv"}
    BY <1>1, <1>4, Taking DEF Fetch, Invoke, Return, Dispatched, Bus!Begin, Bus!Return,
       Bus!End, loader, bus, ghosts
  <2> QED
    BY <2>1, CallbacksKept DEF Down
<1>5. CASE CallStop \/ Exit \/ StopFails \/ StopSubscribes
  BY <1>5, CallbacksKept DEF CallStop, Exit, StopFails, StopSubscribes, loader, bus,
     ghosts, Down
<1>6. CASE StopReturns
  BY <1>6 DEF StopReturns, Callbacks, OnlyFailedDangle, loader
<1>7. ASSUME NEW t \in Topics, Subscribe(t) PROVE Callbacks'
  <2>1. /\ Running # 0 /\ Bus!Subscribe(t, Running)
        /\ UNCHANGED <<list, i, mods, mods_count, libs, failed, pc>>
    BY <1>7 DEF Subscribe, loader, ghosts
  <2>2. CASE pc \in {"init", "start"}
    <3>1. Running = base[Line] /\ Line \in Libs
      BY <1>1, <2>2 DEF Running, ModuleTypes
    <3> QED
      BY <1>1, <2>1, <3>1, RunningTyped, SubscribingExcused DEF Excused, Mapped
  <2>3. CASE pc = "dispatch"
    <3>1. running # 0 /\ Running = registered[running].callback
      BY <2>1, <2>3 DEF Running
    <3>2. pc \notin Down => Excused(Running)
      BY <1>1, <3>1 DEF EventTypes, Callbacks, OnlyFailedDangle, Excused, Down
    <3> QED
      BY <1>1, <2>1, <3>2, RunningTyped, SubscribingExcused
  <2> QED
    BY <2>1, <2>2, <2>3 DEF Running
<1>8. CASE Ready
  BY <1>8, SubscribingExcused DEF Ready, Excused, Mapped, loader, ghosts, Down
<1>9. ASSUME pc' = "load", pc \notin Down, UNCHANGED <<libs, failed, registered>>,
             \A s \in 0..mods_count-1 : mods'[s] = mods[s],
             mods_count' \in Nat, mods_count' >= mods_count
      PROVE  Callbacks'
  <2>1. \A f \in failed : f - 1 \in 0..mods_count-1
    BY <1>1 DEF Callbacks, ModuleTypes, Mappings
  <2>2. ASSUME NEW f \in failed' PROVE f - 1 < mods_count' /\ mods'[f - 1] = NoLib
    <3>1. f \in failed /\ f - 1 \in 0..mods_count-1 /\ mods_count \in Nat
      BY <1>1, <1>9, <2>1, <2>2 DEF ModuleTypes
    <3>2. mods'[f - 1] = mods[f - 1] /\ mods[f - 1] = NoLib
      BY <1>9, <3>1 DEF Callbacks
    <3> QED
      BY <1>9, <3>1, <3>2
  <2>3. OnlyFailedDangle'
    BY <1>9 DEF Callbacks, OnlyFailedDangle, Mapped, libs, Down
  <2> QED
    BY <1>9, <2>2, <2>3 DEF Callbacks
<1>10. ASSUME NEW m, Store(m)
       PROVE  /\ \A s \in 0..mods_count-1 : mods'[s] = mods[s]
              /\ mods_count' \in Nat /\ mods_count' >= mods_count /\ mods_count' = i + 1
  BY <1>1, <1>10 DEF Store, ModuleTypes, Slots
<1>11. CASE SkipLine
  BY <1>1, <1>9, <1>11 DEF SkipLine, HasLine, Down, ModuleTypes, ghosts, bus
<1>12. CASE CannotLoad
  <2>1. /\ Store(NoLib) /\ pc = "load" /\ pc' = "load"
        /\ UNCHANGED <<libs, failed, registered>>
    BY <1>12 DEF CannotLoad, HasLine, ghosts, bus
  <2> QED
    BY <1>9, <1>10, <2>1 DEF Down
<1>13. CASE StartReturns
  <2>1. /\ Store(Line) /\ pc = "start" /\ pc' = "load"
        /\ UNCHANGED <<libs, failed, registered>>
    BY <1>13 DEF StartReturns, bus
  <2> QED
    BY <1>9, <1>10, <2>1 DEF Down
<1>14. CASE OpenLib
  <2>1. /\ Line \in Libs /\ dlopen(Line) /\ pc = "load" /\ pc' = "init"
        /\ UNCHANGED <<list, i, mods, mods_count, failed, registered>>
    BY <1>14 DEF OpenLib, HasLine, loader, ghosts, bus
  <2>2. \A l \in Libs : base[l] = 0 <=> refs[l] = 0
    BY <2>1 DEF Sound, HandlesCounted
  <2>3. \A l \in Libs : base[l] = 0 \/ base'[l] = base[l]
    BY <1>1, <2>1, <2>2 DEF dlopen, ModuleTypes
  <2>4. \A c : Mapped(c) => Mapped(c)'
    BY <2>3 DEF Mapped, quit_handler
  <2>5. Line' = Line /\ (refs'[Line] = 1 => base'[Line] = i + 1)
    BY <1>1, <2>1 DEF dlopen, ModuleTypes, Line
  <2> QED
    BY <2>1, <2>4, <2>5 DEF Callbacks, OnlyFailedDangle, Down
<1>15. CASE Fails
  <2>1. /\ pc \in {"init", "start"} /\ Store(NoLib) /\ pc' = "load"
        /\ dlclose(Line) \/ UNCHANGED base
        /\ failed' = failed \cup {i + 1} /\ UNCHANGED registered
    BY <1>15 DEF Fails, StaysOpen, libs, bus
  <2>2. \A l \in Libs : base'[l] = base[l] \/ base[l] = i + 1
    BY <1>1, <2>1 DEF dlclose, Callbacks, ModuleTypes
  <2>3. \A c : Excused(c) => Excused(c)'
    BY <2>1, <2>2 DEF Excused, Mapped
  <2>4. OnlyFailedDangle'
    BY <2>1, <2>3 DEF Callbacks, OnlyFailedDangle, Excused
  <2>5. ASSUME NEW f \in failed' PROVE f - 1 < mods_count' /\ mods'[f - 1] = NoLib
    <3>1. CASE f \in failed
      <4>1. f - 1 \in 0..mods_count-1
        BY <1>1, <3>1 DEF Callbacks, ModuleTypes, Mappings
      <4>2. /\ mods'[f - 1] = mods[f - 1] /\ mods_count \in Nat
            /\ mods_count' \in Nat /\ mods_count' >= mods_count
        BY <1>1, <1>10, <2>1, <4>1 DEF ModuleTypes
      <4> QED
        BY <3>1, <4>1, <4>2 DEF Callbacks
    <3>2. CASE f = i + 1
      BY <1>1, <2>1, <3>2 DEF Store, ModuleTypes, Slots
    <3> QED
      BY <2>1, <2>5, <3>1, <3>2
  <2> QED
    BY <2>1, <2>4, <2>5 DEF Callbacks
<1>16. CASE OnlyQueue
  BY <1>2, <1>16, QueueOnly DEF loader, ghosts, bus
<1>17. CASE NoEventSystem
  BY <1>17, OnlyCrashes, CallbacksKept DEF loader, ghosts, bus, Down
<1>18. CASE UNCHANGED vars
  BY <1>2, <1>18 DEF vars, loader, ghosts, bus
<1> QED
  BY <1>3, <1>4, <1>5, <1>6, <1>7, <1>8, <1>11, <1>12, <1>13, <1>14, <1>15, <1>16, <1>17, <1>18
  DEF Next, Main, Load, MainLoop, Unload, OnlyQueue, NoEventSystem

\* The one subscription whose library is gone is that of a module that failed:
\* no other module's callbacks are closed under it (start_native_module).
THEOREM OnlyFailedStayDangling == Spec => []OnlyFailedDangle
<1>1. Init => Sound /\ Callbacks
  BY SoundInit, CallbacksInit
<1>2. Sound /\ Callbacks /\ [Next]_vars => (Sound /\ Callbacks)'
  BY SoundStep, CallbacksStep
<1>3. Sound /\ Callbacks => OnlyFailedDangle
  BY DEF Callbacks
<1> QED
  BY <1>1, <1>2, <1>3, PTL DEF Spec

\* A gap stays: slots below mods_count are not written again.
LEMMA GapStays == Sound /\ Gap /\ [Next]_vars => Gap'
<1> SUFFICES ASSUME Sound, Gap, [Next]_vars PROVE Gap'
  OBVIOUS
<1>1. ModuleTypes
  BY DEF Sound, TypeOK
<1>2. CASE UNCHANGED <<mods, mods_count>>
  BY <1>2 DEF Gap
<1>3. ASSUME NEW m, Store(m) PROVE Gap'
  BY <1>1, <1>3 DEF Store, Gap, ModuleTypes, Slots
<1>4. CASE CannotLoad \/ Fails \/ StartReturns
  BY <1>3, <1>4 DEF CannotLoad, Fails, StartReturns
<1>5. CASE OnlyQueue \/ NoEventSystem
  BY <1>2, <1>5, QueueOnly, OnlyCrashes DEF loader
<1> QED
  BY <1>2, <1>4, <1>5 DEF Next, Main, Load, MainLoop, Unload, setup_ox, OpenList, SkipLine,
     OpenLib, InitReturns, LoadDone, Ready, Call, Fetch, Invoke, Return, Dispatched,
     Cleanup, CallStop, StopFails, StopReturns, Exit, WaitFails, Subscribe,
     StopSubscribes, vars, loader, OnlyQueue, NoEventSystem

LEMMA CrashStep == Sound /\ Callbacks /\ CrashNeedsGap /\ [Next]_vars => CrashNeedsGap'
<1> SUFFICES ASSUME Sound, Callbacks, [Next]_vars, pc' = "segv",
                    pc = "segv" => ~event_system \/ ~display \/ Gap \/ mishap
             PROVE  ~event_system' \/ ~display' \/ Gap' \/ mishap'
  BY DEF CrashNeedsGap
<1>1. ModuleTypes /\ EventTypes /\ Place
  BY DEF Sound, TypeOK
<1>2. CASE UNCHANGED <<pc, made, mishap>>
  BY <1>2, GapStays DEF made
<1>3. CASE Ready \/ NoEventSystem
  BY <1>3, OnlyCrashes DEF Ready, made
<1>4. CASE StopFails \/ StopSubscribes
  BY <1>4 DEF StopFails, StopSubscribes
<1>5. CASE StopReturns
  BY <1>5 DEF StopReturns
<1>6. CASE CallStop
  <2>1. k \in 0..mods_count-1 /\ mods[k] = NoLib
    BY <1>1, <1>6 DEF CallStop, ModuleTypes
  <2> QED
    BY <2>1, GapStays DEF Gap
<1>7. CASE Invoke
  <2>1. pc = "dispatch" /\ running' \in DOMAIN registered
    BY <1>1, <1>7, Taking DEF Invoke, EventTypes
  <2>2. ~Mapped(registered[running'].callback)
    BY <1>7, <2>1 DEF Invoke
  <2>3. PICK f \in failed : f - 1 < mods_count /\ mods[f - 1] = NoLib
    BY <2>1, <2>2 DEF Callbacks, OnlyFailedDangle
  <2>4. f - 1 \in 0..mods_count-1
    BY <1>1, <2>3 DEF ModuleTypes, Mappings
  <2> QED
    BY <2>3, <2>4, GapStays DEF Gap
<1>8. CASE OnlyQueue
  BY <1>2, <1>8, QueueOnly DEF ghosts
<1> QED
  BY <1>2, <1>3, <1>4, <1>5, <1>6, <1>7, <1>8
  DEF Next, Main, Load, MainLoop, Unload, setup_ox, OpenList, SkipLine, CannotLoad,
     OpenLib, InitReturns, Fails, StartReturns, LoadDone, Call, Fetch, Return,
     Dispatched, Cleanup, Exit, WaitFails, Subscribe, vars, ghosts, OnlyQueue, NoEventSystem

\* A crash takes a missing event system or display, a line that left a gap, or a
\* stop or dlclose that fails, or a stop that subscribes (main, load_modules,
\* unload_module).
THEOREM CrashesNeedGap == Spec => []CrashNeedsGap
<1>1. Init => Sound /\ Callbacks /\ CrashNeedsGap
  BY SoundInit, CallbacksInit DEF Init, CrashNeedsGap
<1>2. Sound /\ Callbacks /\ CrashNeedsGap /\ [Next]_vars
        => (Sound /\ Callbacks /\ CrashNeedsGap)'
  BY SoundStep, CallbacksStep, CrashStep
<1> QED
  BY <1>1, <1>2, PTL DEF Spec

-------------------------------------------------------------------------------
(* Quitting *)

\* Whoever has not heard of the event being dispatched is still to be called, and
\* nobody is left when a dispatch is over.
Quits ==
  /\ pc = "dispatch" => unheard \subseteq todo
  /\ pc \notin {"dispatch", "segv"} => unheard = {}

LEMMA QuitsInit == Init => Quits
  BY DEF Init, Quits

LEMMA QuitsStep == Sound /\ Quits /\ [Next]_vars => Quits'
<1> SUFFICES ASSUME Sound, Quits, [Next]_vars PROVE Quits'
  OBVIOUS
<1>1. EventTypes
  BY DEF Sound, TypeOK
<1>2. ASSUME UNCHANGED unheard, pc' = "dispatch" => pc = "dispatch" /\ UNCHANGED todo,
             pc' \notin {"dispatch", "segv"} => pc \notin {"dispatch", "segv"}
      PROVE  Quits'
  BY <1>2 DEF Quits
<1>3. CASE setup_ox \/ Load \/ Unload \/ StopSubscribes
  BY <1>2, <1>3 DEF setup_ox, Load, OpenList, SkipLine, CannotLoad, OpenLib, InitReturns,
     Fails, StartReturns, LoadDone, HasLine, Unload, CallStop, StopFails, StopReturns, Exit,
     StopSubscribes, ghosts
<1>4. CASE Ready \/ Call \/ WaitFails \/ Cleanup
  BY <1>2, <1>4 DEF Ready, Call, WaitFails, Cleanup, ghosts
<1>5. CASE OnlyQueue
  BY <1>2, <1>5, QueueOnly DEF ghosts, bus
<1>6. CASE NoEventSystem
  BY <1>2, <1>6, OnlyCrashes DEF ghosts
<1>7. ASSUME NEW t \in Topics, Subscribe(t) PROVE Quits'
  BY <1>2, <1>7 DEF Subscribe, Bus!Subscribe, ghosts
<1>8. CASE Fetch
  BY <1>8 DEF Fetch, Quits
<1>9. CASE Invoke
  <2>1. /\ pc = "dispatch" /\ pc' \in {"dispatch", "segv"}
        /\ unheard' = unheard \ {running'} /\ todo' = todo \ {running'}
    BY <1>1, <1>9, Taking DEF Invoke
  <2> QED
    BY <2>1 DEF Quits
<1>10. CASE Return
  BY <1>2, <1>10 DEF Return, Bus!Return, ghosts
<1>11. CASE Dispatched
  <2>1. /\ pc = "dispatch" /\ pc' = "loop" /\ todo = {} /\ UNCHANGED unheard
    BY <1>11 DEF Dispatched, Bus!End, ghosts
  <2> QED
    BY <2>1 DEF Quits
<1>12. CASE UNCHANGED vars
  BY <1>2, <1>12 DEF vars, ghosts, bus
<1> QED
  BY <1>3, <1>4, <1>5, <1>6, <1>7, <1>8, <1>9, <1>10, <1>11, <1>12
  DEF Next, Main, MainLoop, OnlyQueue, NoEventSystem

\* Modules go down only after every subscriber of the last event was called: the
\* flag its quit_handler sets does not cut the dispatch short (main, quit_handler,
\* oxi_dispatch_next).
THEOREM QuitIsHeard == Spec => []QuitHeard
<1>1. Init => Sound /\ Quits
  BY SoundInit, QuitsInit
<1>2. Sound /\ Quits /\ [Next]_vars => (Sound /\ Quits)'
  BY SoundStep, QuitsStep
<1>3. Quits => QuitHeard
  BY DEF Quits, QuitHeard
<1> QED
  BY <1>1, <1>2, <1>3, PTL DEF Spec

\* subscription j is the kernel's own
IsHandler(j) == registered[j].callback = quit_handler /\ registered[j].topic = QUIT

\* The kernel's handler is subscribed before the first event is taken, and the
\* dispatch of a quit event still has to reach it, is in it, or has done so.
Heeding ==
  /\ pc \in {"loop", "wait", "dispatch"} => \E j \in DOMAIN registered : IsHandler(j)
  /\ pc = "dispatch" /\ current = QUIT =>
       should_exit \/ \E j \in DOMAIN registered : IsHandler(j) /\ (j \in todo \/ running = j)

LEMMA HeedingInit == Init => Heeding
  BY DEF Init, Heeding

LEMMA HeedingKept ==
  ASSUME Heeding, UNCHANGED <<should_exit, bus>>, pc' = "dispatch" => pc = "dispatch",
         pc' \in {"loop", "wait"} => pc \in {"loop", "wait"}
  PROVE  Heeding'
  BY DEF Heeding, IsHandler, bus

LEMMA HeedingStep == Sound /\ Heeding /\ [Next]_vars => Heeding'
<1> SUFFICES ASSUME Sound, Heeding, [Next]_vars PROVE Heeding'
  OBVIOUS
<1>1. EventTypes /\ DOMAIN registered \subseteq Nat \ {0}
  BY LenProperties DEF Sound, TypeOK, EventTypes
<1>2. CASE setup_ox \/ Load \/ Unload \/ StopSubscribes
  <2>1. pc' \notin {"loop", "wait", "dispatch"}
    BY <1>2 DEF setup_ox, Load, OpenList, SkipLine, CannotLoad, OpenLib, InitReturns, Fails,
       StartReturns, LoadDone, HasLine, Unload, CallStop, StopFails, StopReturns, Exit,
       StopSubscribes
  <2> QED
    BY <2>1 DEF Heeding
<1>3. CASE Call \/ WaitFails \/ Cleanup \/ OnlyQueue
  BY <1>3, HeedingKept, QueueOnly DEF Call, WaitFails, Cleanup
<1>4. CASE Ready
  <2>1. /\ DOMAIN registered' = DOMAIN registered \cup {Len(registered) + 1}
        /\ registered'[Len(registered) + 1] = [topic |-> QUIT, callback |-> quit_handler]
    BY <1>1, <1>4, Subscribing DEF Ready
  <2>2. pc' # "dispatch"
    BY <1>4 DEF Ready
  <2> QED
    BY <2>1, <2>2 DEF Heeding, IsHandler
<1>5. ASSUME NEW t \in Topics, Subscribe(t) PROVE Heeding'
  <2>1. /\ DOMAIN registered \subseteq DOMAIN registered'
        /\ \A j \in DOMAIN registered : registered'[j] = registered[j]
    BY <1>1, <1>5, RunningTyped, Subscribing DEF Subscribe, Sound, TypeOK
  <2>2. UNCHANGED <<pc, should_exit, current, todo, running>>
    BY <1>5 DEF Subscribe, Bus!Subscribe
  <2> QED
    BY <2>1, <2>2 DEF Heeding, IsHandler
<1>6. CASE Fetch
  <2>1. /\ pc = "wait" /\ UNCHANGED registered
        /\ todo' = {n \in 1..Len(registered) : registered[n].topic = current'}
    BY <1>6 DEF Fetch, Bus!Begin
  <2>2. DOMAIN registered = 1..Len(registered)
    BY <1>1, LenProperties DEF EventTypes
  <2> QED
    BY <2>1, <2>2 DEF Heeding, IsHandler
<1>7. CASE Invoke
  <2>1. /\ pc = "dispatch" /\ pc' \in {"dispatch", "segv"} /\ running = 0
        /\ todo' = todo \ {running'} /\ UNCHANGED <<should_exit, registered, current>>
    BY <1>1, <1>7, Taking DEF Invoke
  <2> QED
    BY <1>1, <2>1 DEF Heeding, IsHandler
<1>8. CASE Return
  <2>1. /\ pc = "dispatch" /\ UNCHANGED <<pc, registered, current, todo>>
        /\ should_exit' = (should_exit \/ registered[running].callback = quit_handler)
    BY <1>8 DEF Return, Bus!Return
  <2>2. \E j \in DOMAIN registered' : IsHandler(j)'
    BY <2>1 DEF Heeding, IsHandler
  <2>3. ASSUME current = QUIT, ~should_exit'
        PROVE  \E j \in DOMAIN registered : IsHandler(j) /\ j \in todo
    BY <2>1, <2>3 DEF Heeding, IsHandler
  <2> QED
    BY <2>1, <2>2, <2>3 DEF Heeding, IsHandler
<1>9. CASE Dispatched
  <2>1. pc = "dispatch" /\ pc' = "loop" /\ UNCHANGED registered
    BY <1>9 DEF Dispatched, Bus!End
  <2> QED
    BY <2>1 DEF Heeding, IsHandler
<1>10. CASE NoEventSystem
  BY <1>10, OnlyCrashes DEF Heeding
<1>11. CASE UNCHANGED vars
  BY <1>11, HeedingKept DEF vars
<1> QED
  BY <1>2, <1>3, <1>4, <1>5, <1>6, <1>7, <1>8, <1>9, <1>10, <1>11
  DEF Next, Main, MainLoop, OnlyQueue, NoEventSystem

\* Only oxi_dispatch_next's own return leaves a dispatch for the loop, and by
\* then nobody is left to be called.
LEMMA LeavingDispatch ==
  ASSUME Sound, [Next]_vars, pc = "dispatch", pc' = "loop"
  PROVE  running = 0 /\ todo = {}
<1>1. CASE Dispatched
  BY <1>1 DEF Dispatched, Bus!End
<1>2. \A t \in Topics : ~Subscribe(t)
  BY DEF Subscribe
<1>3. ~OnlyQueue /\ ~NoEventSystem /\ ~Invoke /\ ~Return /\ ~UNCHANGED vars
  BY QueueOnly, OnlyCrashes DEF Invoke, Return, vars
<1>4. ~setup_ox /\ ~Load /\ ~Unload /\ ~WaitFails /\ ~StopSubscribes
  BY DEF setup_ox, Load, OpenList, SkipLine, CannotLoad, OpenLib, InitReturns, Fails,
     StartReturns, LoadDone, HasLine, Unload, CallStop, StopFails, StopReturns, Exit,
     WaitFails, StopSubscribes
<1>5. ~Ready /\ ~Call /\ ~Fetch /\ ~Cleanup
  BY DEF Ready, Call, Fetch, Cleanup
<1> QED
  BY <1>1, <1>2, <1>3, <1>4, <1>5 DEF Next, Main, MainLoop, OnlyQueue, NoEventSystem

\* An event decoded as a quit event makes main stop, whatever modules did before
\* and do during the dispatch (main, quit_handler, oxi_dispatch_next).
THEOREM QuitIsHeeded == Spec => QuitHeeded
<1>1. Init => Sound /\ Heeding
  BY SoundInit, HeedingInit
<1>2. Sound /\ Heeding /\ [Next]_vars => (Sound /\ Heeding)'
  BY SoundStep, HeedingStep
<1>3. Sound /\ Heeding /\ [Next]_vars
        => [pc = "dispatch" /\ pc' = "loop" /\ current = QUIT => should_exit]_vars
  <2> SUFFICES ASSUME Sound, Heeding, [Next]_vars,
                      pc = "dispatch", pc' = "loop", current = QUIT
               PROVE  should_exit
    OBVIOUS
  <2>1. running = 0 /\ todo = {}
    BY LeavingDispatch
  <2>2. 0 \notin DOMAIN registered
    BY LenProperties DEF Sound, TypeOK, EventTypes
  <2> QED
    BY <2>1, <2>2 DEF Heeding
<1> QED
  BY <1>1, <1>2, <1>3, PTL DEF Spec, QuitHeeded

-------------------------------------------------------------------------------
(* Shutting down *)

\* Without a gap the modules that were started are the slots, in order; the
\* ones that were stopped are the first k slots, none of them a gap.
Ordered ==
  /\ ~Gap => /\ Len(started) = mods_count
             /\ \A n \in 1..mods_count : started[n] = mods[n - 1]
  /\ Len(stopped) = k
  /\ \A n \in 1..k : stopped[n] = mods[n - 1] /\ mods[n - 1] # NoLib
  /\ pc = "returned" => k = mods_count

LEMMA OrderedInit == Init => Ordered
  BY EmptySeq DEF Init, Ordered

LEMMA OrderedKept ==
  ASSUME Ordered, UNCHANGED <<mods, mods_count, k, started, stopped>>,
         pc' = "returned" => k = mods_count
  PROVE  Ordered'
  BY DEF Ordered, Gap

LEMMA OrderedStep == Sound /\ Ordered /\ [Next]_vars => Ordered'
<1> SUFFICES ASSUME Sound, Ordered, [Next]_vars PROVE Ordered'
  OBVIOUS
<1>1. ModuleTypes /\ Place
  BY DEF Sound, TypeOK
<1>2. /\ i \in Nat /\ k \in Nat /\ mods_count \in 0..i
      /\ mods \in [Slots -> Libs \cup {NoLib}]
      /\ started \in Seq(Libs) /\ stopped \in Seq(Libs)
  BY <1>1 DEF ModuleTypes
<1>3. CASE setup_ox \/ OpenList \/ OpenLib \/ InitReturns \/ LoadDone
  <2>1. UNCHANGED <<mods, mods_count, k, started, stopped>>
    BY <1>3 DEF setup_ox, OpenList, OpenLib, InitReturns, LoadDone, loader, ghosts
  <2>2. pc' = "returned" => pc \in {"setup", "open"}
    BY <1>3 DEF setup_ox, OpenList, OpenLib, InitReturns, LoadDone
  <2>3. pc \in {"setup", "open"} => k = 0 /\ mods_count = 0
    BY <1>1, <1>2 DEF Place, Down
  <2> QED
    BY <2>1, <2>2, <2>3, OrderedKept
<1>4. CASE SkipLine \/ MainLoop \/ WaitFails \/ CallStop \/ StopFails \/ StopSubscribes
  <2>1. UNCHANGED <<mods, mods_count, k, started, stopped>>
    BY <1>4 DEF SkipLine, MainLoop, Ready, ReadyNull, Call, Fetch, Forget, Invoke, Return,
       Dispatched, Cleanup, WaitFails, CallStop, StopFails, StopSubscribes, loader, ghosts
  <2>2. pc' # "returned"
    BY <1>4 DEF SkipLine, HasLine, MainLoop, Ready, ReadyNull, Call, Fetch, Forget, Invoke,
       Return, Dispatched, Cleanup, WaitFails, CallStop, StopFails, StopSubscribes
  <2> QED
    BY <2>1, <2>2, OrderedKept
<1>5. CASE OnlyQueue \/ NoEventSystem \/ \E t \in Topics : Subscribe(t)
  <2>1. /\ UNCHANGED <<mods, mods_count, k, started, stopped>>
        /\ pc' = "returned" => pc = "returned"
    BY <1>5, QueueOnly, OnlyCrashes DEF Subscribe, loader, ghosts
  <2> QED
    BY <2>1, OrderedKept DEF Ordered
<1>6. CASE Exit
  BY <1>1, <1>2, <1>6, OrderedKept DEF Exit, Place, loader, ghosts
<1>7. ASSUME Store(NoLib), i < MAX_MODS, pc' = "load", pc \notin Down, UNCHANGED <<k, stopped>>
      PROVE  Ordered'
  <2>1. i \in 0..mods_count'-1 /\ mods'[i] = NoLib /\ k = 0
    BY <1>1, <1>2, <1>7 DEF Store, Place, ModuleTypes, Slots
  <2>2. Gap'
    BY <2>1 DEF Gap
  <2> QED
    BY <1>7, <2>1, <2>2 DEF Ordered
<1>8. CASE CannotLoad \/ Fails
  <2>1. /\ Store(NoLib) /\ pc' = "load" /\ pc \notin Down /\ UNCHANGED <<k, stopped>>
        /\ i < MAX_MODS
    BY <1>1, <1>8 DEF CannotLoad, Fails, HasLine, Down, ghosts, ModuleTypes
  <2> QED
    BY <1>7, <2>1
<1>9. CASE StartReturns
  <2>1. /\ Store(Line) /\ started' = Append(started, Line) /\ pc = "start" /\ pc' = "load"
        /\ UNCHANGED <<k, stopped>> /\ Line \in Libs /\ i \in Slots /\ k = 0
    BY <1>1, <1>9 DEF StartReturns, ModuleTypes, Place, Down, Slots
  <2>2. /\ mods' = [mods EXCEPT ![i] = Line] /\ mods_count' = i + 1
    BY <2>1 DEF Store
  <2>3. ASSUME ~Gap'
        PROVE  /\ Len(started') = mods_count'
               /\ \A n \in 1..mods_count' : started'[n] = mods'[n - 1]
    <3>1. \A s \in 0..i : mods'[s] # NoLib
      BY <1>2, <2>2, <2>3 DEF Gap
    <3>2. \A s \in 0..i-1 : mods'[s] = mods[s]
      BY <1>2, <2>1, <2>2 DEF Slots
    <3>3. mods_count = i
      <4>1. mods_count < i => mods[mods_count] = NoLib
        BY <1>1, <1>2, <2>1 DEF Place, Slots
      <4>2. mods_count < i => mods_count \in 0..i-1
        BY <1>2
      <4> QED
        BY <1>2, <3>1, <3>2, <4>1, <4>2
    <3>4. ~Gap
      BY <1>2, <3>1, <3>2, <3>3 DEF Gap
    <3>5. Len(started) = i /\ \A n \in 1..i : started[n] = mods[n - 1]
      BY <3>3, <3>4 DEF Ordered
    <3>6. /\ Len(started') = i + 1 /\ started'[i + 1] = Line
          /\ \A n \in 1..i : started'[n] = started[n]
      BY <1>2, <2>1, <3>5
    <3>7. mods'[i] = Line
      BY <1>2, <2>1, <2>2
    <3>8. \A n \in 1..i : started'[n] = mods'[n - 1]
      BY <1>2, <3>2, <3>5, <3>6
    <3> QED
      BY <1>2, <2>2, <3>6, <3>7, <3>8
  <2> QED
    BY <2>1, <2>3 DEF Ordered
<1>10. CASE StopReturns
  <2>1. /\ stopped' = Append(stopped, mods[k]) /\ k' = k + 1 /\ pc' = "unload"
        /\ UNCHANGED <<mods, mods_count, started>>
        /\ mods[k] \in Libs /\ mods[k] # NoLib
    BY <1>1, <1>2, <1>10 DEF StopReturns, Place, ModuleTypes, Slots, loader
  <2>2. Len(stopped) = k
    BY DEF Ordered
  <2>3. /\ Len(stopped') = k + 1 /\ stopped'[k + 1] = mods[k]
        /\ \A n \in 1..k : stopped'[n] = stopped[n]
    BY <1>2, <2>1, <2>2
  <2>4. \A n \in 1..k' : stopped'[n] = mods'[n - 1] /\ mods'[n - 1] # NoLib
    <3>1. \A n \in 1..k' : n \in 1..k \/ n = k + 1
      BY <1>2, <2>1
    <3>2. (k + 1) - 1 = k
      BY <1>2
    <3> QED
      BY <2>1, <2>3, <3>1, <3>2 DEF Ordered
  <2>5. Gap' <=> Gap
    BY <2>1 DEF Gap
  <2> QED
    BY <2>1, <2>3, <2>4, <2>5 DEF Ordered
<1>11. CASE UNCHANGED vars
  BY <1>11, OrderedKept DEF vars, loader, ghosts, Ordered
<1> QED
  BY <1>3, <1>4, <1>5, <1>6, <1>8, <1>9, <1>10, <1>11
  DEF Next, Main, Load, Unload, OnlyQueue, NoEventSystem

\* When main returns what was started has been stopped, once each and in order:
\* unload_modules would have crashed at a gap (load_modules, unload_modules).
THEOREM StopsTheStarted == Spec => []StopsWhatStarted
<1>1. Init => Sound /\ Ordered
  BY SoundInit, OrderedInit
<1>2. Sound /\ Ordered /\ [Next]_vars => (Sound /\ Ordered)'
  BY SoundStep, OrderedStep
<1>3. Sound /\ Ordered => StopsWhatStarted
  <2> SUFFICES ASSUME Sound, Ordered, pc = "returned" PROVE stopped = started
    BY DEF StopsWhatStarted
  <2>1. k = mods_count /\ mods_count \in Nat /\ started \in Seq(Libs) /\ stopped \in Seq(Libs)
    BY DEF Ordered, Sound, TypeOK, ModuleTypes
  <2>2. ~Gap
    <3> SUFFICES ASSUME NEW s \in 0..mods_count-1 PROVE mods[s] # NoLib
      BY DEF Gap
    <3>1. s + 1 \in 1..k /\ (s + 1) - 1 = s
      BY <2>1
    <3> QED
      BY <3>1 DEF Ordered
  <2>3. Len(started) = Len(stopped) /\ \A n \in 1..Len(started) : started[n] = stopped[n]
    BY <2>1, <2>2 DEF Ordered
  <2> QED
    BY <2>1, <2>3, SeqEqual
<1> QED
  BY <1>1, <1>2, <1>3, PTL DEF Spec

AllClosed == \A l \in Libs : refs[l] = 0 /\ base[l] = 0

\* A program whose main returns without a mishap has closed every library it opened,
\* once for each time: also those of modules that failed and those that modules share.
THEOREM NothingStaysOpen == Spec => [](pc = "returned" /\ ~mishap => AllClosed)
<1>1. Init => Sound /\ Ordered
  BY SoundInit, OrderedInit
<1>2. Sound /\ Ordered /\ [Next]_vars => (Sound /\ Ordered)'
  BY SoundStep, OrderedStep
<1>3. ASSUME Sound, Ordered, pc = "returned", ~mishap PROVE AllClosed
  <2> SUFFICES ASSUME NEW l \in Libs PROVE refs[l] = 0 /\ base[l] = 0
    BY DEF AllClosed
  <2>1. k = mods_count /\ mods_count \in Nat
    BY <1>3 DEF Ordered, Sound, TypeOK, ModuleTypes
  <2>2. Holding(l) = {}
    BY <2>1 DEF Holding
  <2>3. refs[l] = Cardinality(Holding(l)) + Coming(l)
    BY <1>3, HoldersAre DEF Sound, HandlesCounted
  <2>4. refs[l] = 0
    BY <1>3, <2>2, <2>3, FS_EmptySet DEF Coming
  <2> QED
    BY <1>3, <2>4 DEF Sound, HandlesCounted
<1> QED
  BY <1>1, <1>2, <1>3, PTL DEF Spec

===============================================================================
