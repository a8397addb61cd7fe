--------------------------------- MODULE Kernel ---------------------------------
(***************************************************************************)
(* The life of the program: main of ox-kernel/ox.c with the module loader  *)
(* of ox-kernel/module.c.  It reads the load list, brings the modules up,  *)
(* dispatches events until its own quit handler says stop, and takes the   *)
(* modules down.                                                           *)
(*                                                                         *)
(* The event system is the abstract EventBus, which EventSystem implements *)
(* while ids are distinct, the table has room and no callback is NULL; the *)
(* SDL numbers of commands are counted as CommandNumbers shows.  Rendering,*)
(* exit codes, oxmod syntax, file handles and the loader's own allocations *)
(* are left out.                                                           *)
(***************************************************************************)
EXTENDS Integers, Sequences, FiniteSets

CONSTANTS
  MAX_MODS,   \* slots for modules (4)
  Libs,       \* native libraries that oxmod files name
  Comment,    \* a blank line or comment of the load list
  Broken,     \* a line whose oxmod is missing, incomplete or not native
  NoLib,      \* lib of a slot that is {0}
  LoadLists,  \* the load lists: sequences of lines
  Topics,     \* event types modules and the kernel subscribe to
  QUIT,       \* OX_EVENT_QUIT
  COMMAND,    \* OX_EVENT_COMMAND
  UNKNOWN,    \* an SDL event without an ox_EventType of its own, as commands are
  NoTopic,    \* no event is being dispatched; an event cannot be translated
  BLOCKS,     \* commands that SDL has numbers for (4681)
  MaxSubs,    \* bound: no subscribe call of a module at this many subscriptions
  QueueMax    \* bound: capacity of SDL's event queue

Lines == Libs \cup {Comment, Broken}

ASSUME KernelAssumption ==
  /\ MAX_MODS \in Nat \ {0} /\ MaxSubs \in Nat /\ QueueMax \in Nat \ {0}
  /\ {Comment, Broken, NoLib} \cap Libs = {} /\ Comment # Broken
  /\ LoadLists \subseteq Seq(Lines)
  /\ {QUIT, COMMAND} \subseteq Topics /\ QUIT # COMMAND
  /\ NoTopic \notin Topics /\ UNKNOWN \notin Topics /\ BLOCKS \in Nat

Slots == 0..MAX_MODS-1
SDLEvents == (Topics \ {COMMAND}) \cup {UNKNOWN}

\* A callback is the line whose loading mapped the library it lies in; the
\* kernel's own quit_handler is 0.  A library that was closed and opened
\* again is another mapping.
quit_handler == 0
Mappings     == 1..MAX_MODS
NoCallback   == -1   \* EventBus; nobody passes it here

VARIABLES
  list,         \* the load list
  i,            \* load_modules: lines read
  mods, mods_count,
  refs,         \* dlopen's reference count of each library
  base,         \* where a library is mapped, 0 if it is not
  event_system, display, \* did oxi_make_event_system, oxi_make_display succeed?
  should_exit,
  queue,        \* SDL's event queue
  blocks,       \* BLOCKS less the commands published, no further than -1
  pc,           \* where main is
  k,            \* unload_modules: slots done
  started,      \* ghost: the libraries whose start succeeded, in order
  stopped,      \* ghost: the libraries stopped, in order
  failed,       \* ghost: lines whose init or start failed
  unheard,      \* ghost: the subscriptions the last event was not delivered to
  mishap,       \* ghost: a stop or a dlclose failed, or a stop subscribed
  registered, current, todo, running   \* the bus

bus    == <<registered, current, todo, running>>
loader == <<i, mods, mods_count>>
libs   == <<refs, base>>
made   == <<event_system, display>>
sdl    == <<queue, blocks>>
ghosts == <<started, stopped, failed, unheard, mishap>>
vars   == <<list, loader, libs, made, should_exit, sdl, pc, k, ghosts, bus>>

Bus == INSTANCE EventBus WITH Callbacks <- {quit_handler} \cup Mappings

Control == {"setup", "open", "load", "init", "start", "ready", "loop", "wait",
            "dispatch", "unload", "stop", "returned", "segv"}

\* main's first statements; the list is what the user wrote
Init ==
  /\ list \in LoadLists
  /\ i = 0
  /\ mods = [s \in Slots |-> NoLib] /\ mods_count = 0
  /\ refs = [l \in Libs |-> 0] /\ base = [l \in Libs |-> 0]
  /\ event_system \in BOOLEAN /\ display \in BOOLEAN
  /\ should_exit = FALSE
  /\ queue = << >> /\ blocks = BLOCKS
  /\ pc = "setup"
  /\ k = 0
  /\ started = << >> /\ stopped = << >> /\ failed = {}
  /\ unheard = {} /\ mishap = FALSE
  /\ Bus!Init

-------------------------------------------------------------------------------
(* Modules: what code in a library does through ox_Api *)

Line == list[i + 1]

\* the mapping whose code runs, 0 if it is the kernel's own
Running ==
  CASE pc \in {"init", "start"}           -> base[Line]
    [] pc = "dispatch" /\ running # 0 -> registered[running].callback
    [] OTHER                              -> 0

Push(e) == queue' = IF Len(queue) < QueueMax THEN Append(queue, e) ELSE queue

Subscribe(t) ==
  /\ Running # 0
  /\ event_system
  /\ Len(registered) < MaxSubs
  /\ Bus!Subscribe(t, Running)
  /\ UNCHANGED <<list, loader, libs, made, should_exit, sdl, pc, k, ghosts>>

\* calloc had no room for the event system, and nobody looks
SubscribeNull ==
  /\ Running # 0
  /\ ~event_system
  /\ pc' = "segv"
  /\ UNCHANGED <<list, loader, libs, made, should_exit, sdl, k, ghosts, bus>>

PublishQuit ==
  /\ Running # 0
  /\ Push(QUIT)
  /\ UNCHANGED <<list, loader, libs, made, should_exit, blocks, pc, k, ghosts, bus>>

\* a command takes a block of SDL's numbers, whether there is room for it or not
PublishCommand ==
  /\ Running # 0
  /\ Push(UNKNOWN)
  /\ blocks' = IF blocks < 0 THEN blocks ELSE blocks - 1
  /\ UNCHANGED <<list, loader, libs, made, should_exit, pc, k, ghosts, bus>>

\* the user or the window system, once SDL is up
Input(e) ==
  /\ pc \notin {"setup", "unload", "stop", "returned", "segv"}
  /\ Len(queue) < QueueMax
  /\ Push(e)
  /\ UNCHANGED <<list, loader, libs, made, should_exit, blocks, pc, k, ghosts, bus>>

-------------------------------------------------------------------------------
(* load_modules, start_module, start_native_module *)

\* SDL_Init fails, or the load list cannot be opened: main returns as it is
setup_ox ==
  /\ pc = "setup"
  /\ pc' \in {"open", "returned"}
  /\ UNCHANGED <<list, loader, libs, made, should_exit, sdl, k, ghosts, bus>>

OpenList ==
  /\ pc = "open"
  /\ pc' \in {"load", "returned"}
  /\ UNCHANGED <<list, loader, libs, made, should_exit, sdl, k, ghosts, bus>>

\* a bug for the checks: nobody looks whether there is a slot left
HasLineOnly == pc = "load" /\ i < Len(list)

HasLine == pc = "load" /\ i < Len(list) /\ i < MAX_MODS

\* mods[i] = m; *mods_count = i + 1; i++
Store(m) ==
  /\ mods' = [mods EXCEPT ![i] = m]
  /\ mods_count' = i + 1
  /\ i' = i + 1

\* `continue' still runs the loop's i++: the line uses up a slot
SkipLine ==
  /\ HasLine
  /\ Line = Comment
  /\ i' = i + 1
  /\ UNCHANGED <<list, mods, mods_count, libs, made, should_exit, sdl, pc, k, ghosts, bus>>

\* dlopen fails; or start_module does not get that far, the oxmod being no good
CannotLoad ==
  /\ HasLine
  /\ Line # Comment
  /\ Store(NoLib)
  /\ UNCHANGED <<list, libs, made, should_exit, sdl, pc, k, ghosts, bus>>

dlopen(l) ==
  /\ refs' = [refs EXCEPT ![l] = @ + 1]
  /\ base' = IF refs[l] = 0 THEN [base EXCEPT ![l] = i + 1] ELSE base

dlclose(l) ==
  /\ refs' = [refs EXCEPT ![l] = @ - 1]
  /\ base' = IF refs[l] = 1 THEN [base EXCEPT ![l] = 0] ELSE base

\* the library is open, its functions are looked up and ox_init runs
OpenLib ==
  /\ HasLine
  /\ Line \in Libs
  /\ dlopen(Line)
  /\ pc' = "init"
  /\ UNCHANGED <<list, loader, made, should_exit, sdl, k, ghosts, bus>>

InitReturns ==
  /\ pc = "init"
  /\ pc' = "start"
  /\ UNCHANGED <<list, loader, libs, made, should_exit, sdl, k, ghosts, bus>>

\* a bug for the checks: the library stays open
FailsOpen ==
  /\ pc \in {"init", "start"}
  /\ Store(NoLib)
  /\ failed' = failed \cup {i + 1}
  /\ pc' = "load"
  /\ UNCHANGED <<list, libs, made, should_exit, sdl, k, started, stopped, unheard, mishap, bus>>

\* dlclose fails and the library stays open
StaysOpen == UNCHANGED libs /\ mishap' = TRUE

\* a symbol is missing, or ox_init or start fails: the library is closed and
\* nobody looks whether it worked; its subscriptions stay
Fails ==
  /\ pc \in {"init", "start"}
  /\ (dlclose(Line) /\ UNCHANGED mishap) \/ StaysOpen
  /\ Store(NoLib)
  /\ failed' = failed \cup {i + 1}
  /\ pc' = "load"
  /\ UNCHANGED <<list, made, should_exit, sdl, k, started, stopped, unheard, bus>>

\* a bug for the checks: the library is closed although start succeeded
StartCloses ==
  /\ pc = "start"
  /\ dlclose(Line)
  /\ Store(Line)
  /\ started' = Append(started, Line)
  /\ pc' = "load"
  /\ UNCHANGED <<list, made, should_exit, sdl, k, stopped, failed, unheard, mishap, bus>>

StartReturns ==
  /\ pc = "start"
  /\ Store(Line)
  /\ started' = Append(started, Line)
  /\ pc' = "load"
  /\ UNCHANGED <<list, libs, made, should_exit, sdl, k, stopped, failed, unheard, mishap, bus>>

LoadDone ==
  /\ pc = "load"
  /\ i >= Len(list) \/ i >= MAX_MODS
  /\ pc' = "ready"
  /\ UNCHANGED <<list, loader, libs, made, should_exit, sdl, k, ghosts, bus>>

Load ==
  OpenList \/ SkipLine \/ CannotLoad \/ OpenLib \/ InitReturns \/ Fails \/ StartReturns \/ LoadDone

-------------------------------------------------------------------------------
(* main's loop, with oxi_dispatch_next *)

\* The quit handler and the render callback are registered and the first
\* frame is drawn; nobody has looked whether there is a display.
Ready ==
  /\ pc = "ready"
  /\ event_system
  /\ Bus!Subscribe(QUIT, quit_handler)
  /\ pc' = IF display THEN "loop" ELSE "segv"
  /\ UNCHANGED <<list, loader, libs, made, should_exit, sdl, k, ghosts>>

\* or an event system
ReadyNull ==
  /\ pc = "ready"
  /\ ~event_system
  /\ pc' = "segv"
  /\ UNCHANGED <<list, loader, libs, made, should_exit, sdl, k, ghosts, bus>>

Call ==
  /\ pc = "loop"
  /\ ~should_exit
  /\ pc' = "wait"
  /\ UNCHANGED <<list, loader, libs, made, should_exit, sdl, k, ghosts, bus>>

WaitFails ==
  /\ pc = "wait"
  /\ queue = << >>
  /\ pc' = "loop"
  /\ UNCHANGED <<list, loader, libs, made, should_exit, sdl, k, ghosts, bus>>

\* SDL_RegisterEvents has returned 0: cmd_event_type_first = 0 in event.c
NumbersOut == blocks < 0

\* The topics an event in the queue may be dispatched to.  A command is not
\* recognised until SDL has no number left, when nearly every event is taken
\* for one.
oxi_from_sdl_event(e) ==
  IF NumbersOut THEN IF e = UNKNOWN THEN {COMMAND, NoTopic} ELSE {COMMAND}
  ELSE IF e = UNKNOWN THEN {NoTopic} ELSE {e}

Fetch ==
  /\ pc = "wait"
  /\ queue # << >>
  /\ queue' = Tail(queue)
  /\ \E t \in oxi_from_sdl_event(Head(queue)) \ {NoTopic} : Bus!Begin(t)
  /\ unheard' = todo'
  /\ pc' = "dispatch"
  /\ UNCHANGED <<list, loader, libs, made, should_exit, blocks, k, started, stopped, failed, mishap>>

\* an event that cannot be translated is forgotten and the wait goes on
Forget ==
  /\ pc = "wait"
  /\ queue # << >>
  /\ queue' = Tail(queue)
  /\ NoTopic \in oxi_from_sdl_event(Head(queue))
  /\ UNCHANGED <<list, loader, libs, made, should_exit, blocks, pc, k, ghosts, bus>>

Mapped(cb) == cb = quit_handler \/ \E l \in Libs : base[l] = cb

\* A callback is called.  If its library was closed the call goes astray,
\* unless something was mapped there again.
Invoke ==
  /\ pc = "dispatch"
  /\ Bus!Take
  /\ IF Mapped(registered[running'].callback)
     THEN UNCHANGED pc
     ELSE pc' \in {"dispatch", "segv"}
  /\ unheard' = unheard \ {running'}
  /\ UNCHANGED <<list, loader, libs, made, should_exit, sdl, k, started, stopped, failed, mishap>>

\* a bug for the checks: the handler does not set the flag
ReturnUnseen ==
  /\ pc = "dispatch"
  /\ Bus!Return
  /\ UNCHANGED <<list, loader, libs, made, should_exit, sdl, pc, k, ghosts>>

\* it returns; quit_handler has set the flag
Return ==
  /\ pc = "dispatch"
  /\ Bus!Return
  /\ should_exit' = (should_exit \/ registered[running].callback = quit_handler)
  /\ UNCHANGED <<list, loader, libs, made, sdl, pc, k, ghosts>>

\* a bug for the checks: the flag cuts the dispatch short
DispatchedOrExit ==
  /\ pc = "dispatch"
  /\ running = 0
  /\ todo = {} \/ should_exit
  /\ current' = NoTopic /\ todo' = {}
  /\ pc' = "loop"
  /\ UNCHANGED <<list, loader, libs, made, should_exit, sdl, k, ghosts, registered, running>>

\* the dispatch is over and a frame is drawn
Dispatched ==
  /\ pc = "dispatch"
  /\ Bus!End
  /\ pc' = "loop"
  /\ UNCHANGED <<list, loader, libs, made, should_exit, sdl, k, ghosts>>

\* event system and display are destroyed and SDL quits, with its queue, before
\* any module is stopped
Cleanup ==
  /\ pc = "loop"
  /\ should_exit
  /\ queue' = << >>
  /\ pc' = "unload"
  /\ UNCHANGED <<list, loader, libs, made, should_exit, blocks, k, ghosts, bus>>

MainLoop ==
  Ready \/ ReadyNull \/ Call \/ Fetch \/ Forget \/ Invoke \/ Return \/ Dispatched \/ Cleanup

-------------------------------------------------------------------------------
(* unload_modules *)

\* a bug for the checks: one slot too many
CallStopPastEnd ==
  /\ pc = "unload"
  /\ k <= mods_count
  /\ pc' = IF k \in Slots /\ mods[k] # NoLib THEN "stop" ELSE "segv"
  /\ UNCHANGED <<list, loader, libs, made, should_exit, sdl, k, ghosts, bus>>

\* module.stop() of a slot that is {0} calls NULL
CallStop ==
  /\ pc = "unload"
  /\ k < mods_count
  /\ pc' = IF mods[k] = NoLib THEN "segv" ELSE "stop"
  /\ UNCHANGED <<list, loader, libs, made, should_exit, sdl, k, ghosts, bus>>

\* stop subscribes: the event system it would do so in is freed.  (What it
\* publishes goes nowhere, SDL has quit.)
StopSubscribes ==
  /\ pc = "stop"
  /\ mishap' = TRUE
  /\ pc' \in {"stop", "segv"}
  /\ UNCHANGED <<list, loader, libs, made, should_exit, sdl, k, started, stopped, failed, unheard, bus>>

\* stop or dlclose fails: the message about it reads the library's path, which
\* start_module has freed
StopFails ==
  /\ pc = "stop"
  /\ mishap' = TRUE
  /\ pc' = "segv"
  /\ UNCHANGED <<list, loader, libs, made, should_exit, sdl, k, started, stopped, failed, unheard, bus>>

\* stop returns and the library is closed; or one of the two fails and the
\* message does no harm
StopReturns ==
  /\ pc = "stop"
  /\ stopped' = Append(stopped, mods[k])
  /\ (dlclose(mods[k]) /\ mishap' \in {mishap, TRUE}) \/ StaysOpen
  /\ k' = k + 1
  /\ pc' = "unload"
  /\ UNCHANGED <<list, loader, made, should_exit, sdl, started, failed, unheard, bus>>

\* a bug for the checks: one slot too few
ExitEarly ==
  /\ pc = "unload"
  /\ k >= mods_count - 1
  /\ pc' = "returned"
  /\ UNCHANGED <<list, loader, libs, made, should_exit, sdl, k, ghosts, bus>>

Exit ==
  /\ pc = "unload"
  /\ k >= mods_count
  /\ pc' = "returned"
  /\ UNCHANGED <<list, loader, libs, made, should_exit, sdl, k, ghosts, bus>>

Unload == CallStop \/ StopFails \/ StopReturns \/ Exit

-------------------------------------------------------------------------------
Main == setup_ox \/ Load \/ MainLoop \/ Unload

Next ==
  \/ Main
  \/ WaitFails
  \/ \E t \in Topics : Subscribe(t)
  \/ \E e \in SDLEvents : Input(e)
  \/ SubscribeNull \/ PublishQuit \/ PublishCommand
  \/ StopSubscribes

Spec == Init /\ [][Next]_vars

\* main's thread runs, and the code of modules returns to it
FairSpec == Spec /\ WF_vars(Main)

-------------------------------------------------------------------------------
(***************************************************************************)
(* Properties                                                              *)
(***************************************************************************)

ModuleTypes ==
  /\ list \in LoadLists /\ pc \in Control
  /\ i \in 0..MAX_MODS /\ k \in 0..MAX_MODS /\ mods_count \in 0..i
  /\ mods \in [Slots -> Libs \cup {NoLib}]
  /\ refs \in [Libs -> 0..MAX_MODS] /\ base \in [Libs -> 0..MAX_MODS]
  /\ pc \in {"init", "start"} => i < Len(list) /\ i < MAX_MODS /\ Line \in Libs
  /\ started \in Seq(Libs) /\ stopped \in Seq(Libs)
  /\ failed \subseteq Mappings
  /\ event_system \in BOOLEAN /\ display \in BOOLEAN /\ mishap \in BOOLEAN

Subscription == [topic : Topics, callback : {quit_handler} \cup Mappings]

EventTypes ==
  /\ queue \in Seq(SDLEvents) /\ Len(queue) <= QueueMax
  /\ blocks \in -1..BLOCKS /\ should_exit \in BOOLEAN
  /\ registered \in Seq(Subscription)
  /\ current \in Topics \cup {NoTopic}
  /\ todo \subseteq DOMAIN registered /\ running \in {0} \cup DOMAIN registered
  /\ unheard \subseteq DOMAIN registered

TypeOK == ModuleTypes /\ EventTypes

Gap == \E s \in 0..mods_count-1 : mods[s] = NoLib

\* how many of the modules that are up or coming up hold library l
Holders(l) ==
  Cardinality({s \in k..mods_count-1 : mods[s] = l})
    + IF pc \in {"init", "start"} /\ Line = l THEN 1 ELSE 0

\* A library is open at least once for every module that holds it, so that nothing
\* is closed early, also when modules share it and when one of them fails; and no
\* more often than that, until a dlclose fails: nothing is left open.
HandlesCounted ==
  pc # "segv" =>
    \A l \in Libs :
      /\ refs[l] >= Holders(l)
      /\ refs[l] = Holders(l) \/ mishap
      /\ base[l] = 0 <=> refs[l] = 0

\* While events are dispatched, a subscription whose callback is no longer
\* there was made by a module that failed to come up.
OnlyFailedDangle ==
  pc \notin {"unload", "stop", "returned", "segv"} =>
    \A j \in DOMAIN registered :
      Mapped(registered[j].callback) \/ registered[j].callback \in failed

\* When main returns, the modules that were started have been stopped, once
\* each and in the order they were started.
StopsWhatStarted == pc = "returned" => stopped = started

\* Modules are stopped only after every subscriber of the quit event, theirs
\* included, was called with it, though the kernel's own handler comes first.
QuitHeard == pc \in {"unload", "stop"} => unheard = {}

\* With an event system, a display, a module that comes up behind every slot, and
\* stops and dlcloses that succeed and leave the event system alone, the program
\* does not crash.
CrashNeedsGap == pc = "segv" => ~event_system \/ ~display \/ Gap \/ mishap

\* When the dispatch of an event decoded as a quit event is over main has been told
\* to stop, whatever modules subscribed, failed or came up before quit_handler did.
QuitHeeded == [][pc = "dispatch" /\ pc' = "loop" /\ current = QUIT => should_exit]_vars

\* The functions of a module that main still has to call, looked up when it was
\* loaded, are where they were: its library was mapped by then and has stayed so,
\* though other modules share it, fail or were stopped already.
CodeInPlace ==
  /\ pc \in {"init", "start"} => base[Line] \in 1..i+1
  /\ \A s \in k..mods_count-1 : mods[s] # NoLib => base[mods[s]] \in 1..s+1

\* A quit event that is in SDL's queue, whoever published it and whatever waits
\* before it, ends the program, though callbacks go on to subscribe and to publish;
\* unless so many commands are published that SDL has no number left, when a quit
\* event is taken for a command.
QuitEnds ==
  (\E n \in DOMAIN queue : queue[n] = QUIT)
    ~> pc \in {"unload", "stop", "returned", "segv"} \/ NumbersOut
===============================================================================
