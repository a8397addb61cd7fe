---------------------------------- MODULE Keys ----------------------------------
(***************************************************************************)
(* The command module (module/command): the keys the user holds down,      *)
(* counted from key-down and key-up events, and the escape key that quits. *)
(* The events come through SDL's queue, which drops one when it is full,   *)
(* and nobody looks, and through oxi_from_sdl_event, which takes every     *)
(* event for a command once SDL has no number left (CommandNumbers).  The  *)
(* chord handed to the parsers is only read by them and left out;          *)
(* parsers.h is not in the repository.                                     *)
(***************************************************************************)
EXTENDS FixedSet, FiniteSets, Sequences

CONSTANTS
  POLYPHONY,     \* capacity of the set of held keys (10)
  Keys,          \* key codes
  SDLK_ESCAPE,
  BLOCKS,        \* commands that SDL has numbers for (4681)
  NoKey,         \* a cell that was never written; an event that has no key
  QueueMax       \* bound: capacity of SDL's event queue

ASSUME KeysAssumption ==
  /\ POLYPHONY \in Nat \ {0} /\ QueueMax \in Nat \ {0}
  /\ BLOCKS \in Nat
  /\ SDLK_ESCAPE \in Keys /\ NoKey \notin Keys

HeldKeys  == Keys \ {SDLK_ESCAPE}
KeyEvents == [type : {"KEY_DOWN", "KEY_UP"}, key : Keys]
Quit      == [type |-> "QUIT", key |-> NoKey]
Command   == [type |-> "COMMAND", key |-> NoKey]
NoEvent   == [type |-> "NONE", key |-> NoKey]

VARIABLES
  held,          \* the keys that are down, on the keyboard, but for escape
  queue,         \* SDL's event queue
  event,         \* the key event being dispatched, or NoEvent
  items, count,  \* cmd_state.keys_down
  parsers,       \* is there a list of parsers?
  pc,            \* "loop", "handle", "quit", "exited"
  blocks,        \* BLOCKS less the commands published, no further than -1
  lost           \* ghost: keys whose last event never reached the set

keys_down == {items[n] : n \in 0..count-1}
vars == <<held, queue, event, items, count, parsers, pc, blocks, lost>>

\* static cmd_State cmd_state = {0}, and the handler is subscribed; the module
\* has not heard of keys that are down already
Init ==
  /\ held \in SUBSET HeldKeys /\ lost = held
  /\ queue = << >>
  /\ event = NoEvent
  /\ items = [n \in 0..POLYPHONY-1 |-> NoKey] /\ count = 0
  /\ parsers = FALSE
  /\ pc = "loop"
  /\ blocks = BLOCKS

Running == pc \in {"loop", "handle"}
Full    == Len(queue) >= QueueMax
Push(e) == queue' = IF Full THEN queue ELSE Append(queue, e)

\* a command takes a block of SDL's numbers, whether there is room for it or not
PushCommand == Push(Command) /\ blocks' = IF blocks < 0 THEN blocks ELSE blocks - 1

\* SDL_RegisterEvents has returned 0: cmd_event_type_first = 0 in event.c
NumbersOut == blocks < 0

\* What oxi_from_sdl_event makes of an event in the queue.  A command comes out
\* as nothing or as a command, and nobody waits for it either way.
oxi_from_sdl_event(e) == IF NumbersOut THEN Command ELSE e

-------------------------------------------------------------------------------
(* The keyboard, and the other modules *)

\* The key changes and the window system reports it, or there is no room; the
\* report that goes through makes up for the ones that did not.
Report(type, k) ==
  /\ Running
  /\ Push([type |-> type, key |-> k])
  /\ lost' = IF Full THEN lost \cup ({k} \cap HeldKeys) ELSE lost \ {k}
  /\ UNCHANGED <<event, items, count, parsers, pc, blocks>>

Press(k) ==
  /\ k \in HeldKeys \ held
  /\ held' = held \cup {k}
  /\ Report("KEY_DOWN", k)

\* auto-repeat sends the press again while the key is down
Repeat(k) ==
  /\ k \in held
  /\ Report("KEY_DOWN", k)
  /\ UNCHANGED held

Release(k) ==
  /\ k \in held
  /\ held' = held \ {k}
  /\ Report("KEY_UP", k)

\* escape goes down, repeats or goes up: handle_key makes no difference, and
\* whether it is down is not kept
EscapeKey ==
  /\ \E type \in {"KEY_DOWN", "KEY_UP"} : Report(type, SDLK_ESCAPE)
  /\ UNCHANGED held

\* parsers are "registerable from any module and runtime"
Register ==
  /\ Running
  /\ ~parsers
  /\ parsers' = TRUE
  /\ UNCHANGED <<held, queue, event, items, count, pc, blocks, lost>>

\* another subscriber publishes, of this event or of one the module has no
\* part in
Publish ==
  /\ Running
  /\ PushCommand
  /\ UNCHANGED <<held, event, items, count, parsers, pc, lost>>

-------------------------------------------------------------------------------
(* oxi_dispatch_next and handle_key *)

\* the only event of its key in the queue, at the front
LastOfKey(e) == e.key \in HeldKeys /\ \A n \in 2..Len(queue) : queue[n].key # e.key

\* A key event comes up for the module; the kernel ends the program at a quit
\* event; nobody waits for commands.
Dispatch ==
  /\ pc = "loop"
  /\ queue # << >>
  /\ queue' = Tail(queue)
  /\ LET e == oxi_from_sdl_event(Head(queue))
     IN  /\ event' = IF e \in KeyEvents THEN e ELSE NoEvent
         /\ pc' = IF e \in KeyEvents THEN "handle" ELSE IF e = Quit THEN "quit" ELSE "loop"
  /\ lost' = IF NumbersOut /\ LastOfKey(Head(queue)) THEN lost \cup {Head(queue).key} ELSE lost
  /\ UNCHANGED <<held, items, count, parsers, blocks>>

\* a bug for the checks: only the release of escape publishes
EscapeOnRelease ==
  /\ pc = "handle"
  /\ event.key = SDLK_ESCAPE
  /\ IF event.type = "KEY_UP" THEN Push(Quit) ELSE UNCHANGED queue
  /\ event' = NoEvent /\ pc' = "loop"
  /\ UNCHANGED <<held, items, count, parsers, blocks, lost>>

\* escape publishes a quit event, press and release alike; the result of
\* ox_publish_event is ignored
HandleEscape ==
  /\ pc = "handle"
  /\ event.key = SDLK_ESCAPE
  /\ Push(Quit)
  /\ event' = NoEvent /\ pc' = "loop"
  /\ UNCHANGED <<held, items, count, parsers, blocks, lost>>

\* parse_command without parsers: exit(-1)
ExitUnparsed ==
  /\ pc = "handle"
  /\ event.key # SDLK_ESCAPE
  /\ ~parsers
  /\ pc' = "exited"
  /\ UNCHANGED <<held, queue, event, items, count, parsers, blocks, lost>>

\* a bug for the checks: nobody looks whether the key is there already
AddAgain(k) ==
  IF count < POLYPHONY
  THEN items' = [items EXCEPT ![count] = k] /\ count' = count + 1
  ELSE UNCHANGED <<items, count>>

key_set_add(k) ==
  IF IsNew(items, count, POLYPHONY, k)
  THEN items' = [items EXCEPT ![count] = k] /\ count' = count + 1
  ELSE UNCHANGED <<items, count>>

\* a bug for the checks: the count goes down before anybody looks
RemoveUnseen(k) ==
  LET n == Index(items, count, k)
  IN  /\ count' = count - 1
      /\ items' = IF n < 0 THEN items ELSE Removed(items, count, n)

\* The code leaves the last key's old cell as it is; nothing reads it before it
\* is written again, so it is cleared here.
key_set_remove(k) ==
  LET n == Index(items, count, k)
  IN  IF n < 0 THEN UNCHANGED <<items, count>>
      ELSE /\ items' = [Removed(items, count, n) EXCEPT ![count-1] = NoKey]
           /\ count' = count - 1

\* The loop over LEN(parsers), the size of a pointer, runs no parser, and the
\* command it should have filled in is whatever was on the stack.  If that looks
\* like a command it is copied over the whole event, type included: a command is
\* published, or a quit event, or oxi_to_sdl_event refuses it.
PublishGarbage ==
  \/ PushCommand
  \/ Push(Quit) /\ UNCHANGED blocks
  \/ UNCHANGED <<queue, blocks>>

\* A key that finds the set full is not noticed.
HandleKey ==
  /\ pc = "handle"
  /\ event.key # SDLK_ESCAPE
  /\ parsers
  /\ PublishGarbage
  /\ IF event.type = "KEY_UP" THEN key_set_remove(event.key) ELSE key_set_add(event.key)
  /\ lost' = IF event.type = "KEY_DOWN" /\ event.key \notin keys_down'
                /\ \A n \in DOMAIN queue : queue[n].key # event.key
             THEN lost \cup {event.key} ELSE lost
  /\ event' = NoEvent /\ pc' = "loop"
  /\ UNCHANGED <<held, parsers>>

Handle == HandleEscape \/ ExitUnparsed \/ HandleKey

Next ==
  \/ \E k \in Keys : Press(k) \/ Repeat(k) \/ Release(k)
  \/ EscapeKey \/ Register \/ Publish
  \/ Dispatch \/ Handle

Spec == Init /\ [][Next]_vars

\* main's thread runs, and SDL_WaitEvent returns the events that are there
FairSpec == Spec /\ WF_vars(Dispatch \/ Handle)

-------------------------------------------------------------------------------
(***************************************************************************)
(* Properties                                                              *)
(***************************************************************************)

TypeOK ==
  /\ held \subseteq HeldKeys /\ lost \subseteq HeldKeys
  /\ queue \in Seq(KeyEvents \cup {Quit, Command}) /\ Len(queue) <= QueueMax
  /\ event \in KeyEvents \cup {NoEvent}
  /\ pc \in {"loop", "handle", "quit", "exited"}
  /\ pc = "handle" => event \in KeyEvents
  /\ pc = "loop" => event = NoEvent
  /\ items \in [0..POLYPHONY-1 -> Keys \cup {NoKey}] /\ count \in 0..POLYPHONY
  /\ parsers \in BOOLEAN /\ blocks \in -1..BLOCKS

\* the last event queued for key k
LastFor(n, k) ==
  queue[n].key = k /\ \A m \in DOMAIN queue : queue[m].key = k => m <= n

\* The last event queued for a key, else the one being dispatched, else the set,
\* says whether the key is down: but for the keys whose last event was dropped by
\* SDL, found the set full, or was taken for a command when SDL had no number
\* left.  Auto-repeat does no harm, and a later event of the key heals it as far
\* as it gets through.
HeldAgrees ==
  pc # "exited" => \A k \in HeldKeys \ lost :
    /\ \A n \in DOMAIN queue : LastFor(n, k) => (k \in held <=> queue[n].type = "KEY_DOWN")
    /\ (\A n \in DOMAIN queue : queue[n].key # k) =>
         (k \in held <=> IF event.key = k THEN event.type = "KEY_DOWN" ELSE k \in keys_down)

\* Each key is in the set once, so that its release takes it out, and escape,
\* whose release is never noticed, is not in it.
HeldOnce ==
  /\ \A n, m \in 0..count-1 : items[n] = items[m] => n = m
  /\ keys_down \subseteq HeldKeys

\* What handle_key does to the array is what the event does to a set: a press adds
\* its key and is refused only when POLYPHONY different keys are in it, a release
\* takes out that key and no other, and nothing else changes it.
SetAfter(e) ==
  IF e.type = "KEY_UP" THEN keys_down \ {e.key}
  ELSE IF Cardinality(keys_down) < POLYPHONY THEN keys_down \cup {e.key}
  ELSE keys_down
KeySetIsSet ==
  [][keys_down' = IF pc = "handle" /\ pc' = "loop" /\ event.key # SDLK_ESCAPE
                  THEN SetAfter(event) ELSE keys_down]_vars

\* A press of escape that SDL took is in the queue, in handle_key's hands, or has
\* become a quit event in the queue, until the program ends, or until that quit
\* event finds the queue full, or until SDL has no number left and the press or
\* the quit event is taken for a command.
Escape == [type |-> "KEY_DOWN", key |-> SDLK_ESCAPE]
Queued(e) == \E n \in DOMAIN queue : queue[n] = e
EscapeOnItsWay == Queued(Escape) \/ event = Escape \/ Queued(Quit)
EscapeDropped == event = Escape /\ Full /\ pc' = "loop"
EscapeMistaken == NumbersOut /\ Head(queue) \in {Escape, Quit} /\ queue' = Tail(queue)
EscapeStays ==
  [][EscapeOnItsWay =>
       EscapeOnItsWay' \/ pc' = "quit" \/ EscapeDropped \/ EscapeMistaken]_vars

\* A press of escape that SDL takes ends the program, unless the quit event it is
\* answered with finds the queue full, or SDL has no number left by then.
EscapeEnds ==
  Queued(Escape) ~> \/ pc \in {"quit", "exited"}
                    \/ event = Escape /\ Full
                    \/ NumbersOut
===============================================================================
