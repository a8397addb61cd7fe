# A verification of yak-unshorn

yak-unshorn is the kernel of a development environment: a C program that loads
native modules, brokers events between SDL and those modules, and draws frames.
This directory holds TLA+ models of that kernel, TLC configurations that check
them on small instances, and proofs that TLAPS checks for every instance.
Everything is translated from the C source; file and line references are to the
repository's root (`event.c` is `ox-kernel/event.c`, and so on).

Contents: the system, the modules, the runs, fairness and bounds, the theorems,
known defects, what is not modelled, the plan.

## The system

One process, one thread. Nothing is preempted: what interleaves is kernel code
with the callbacks it calls, which call back into the kernel while kernel loops
hold pointers into the data they change, and the events that SDL queues in the
meantime.

| component | state | operations | interacts with |
|---|---|---|---|
| event translation, `event.c:40-121` | `cmd_event_type_first`, `cmd_event_type_last`; SDL's counter of user event numbers | `get_cmd_event_type`, `oxi_to_sdl_event`, `oxi_from_sdl_event` | called by publish and dispatch |
| event system, `event.c:123-217` | `topics` (list heads), the table of subscriptions, SDL's queue | subscribe, unsubscribe, publish, dispatch | calls modules' callbacks; modules call it through `ox_Api` |
| fixed set, `bunuelib.h:35-68` | `items`, `count` | index, add, remove, avail | the table of subscriptions; the command module's held keys |
| display, `display.c` | store of render callbacks, links, first | register, deregister, render a frame | calls render callbacks |
| module loader, `module.c` | slots, their count, dlopen's reference counts | load the list, start a module, unload all | calls `ox_init`, `start`, `stop` of modules |
| main, `ox.c` | `should_exit`, the phase | set up, loop, clean up | drives all of the above |
| pool and arena, `bunuelib.c:113-181` | the arena's size and `length`, `free_list`, the links in free blocks | make, drop, take, give, wipe | clients write into their blocks |
| command module, `module/command` | `keys_down`, the parsers | `handle_key`, `parse_command` | subscribes to keys, publishes quit and commands into a queue that drops |

What is hard in each of them, and what makes them correct:

* **Event translation.** The two globals carry state from call to call, are
  compared with unsigned numbers, and draw on a supply of numbers that ends.
  Correct: an event that goes in comes out; input events are not mistaken for
  commands; numbers are not used twice. None of this lasts: after 4681 commands the
  supply is used up and nearly every event is a command. Every model that has an
  event queue has this end in it (`cmd_event_type_first = 0`, `NumbersOut`).
* **Event system.** A callback may subscribe while the dispatch loop is on the
  list it changes; ids are random; the table may be full; removal moves cells
  that lists point to. Correct: each event reaches, once, each subscription that
  existed for its type when the dispatch began, and dispatches end.
* **Fixed set.** Correct: it stays a set, and removing takes one item.
* **Display.** A render callback may deregister itself under the loop's cursor.
  Correct: no NULL is called, frames end, everything registered is drawn.
* **Module loader and main.** Modules fail at every stage, after they have
  subscribed too; two of them may share a library; shutdown takes things down in
  an order. Correct: handles balance, callbacks point into loaded libraries,
  what was started is stopped, an event decoded as a quit event ends the program.
* **Pool.** The free list lives in memory that clients overwrite, the size of the
  arena in an `int`, and `malloc` may fail. Correct: it is an allocator, and its
  blocks lie in memory that is there.
* **Command module.** It knows the keyboard only from events, which are repeated,
  dropped, and sometimes find the set of held keys full; it answers escape with
  an event that may be dropped as well. Correct: the set is what is held, and
  escape ends the program.

`PROJECT.json` lists these hazards at their lines with the properties for each.

## The modules

| module | what it is |
|---|---|
| `EventCodec` | the translation, as operators over its three variables |
| `CommandNumbers` | the translation on its own, publishing for ever |
| `FixedSet` | `BUNUEL_FIXED_SET` as operators on an array and a count |
| `EventBus` | abstract: what `event.h` promises, without arrays and lists |
| `EventSystem` | `event.c`: table, lists, queue and the dispatch loop; `EXTENDS EventCodec, FixedSet` |
| `Allocator` | abstract: what an allocator owes its clients |
| `Pool` | the pool and the arena under it |
| `Display` | `display.c` |
| `Kernel` | `ox.c` and `module.c`, with `EventBus` as the event system |
| `Keys` | the command module with the keyboard and SDL's queue; `EXTENDS FixedSet` |
| `MCEventSystem`, `MCKernel` | values shared by the configurations |
| `FixedSetProofs`, `EventSystemProofs`, `EventBusProofs`, `CommandNumbersProofs`, `PoolProofs`, `DisplayProofs`, `KernelProofs`, `KeysProofs` | theorems |

```
EventCodec ──┬── CommandNumbers ── CommandNumbersProofs
             │
FixedSet ──┬─┴── EventSystem ──┬── MCEventSystem
           │          │        └── EventSystemProofs ── EventBusProofs
           ├ FixedSetProofs ─────────┘ └───────┐
           │          │                        │
           ├── Keys ──┼────────────────── KeysProofs
           │          │ implements (BusSpec)
           │       EventBus ◄── Kernel ──┬── MCKernel       (INSTANCE)
           │                             └── KernelProofs
Allocator ◄── Pool ── PoolProofs                            implements (AllocatorSpec)
Display ── DisplayProofs
```

Definitions keep the source's names. A definition whose comment says "a bug for
the checks" is not part of a model: it is a broken variant of the definition
below it, used to see that a property notices.

### Event translation

An SDL event is its type number, an ox event a type and a command code. The
widths matter in one place, `event.c:55-56`, where an unsigned type is compared
with `int` globals: -1 becomes the largest unsigned number. `IsCommand` says so
instead of comparing integers. The test `cmd_event_type_first = -1` at line 44 is
an assignment, so `get_cmd_event_type` registers a block every time.
`SDL_RegisterEvents` is SDL's and follows its documentation: a fresh block, or 0
when the numbers run out, the counter growing either way.

`CodecAfter(n)` is what the globals are after n commands; `CommandsCount` proves it,
so `EventSystem` may start with `CommandsBefore` commands behind it and see the
supply end within a few steps.

### Event system

`topics`, `items` and `count` are the C fields, pointers are cell numbers and
`NULL` is -1. `pc`, `event` and `sub` are the locals of `oxi_dispatch_next`:

| action | code |
|---|---|
| `Call`, `WaitFails`, `Fetch` | the wait loop, `event.c:137-150` |
| `Invoke`, `Return` | `sub->callback(..)`, and `sub = sub->next` after it |
| `BreakOnNull`, `Done` | the two ends of the loop |
| `Subscribe` | `oxi_subscribe_events`, whole; enabled in `main` and in callbacks |
| `oxi_unsubscribe` | `pop_by_id` over the topics and `ox_sub_remove` |
| `oxi_publish_event`, `Input` | ours and SDL's ways into the queue |

A callback is the time between `Invoke` and `Return`, in which clients do what
they like. `rand()` returns any member of `Ids`, and with `RandCollides` also
one that is in use. A write through a NULL pointer ends in `pc = "segv"`, a walk
over a circular list in `"hang"`. `ApiSpec` is what `ox_Api` gives modules,
everything that happens in the program as shipped; `Spec` adds `oxi_unsubscribe`,
which `event.h` declares and nothing calls.

Every cell has a ghost field `topic`, the type it was subscribed to: the C
structure only knows by the list it hangs on, and properties need to compare.

### The bus

`EventBus` keeps the sequence of subscriptions made and, during a dispatch, the
set it still has to reach. `EventSystem` maps to it (`BusRegistered`, `BusTodo`,
`BusRunning`): cell i-1 is the i-th subscription, and the dispatch still has to
reach the subscriptions for its event from the cursor down. `BusSpec` is the
claim that each step is a step of the bus or changes nothing in it. It rests on
the lists being exact (below), because `sub->next` is read after the callback.

### Pool

A block is its number, its content the first word, which clients that hold the
block overwrite with any word, a pointer into the arena included. `Allocator` is
four lines: a block taken is nobody else's, and no is said only when all are out.

Sizes in bytes are in `ArenaSize`: the product is a `size_t`, but is kept in an
`int`, and so is the sum with the header (`ToInt`). `memory` is what `malloc` was
asked for; a negative `int` is a request beyond what there is and fails.
`bunuel_make_pool` keeps a NULL arena without looking, `pool = "empty"`, and the
next use of it ends the program (`UseNoArena`); dropping it does no harm.

### Display

The cells of `render_cb_store` with `f`, `next`, `prev`, and the loop's cursor.
`ox_register_render_cb` falls off its end without a return value, so that a client
cannot know its handle: `ox_deregister_render_cb` is called with any cell. What is
not the address of a cell (the NULL of `display.c:52` and `:57`, or garbage) is left
out; line 68 would write through it.

### Kernel

`pc` is where `main` is. A callback is identified by its *mapping*, the line
whose loading mapped the library it lies in, so that a library closed and opened
again is a different one; 0 is the kernel's `quit_handler`. Bringing up a line is
`SkipLine` (comment), `CannotLoad` (dlopen fails, or the oxmod is missing, incomplete
or of another runtime), or `OpenLib` and then `InitReturns`, `StartReturns` or `Fails`
(a symbol is missing, `ox_init` or `start` says no), between which the module's code
subscribes and publishes. `Ready` to `Cleanup` are `ox.c:69-86`, with the dispatch
loop as steps of the bus; `CallStop`, `StopReturns` and `Exit` are `unload_modules`. A
call into a closed library may crash or may do something else (another library
mapped there).

`Fetch` and `Forget` go through `oxi_from_sdl_event`. A command in SDL's queue is an
event `UNKNOWN`, because nothing recognises it (`NoCommandIsRecognised`): it is
forgotten, and the wait goes on. `blocks` counts the commands SDL still has numbers
for, down to -1; from then on (`NumbersOut`) a key or quit event is dispatched as a
command, and an `UNKNOWN` one may be. `PublishCommand` takes a block whether the queue
has room or not, and modules may publish for ever.

Neither `oxi_make_event_system` nor `oxi_make_display` is looked at (`ox.c:45-46`):
`event_system` and `display` say whether they succeeded, and the first use of one that
did not crashes (`SubscribeNull`, `ReadyNull`, `Ready`).

A `dlclose` may fail (`StaysOpen`): the count is not lowered, the library stays, and the
ghost `mishap` is set. A module's `stop` runs when the event system is freed (`ox.c:84`
before `ox.c:87`): one that subscribes writes into freed memory (`StopSubscribes`). A
`stop` or `dlclose` that fails makes `unload_module` print the module's path, which
`start_module` freed (`StopFails`, or `StopReturns` if it does no harm). These set
`mishap` too. This is not far-fetched: `stop` of the Janet runtime returns `void`, so
that its result is whatever was in the register; the same holds for its `start`, and
`Fails` is possible there without a reason.

Using the abstract bus is justified by `ImplementsBus`, within its assumptions:
distinct ids, room in the table (1024, against a handful of modules), no NULL
callback. What happens outside them is in `EventSystem`. That `Kernel` uses only the
bus's own actions holds by the way it is written, and is no result.

### Keys

| action | code |
|---|---|
| `Press`, `Repeat`, `Release` | SDL: the key changes, or repeats, and an event is queued if there is room |
| `EscapeKey` | the same for escape; whether it is down is not kept, nothing depends on it |
| `Dispatch` | `oxi_dispatch_next`: the event at the head of the queue, through `oxi_from_sdl_event`, for this module |
| `HandleEscape` | `command.c:137-142` |
| `ExitUnparsed` | `parse_command` without parsers, `command.c:119-122` |
| `HandleKey` | the rest of `handle_key`, with `PublishGarbage`, `key_set_add` and `key_set_remove` |
| `Register`, `Publish` | other modules: a parser comes up; a subscriber of the same event publishes |

`held` is the keyboard, `keys_down` what the module knows of it. The ghost `lost`
holds the keys whose last event never reached the set: they were down before it
started, SDL dropped the event, the press found the set full, or SDL had no number
left and the event was taken for a command. A key leaves `lost` with its next event
that is queued.

`LEN(parsers)` divides the size of a pointer by that of a parser, which makes 0: no
parser runs, and the command that `handle_key` publishes is uninitialised. It is
copied over the event, type included (`ox_Event` is a union), so that
`PublishGarbage` publishes a command, a quit event, or nothing. `blocks` and
`NumbersOut` are as in `Kernel`. The cell that a removal leaves behind is cleared in
the model and not in the code; it is not read before it is written again.

`Keys` has the queue where `EventSystem` has the table: which events reach the
module is the business of `BusSpec`; other subscribers of the key events appear
here only by what they publish before the module is called.

## The runs

| run | what is asked | instance | distinct states |
|---|---|---|---|
| `commands` | inputs keep their type and commands their own numbers, until there are none | SDL's numbers 32768..65535, 4685 commands | 14056 |
| `api` | lists exact, cursor on its list, bus implemented | 3 cells, 2 callbacks, 2 topics, queue of 2 | 151614 |
| `live` | lists and cursor go down; dispatches end; input events arrive in order | 2 cells and a third subscribe, NULL callbacks, colliding ids; 4680 commands behind it, so that SDL gives a last block and then none | 524627 |
| `header` | the table under `oxi_unsubscribe` | 3 cells, 3 ids, any `rand()` | 64406 |
| `alloc` | the pool is an allocator in its own memory | 3 blocks of 1, 3, 4 or 11 bytes, words of 2, a header of 4, `int` up to 15 | 11822 |
| `held` | the array is a set; it agrees with the keyboard; escape ends the program | 4 keys, a set of 2, a queue of 2, numbers for one command | 791190 |
| `render` | rendering survives and ends; one callback at a time is rendered | 3 cells, 2 callbacks | 15787 |
| `life` | handles, code, callbacks, shutdown, quitting | 2 slots, a queue of 2, numbers for one command, 7 load lists over 2 libraries, comments and broken lines | 1757886 |
| `command_lost`, `full_table`, `null_callback`, `all_rendered` | violated; see known defects | | |

Why these bounds show the interesting cases:

* Three subscriptions on two topics are the fewest in which a list has a head, a
  middle and an end, with another list's cells between them, and in which a
  callback may subscribe before, behind and beside the cursor. The theorems
  extend what holds to any size.
* In `live` the table has two cells and three subscribe calls, so that it is
  full, and ids may repeat. `CommandsBefore` is one command short of the end of
  SDL's numbers: the first command of the run gets the last block, the second none.
* `null_callback` has two subscriptions, so that one can be left out.
* `commands` uses SDL's real numbers: the supply ends after 4681 commands and the
  run goes past that.
* `life` has one load list for each case that two slots and two libraries tell apart:
  none, a broken line, a library twice, two libraries, a comment before and behind a
  library, and a line the loader no longer reads because comments used the slots up.
  (A library in a list may also fail at every stage.) A queue of two is the
  shortest in which a quit event waits behind another event, and is full often. With
  `BLOCKS = 1` the numbers last for one command and run out with the second.
* `alloc`'s sizes: one is too small for a pointer; three blocks of 3 bytes need 13
  with the header and fit an `int` (up to 15); blocks of 4 need 16, become negative
  and get no memory; blocks of 11 need 37, which wraps to 5.
* `held` has one key more than the set holds besides escape, and a queue of two, in
  which an escape waits behind another event and every report can be lost.
  `KeysProofs` has no bound on either, nor on the commands.
* `MaxSubs`, `MaxRegistered` and `QueueMax` are the bounds in guards; `blocks` stops
  counting at -1, below which there is no difference. `QueueMax`
  also stands for the capacity SDL has; `MaxSubs` stops clients' subscribe calls.

Deadlock is checked except where stopping is meant: `commands` and
`command_lost` stop at the bound on numbers, `header` stops in a crash, `life` at the
end of `main`, `held` when the program quits, `alloc` when it crashes.

### What the passing runs say

* `ListsExact`, `CursorOnTopic`, `SubscribedIsListed`, `BusSpec`: new
  subscriptions go in front of the head, so nothing behind the cursor ever
  changes; a dispatch reaches exactly what was there when it began.
* `ListsDescend`: even with repeated ids and a full table every `next` points to
  a lower cell. So no list is circular, and `DispatchEnds` holds with them too.
* `CursorDescends` says why they end: each callback that returns leaves the cursor
  lower in the table, and nothing takes it up again before the dispatch is over. A
  dispatch makes at most as many callbacks as the table has cells.
* `QuitDispatched`: a quit event behind keys, commands and untranslatable events
  is dispatched as a quit event, unless SDL's numbers run out before its turn; then it
  is dispatched, as a command. (Whether `quit_handler` is then called is `BusSpec`.)
  `InputsArrive` is the safe part of it, for keys and windows too: an input event
  keeps its place or moves up by one, and at the front a dispatch of its own type
  takes it, unless SDL is out of numbers.
* `UniqueIds`, `RemoveTakesOne`: the set is right under removal, and loses just
  the id asked for; it is the lists that are not right.
* `InputsKeepType` says what becomes of an input event in every state: it is what it
  is as long as SDL has numbers, and a command afterwards. `BlocksDisjoint` says the
  same of the numbers: a block above the last one, and block 0 for every command once
  there is none, from which there is no way back.
* `HandlesCounted`: a library is open at least as often as modules hold it, and
  exactly as often until a `dlclose` fails. `OnlyFailedDangle`: the only callbacks into
  closed libraries are those of modules that failed. `CrashNeedsGap`: no crash without
  a missing event system or display, a slot that is `{0}`, a `stop` or `dlclose` that
  failed, or a `stop` that subscribed. These are the known crashes; what is said is that
  sharing libraries, failing behind a module that came up, subscribing in a dispatch, or
  publishing past the end of SDL's numbers adds none. `StopsWhatStarted`: a program
  that returns has stopped what it started, once each.
* `QuitHeard`: every subscriber of the event that ended the loop was called with it
  before any module is stopped. `QuitHeeded`: the dispatch of an event decoded as a quit
  event is not over before the flag is set. `QuitEnds`: a quit event in SDL's queue,
  behind whatever event, ends the program, unless SDL's numbers run out: then it is
  taken for a command, and nothing ends the program any more. `CodeInPlace`: the `start`
  and `stop` that main still has to call lie in a library that has been mapped since
  they were looked up.
* `BlocksFit`: as long as the arena's size fits an `int`, every block that is held
  lies inside it; and nobody ever holds a block of a pool without an arena. The
  condition is needed: with blocks of 11 bytes the memory is 5 bytes long.
* `HeldAgrees`: the module's picture of the keyboard, the last event queued for a
  key, else the one in its hands, else the set, is right for every key that is
  not `lost`; repeated presses and releases of unknown keys do no harm, and errors
  heal. `HeldOnce` is why one release takes a key out.
* `KeySetIsSet`: a press adds its key and is refused only when `POLYPHONY` different
  keys are held, a release takes out its own. `HeldAgrees` alone would excuse a
  refusal for any other reason, by making the key `lost`.
* `EscapeEnds`: a press of escape in the queue ends the program, unless the quit
  event is dropped, and `handle_key` does not look whether it was, or SDL's numbers run
  out. `EscapeStays` is the step: the press is in the queue, in `handle_key`'s hands or
  a quit event in the queue, whatever other events there are and however full the set
  is; when the numbers are out it is lost at its turn, at the head of the queue.
* `NewestIsFirst` is why `RenderSurvives` and `FrameEnds` hold: the list has one
  cell at most. `OneIsRendered` is what of `all_rendered`'s claim is true: as long as
  one callback at a time is registered, it is rendered.

### Fairness

`EventSystem`: weak fairness of `Dispatch`, the steps of the thread inside
`oxi_dispatch_next` and the main loop's call of it, which includes that callbacks
return. `Display`: the same for `Render`. `Kernel`: weak fairness of `Main`; the
code of modules returns. `Keys`: weak fairness of `Dispatch` and `Handle`, the same
thread: `SDL_WaitEvent` returns when events are queued. Nothing is assumed of the user, of SDL's failures
(`WaitFails` is outside), or of clients: they may subscribe and publish for as
long as the bounds let them. The justification is that there is one thread, and
`while(!ox.should_exit)` at `ox.c:78` calls the two functions in turn for ever.

## The theorems

Proved by TLAPS, for every value of the constants that satisfies the modules'
assumptions (a capacity is positive, ids are numbers, ...).

| theorem | says | by |
|---|---|---|
| `EventSystemProofs.Typing`, `IdsStayUnique`, `RemovalIsExact` | `TypeOK`, `UniqueIds`, `RemoveTakesOne` for `Spec`, with unsubscribing | `TypeOK` is inductive; `UniqueIds` with it; lemmas on the set: `IndexFinds`, `AddCellFits`, `RemovedKeepsOthers` |
| `FixedSetProofs.AddIsSetAdd`, `RemoveIsSetRemove` | the array with its count is a set of bounded size: `prefix_add` adds, `prefix_index` finds the members, `prefix_remove` takes one out | the cells in use are a bijection to the members, kept by moving the last one |
| `EventSystemProofs.InputsArriveInOrder` | `InputsArrive` for `Spec` | with `RangeAbove`: the range of commands is not open yet, above the input events, or begins at 0 |
| `EventSystemProofs.CursorGoesDown` | `CursorDescends` for `ApiSpec` | from `ListsDescend` and the types |
| `EventSystemProofs.ListsGoDown` | `ListsDescend` for `ApiSpec`, ids colliding and table full | inductive with `TypeOK` |
| `EventSystemProofs.ListsStayExact` | `ListsExact` for `ApiSpec`, if `Roomy` | a new cell is above all others, so it is the newest of its topic and the old head the newest below it |
| `EventSystemProofs.SubscribedStaysListed` | `SubscribedIsListed` for `ApiSpec`, if `Roomy` | from `ListsExact`: cell n of the list is above the subscription or it, and at least n below the top |
| `EventBusProofs.CursorStaysOnTopic`, `DeliveryIsTyped` | the cursor stays on its list | from `ListsExact`: a cell and its `next` have the same topic |
| `EventBusProofs.ImplementsBus` | `ApiSpec => BusSpec`, if `Roomy` and no NULL callback | one lemma per action, under the two invariants above |
| `CommandNumbersProofs.*` | `TypeOK`, `InputsKeepType` (if SDL has 895 numbers or more to give out), `BlocksDisjoint`; `CommandsCount` | after n commands the globals are `CodecAfter(n)` |
| `CommandNumbersProofs.NoCommandIsRecognised` | until SDL runs out of numbers `oxi_from_sdl_event` takes no number for a command | the end of the range counts up by 6 from -1, its start by 7 from SDL's first number |
| `PoolProofs.*` | `TypeOK`, `FreeListExact`, `AllocatorSpec`, `BlocksFit` | the free list as an explicit sequence that giving extends and taking shortens; what `made` pools ask `malloc` for |
| `DisplayProofs.*` | `TypeOK`, `RenderSurvives`, `NewestIsFirst` | no cell ever gets a `next` |
| `DisplayProofs.OneStaysRendered` | `OneIsRendered` | as long as it is the only one, the one registered is `first` and the cursor is at it until it was called |
| `KernelProofs.Typing`, `HandlesStayCounted` | `TypeOK`, `HandlesCounted` | inductive together, with `Place`: where `main` is and which slots can be filled |
| `KernelProofs.OnlyFailedStayDangling`, `CrashesNeedGap` | `OnlyFailedDangle`, `CrashNeedsGap` | a mapping in use is the line of a slot that holds its library; a failed line is a gap |
| `KernelProofs.QuitIsHeard` | `QuitHeard` | during a dispatch `unheard` is part of what is still to be called, so it is empty when the dispatch is over |
| `KernelProofs.QuitIsHeeded` | `QuitHeeded` | `Heeding`: during the dispatch of a quit event the kernel's handler is still to be called, is running, or has set the flag |
| `KernelProofs.CodeStaysInPlace` | `CodeInPlace` | a library with a handle is not unmapped, so the mapping is as old as the oldest module that has one |
| `KernelProofs.NothingStaysOpen` | when main returns every library is closed, if no `stop` or `dlclose` went wrong | from `HandlesCounted`, with no slot left and no mishap |
| `KernelProofs.StopsTheStarted` | `StopsWhatStarted` | without a gap the slots are the started modules in order; with one `unload_modules` does not get to its end |
| `KeysProofs.KeysTyped`, `KeysHeldOnce`, `KeysAgree` | `TypeOK`, `HeldOnce`, `HeldAgrees` | inductive together, with what `FixedSetProofs` says of the set |
| `KeysProofs.KeySetStaysASet` | `KeySetIsSet` | `AddIsSetAdd` and `RemoveIsSetRemove`, which apply because of `HeldOnce` |
| `KeysProofs.EscapeStaysOnItsWay` | `EscapeStays` | pushing keeps what is queued, and `Dispatch` takes only the head, which `NumbersOut` alone makes a command |

The bound of 895 numbers: at the end of a supply of fewer than 128 blocks the range
of commands, which then begins at 0, does not reach the input types yet. SDL has 4681
blocks, and more than 895 numbers is all that is used of that.

`Roomy` is `~RandCollides /\ MaxSubs <= SUB_MAX`: `rand()` does not repeat a live
id and nobody subscribes to a full table. The runs `full_table` and
`null_callback` show that the conditions are needed.

`TypeOK` alone is not enough for `ListsExact` to be inductive, nor for
`CursorOnTopic`: `Return` takes `items[sub].next` as it is after the callback,
and only that every `next` is exact, not just well typed, makes the new cursor
one of the same list. For the pool the strengthening is `HeldBelowLength`: a
held block is one the arena handed out, so that writing into it and bumping
the arena leave the free list alone.

The walk along a list (`Chain`, a recursive function) is handled without an
induction theorem: `LeastNumber`, from the well-founded order of the naturals,
gives the first cell at which a claim about the walk would fail.

Only model-checked: everything temporal under fairness (`DispatchEnds`,
`QuitDispatched`, `FrameEnds`, `QuitEnds`, `EscapeEnds`), which is outside TLAPS's
reach here. What these rest on besides fairness is proved: the dispatch comes
closer to its end with each callback (`CursorDescends`), an input event with each
fetch to the front (`InputsArrive`), the flag is set when the quit event is done
with (`QuitHeeded`), and a press of escape is not forgotten (`EscapeStays`). Every
invariant and action property that a run checks is a theorem.

## Known defects

The code does something else than it says in these places. The first four have
runs that end in a counterexample:

| run | where | what |
|---|---|---|
| `command_lost` | `event.c:46` | the end of the command range is computed from its own old value: no command is ever recognised; that it is none at all, whatever numbers SDL hands out, is `NoCommandIsRecognised` |
| `full_table` | `event.c:174` | `>= 0` lets a full table through: the head of the list becomes NULL |
| `null_callback` | `event.c:156` | "Skipping" breaks out of the loop: an older subscriber, with a callback, is not called |
| `all_rendered` | `display.c:64` | `next` is never set: only the newest callback renders, and when it is deregistered the older one, still registered, is on no list (the trace of the run); one callback at a time is rendered, `OneIsRendered` |

Others, met while modelling and visible in the models as the conditions under
which properties are stated:

* `event.c:44` assigns instead of comparing; after 4681 commands
  `SDL_RegisterEvents` returns 0, the command range starts at 0, and keys, escape and
  quit events read as commands: keys are no longer noticed and nothing ends the
  program (`InputsKeepType`; the exceptions in `InputsArrive`, `QuitDispatched`,
  `HeldAgrees`, `EscapeStays`, `EscapeEnds` and `QuitEnds`).
* `event.c:97` looks for a NULL event and returns `NULL`, and `event.c:129` reads the
  type of the same NULL event for its message.
* `display.c:68` writes through its argument: `ox_register_render_cb` returns NULL when it
  is refused (lines 52, 57) and nothing at all when it is not (line 65).
* `event.c:48` adds user codes to the block's first number, though
  `event_types.h:68` says they match SDL's numbers.
* `event.c:173`: a repeated id redirects one topic's list into another's
  (`Roomy`).
* `event.c:195` writes to the predecessor of the newest subscription of a type,
  which has none (`UnsubscribeHead` ends in a crash; nothing calls it yet).
* `event.c:197` takes a neighbour off the list, and `event.c:216` moves a cell that
  lists point to (`ApiSpec` instead of `Spec`).
* `module.c:112`, `module.c:119`: the library of a module that fails is closed while
  its subscriptions stay (`OnlyFailedDangle`).
* `module.c:29`: a slot that is `{0}` makes the shutdown call NULL
  (`CrashNeedsGap`); comment lines of the load list leave such slots and use them
  up, `module.c:222`.
* `ox.c:45`, `ox.c:46`: a NULL event system or display is used.
* `module.c:88` to `:119` do not look whether `dlclose` worked (`StaysOpen`).
* `module.c:191` frees the path that `module.c:33` and `:40` print; `module.c:29` calls
  `stop` after the event system is gone; `stop` and `start` of
  `runtime/janet/janet_runtime.c` return nothing where the loader reads an `int`.
* `bunuelib.c:114` keeps the size of the arena in an `int`: a size that wraps to a
  small positive number gives blocks outside the arena's memory; `bunuelib.c:151`
  keeps an arena that may be NULL.
* `command.c:119`: nothing registers parsers, so the first key that is not escape
  ends the program; with parsers `command.c:124` runs none and the command is
  uninitialised; `command.c:149` copies it over the event, type included.
* `command.c:144` hands parsers the keys as they were before the event: for a
  release the key itself is still among them, though the comment at line 49 has
  `-S/AD` without S.
* `command.c:102`: the priority commands that lines 63-65 promise are parsed by a
  function nothing calls.
* `command.c:155`: the eleventh key is not noticed.

## Not modelled

* Of the command module: `parse_priority_commands`, `parse_quit` and `shift_chords`.
  Nothing calls them, and they need `parsers.h`, `parse_default_mode` and `q_esc`,
  which do not exist; the file does not compile as it is. The chord that
  `handle_key` builds is only read.
* Of the module loader: the syntax of oxmod files (a file is good, or `CannotLoad`),
  the flags for `dlopen`, open file handles, the exit code, and the
  `calloc` of `module.c:220` failing, which nobody looks at. A line of the load list
  is what one `fgets` reads; longer ones are several lines.
* `oxi_publish_event(NULL)` and `ox_deregister_render_cb` of anything but a cell: a NULL
  pointer is written or read at once, no property depends on it, and no caller in the
  repository does it.
* Of the pool: alignment, and clients that give a block twice.
* Render callbacks of modules: `ox_Api` does not offer them, so that the one the
  kernel registers is the only one, and a composition of `Kernel` and `Display`
  would have nothing to add to either. `Display` itself allows any.
* The init module (three prints), the command parsers (a stub of nine lines), the
  Janet runtime's glue (no state of its own), the Node.js prototype (nothing
  builds or calls it), logging, timestamps, drawing.
* The vendored Janet interpreter, `runtime/janet/janet.c` and `janet.h`: 58,731 of
  the repository's 60,359 lines of code. It is third-party code that the kernel
  only calls to start and stop it, so the share of the whole repository that is
  modelled is small whatever is done here; of the project's own C code the models
  cover most of what has state.

## The plan

Done: the event system with its abstraction, the translation, the fixed set, the
pool with its sizes, the display, the life of the program, the command module's
keys, proofs of every invariant and action property, and of what each liveness
property rests on besides fairness. What is left, in the order of its worth:

1. `oxmod` files: the two loops of `start_module` (`module.c:148-187`) as functions on
   sequences of lines, against the reference that order does not matter, which
   they do not meet for `dlopen_flag`.
2. Chords and priority commands, once `parsers.h` exists.
3. The event system with `oxi_unsubscribe` as an implementation of a bus that can
   unsubscribe, once `pop_by_id` is repaired; until then it has no chance to be one.
4. Theorems about `EventBus` itself, for everything that implements it: that between
   the beginning and the end of a dispatch exactly the subscriptions that were there
   at the beginning are called, once each, stated with a history of the calls.
