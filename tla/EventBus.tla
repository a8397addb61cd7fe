------------------------------- MODULE EventBus -------------------------------
(***************************************************************************)
(* What ox-kernel/event.h promises a module, without a word about arrays   *)
(* and lists: a subscription lasts, and an event that is dispatched is     *)
(* delivered exactly once to each subscription that existed for its type   *)
(* when the dispatch began, the newest first, one callback at a time.      *)
(***************************************************************************)
EXTENDS Integers, Sequences

CONSTANTS
  Topics,       \* event types
  Callbacks,    \* callbacks, with the user_data they were registered with
  NoCallback,   \* a NULL callback
  NoTopic       \* current: no event is being dispatched

VARIABLES
  registered,   \* the subscriptions, in the order they were made
  current,      \* type of the event being dispatched, or NoTopic
  todo,         \* positions in `registered' this event still has to reach
  running       \* position whose callback runs, or 0

vars == <<registered, current, todo, running>>

Init ==
  /\ registered = << >>
  /\ current = NoTopic
  /\ todo = {}
  /\ running = 0

\* a module subscribes, at any time outside a dispatch or from a callback
Subscribe(t, cb) ==
  /\ registered' = Append(registered, [topic |-> t, callback |-> cb])
  /\ UNCHANGED <<current, todo, running>>

\* an event of type t comes up
Begin(t) ==
  /\ current = NoTopic
  /\ current' = t
  /\ todo' = {i \in 1..Len(registered) : registered[i].topic = t}
  /\ UNCHANGED <<registered, running>>

\* the newest subscription left is taken: its callback starts, and without
\* one it is skipped
Take ==
  /\ running = 0
  /\ \E i \in todo :
       /\ \A j \in todo : j <= i
       /\ todo' = todo \ {i}
       /\ running' = IF registered[i].callback = NoCallback THEN 0 ELSE i
  /\ UNCHANGED <<registered, current>>

Return ==
  /\ running # 0
  /\ running' = 0
  /\ UNCHANGED <<registered, current, todo>>

\* the dispatch ends when nobody is left out
End ==
  /\ current # NoTopic
  /\ running = 0
  /\ todo = {}
  /\ current' = NoTopic
  /\ UNCHANGED <<registered, todo, running>>

Next ==
  \/ \E t \in Topics, cb \in Callbacks \cup {NoCallback} : Subscribe(t, cb)
  \/ \E t \in Topics : Begin(t)
  \/ Take
  \/ Return
  \/ End

Spec == Init /\ [][Next]_vars
===============================================================================
