-------------------------------- MODULE Display --------------------------------
(***************************************************************************)
(* The render callbacks of ox-kernel/display.c: a store of cells threaded  *)
(* into a doubly linked list, and the loop that renders a frame.           *)
(*                                                                         *)
(* One thread.  A render callback may register and deregister callbacks,   *)
(* itself included, while the loop's cursor points at its cell.  SDL's     *)
(* calls and the callbacks' results are left out.                          *)
(***************************************************************************)
EXTENDS Integers

CONSTANTS
  MAX_RENDER_CBS,   \* cells in the store (32)
  Callbacks,        \* (f, user_data) pairs
  NoCallback        \* a NULL f

ASSUME DisplayAssumption ==
  MAX_RENDER_CBS \in Nat \ {0} /\ NoCallback \notin Callbacks

NULL     == -1
Cells    == 0..MAX_RENDER_CBS-1
Pointers == Cells \cup {NULL}

VARIABLES
  f, next, prev,   \* the fields of the cells of render_cb_store
  first,           \* first_render_cb
  pc,              \* "idle", "loop", "callback", or "segv": called a NULL f
  cb,              \* the cursor of oxi_render_and_present
  newest,          \* ghost: the cell registered last, while it is registered
  due,             \* ghost: callbacks registered since before this frame
  called           \* ghost: callbacks this frame called

cells == <<f, next, prev, first>>
vars  == <<f, next, prev, first, pc, cb, newest, due, called>>

Live == {c \in Cells : f[c] # NoCallback}

\* oxi_make_display: calloc
Init ==
  /\ f = [c \in Cells |-> NoCallback]
  /\ next = [c \in Cells |-> NULL]
  /\ prev = [c \in Cells |-> NULL]
  /\ first = NULL
  /\ pc = "idle"
  /\ cb = NULL
  /\ newest = NULL
  /\ due = {} /\ called = {}

-------------------------------------------------------------------------------
\* init and start of modules, event callbacks and render callbacks run
ClientRuns == pc \in {"idle", "callback"}

\* avail_render_cb: the first free cell
IsAvail(c) == c \notin Live /\ \A d \in 0..c-1 : d \in Live

\* bugs for the checks: a full store is not noticed; the callback's cell does
\* not become the first
RegisterPastEnd(render_cb) ==
  /\ ClientRuns
  /\ \E c \in 0..MAX_RENDER_CBS :
       /\ IsAvail(c)
       /\ f' = [d \in Cells |-> IF d = c THEN render_cb ELSE f[d]]
       /\ first' = c
       /\ newest' = c
  /\ UNCHANGED <<next, prev, pc, cb, due, called>>
RegisterLast(render_cb) ==
  /\ ClientRuns
  /\ \E c \in Cells :
       /\ IsAvail(c)
       /\ f' = [f EXCEPT ![c] = render_cb]
       /\ first' = IF first = NULL THEN c ELSE first
       /\ newest' = c
  /\ UNCHANGED <<next, prev, pc, cb, due, called>>

\* a bug for the checks: only a list that is not empty gets a new first cell
RegisterInIf(render_cb) ==
  /\ ClientRuns
  /\ \E c \in Cells :
       /\ IsAvail(c)
       /\ f' = [f EXCEPT ![c] = render_cb]
       /\ prev' = IF first # NULL THEN [prev EXCEPT ![first] = c] ELSE prev
       /\ first' = IF first # NULL THEN c ELSE first
       /\ newest' = c
  /\ UNCHANGED <<next, pc, cb, due, called>>

\* ox_register_render_cb.  cb->next stays as it is; a full store changes
\* nothing.  The function falls off its end without a return, so the handle
\* callers get is undefined: Deregister takes any cell.
ox_register_render_cb(render_cb) ==
  /\ ClientRuns
  /\ \E c \in Cells :
       /\ IsAvail(c)
       /\ f' = [f EXCEPT ![c] = render_cb]
       /\ prev' = IF first # NULL THEN [prev EXCEPT ![first] = c] ELSE prev
       /\ first' = c
       /\ newest' = c
  /\ UNCHANGED <<next, pc, cb, due, called>>

\* a bug for the checks: the head of the list is not moved on
DeregisterKeepsFirst(c) ==
  /\ ClientRuns
  /\ f' = [f EXCEPT ![c] = NoCallback]
  /\ newest' = IF newest = c THEN NULL ELSE newest
  /\ due' = due \ {c}
  /\ UNCHANGED <<next, prev, first, pc, cb, called>>

\* ox_deregister_render_cb, of a cell that may be free already
ox_deregister_render_cb(c) ==
  /\ ClientRuns
  /\ f' = [f EXCEPT ![c] = NoCallback]
  /\ prev' = IF next[c] # NULL THEN [prev EXCEPT ![next[c]] = prev[c]] ELSE prev
  /\ next' = IF prev'[c] # NULL THEN [next EXCEPT ![prev'[c]] = next[c]] ELSE next
  /\ first' = IF c = first THEN next'[c] ELSE first
  /\ newest' = IF newest = c THEN NULL ELSE newest
  /\ due' = due \ {c}
  /\ UNCHANGED <<pc, cb, called>>

-------------------------------------------------------------------------------
(* oxi_render_and_present *)

Begin ==
  /\ pc = "idle"
  /\ pc' = "loop"
  /\ cb' = first
  /\ due' = Live
  /\ called' = {}
  /\ UNCHANGED <<cells, newest>>

Invoke ==
  /\ pc = "loop"
  /\ cb # NULL
  /\ pc' = IF f[cb] = NoCallback THEN "segv" ELSE "callback"
  /\ called' = called \cup {cb}
  /\ UNCHANGED <<cells, cb, newest, due>>

\* a bug for the checks: the loop does not go on
ReturnStays ==
  /\ pc = "callback"
  /\ pc' = "loop"
  /\ UNCHANGED <<cells, cb, newest, due, called>>

\* the callback returns, and the loop reads the cell as it is now
Return ==
  /\ pc = "callback"
  /\ pc' = "loop"
  /\ cb' = next[cb]
  /\ UNCHANGED <<cells, newest, due, called>>

Present ==
  /\ pc = "loop"
  /\ cb = NULL
  /\ pc' = "idle"
  /\ UNCHANGED <<cells, cb, newest, due, called>>

Render == Begin \/ Invoke \/ Return \/ Present

Next ==
  \/ \E render_cb \in Callbacks : ox_register_render_cb(render_cb)
  \/ \E c \in Cells : ox_deregister_render_cb(c)
  \/ Render

Spec == Init /\ [][Next]_vars

\* the main loop of ox.c renders for ever, and callbacks return
FairSpec == Spec /\ WF_vars(Render)

-------------------------------------------------------------------------------
(***************************************************************************)
(* Properties                                                              *)
(***************************************************************************)

TypeOK ==
  /\ f \in [Cells -> Callbacks \cup {NoCallback}]
  /\ next \in [Cells -> Pointers] /\ prev \in [Cells -> Pointers]
  /\ first \in Pointers /\ cb \in Pointers /\ newest \in Pointers
  /\ pc \in {"idle", "loop", "callback", "segv"}
  /\ pc = "callback" => cb # NULL
  /\ due \in SUBSET Cells /\ called \in SUBSET Cells

\* Rendering a frame never calls a NULL pointer, whatever a callback
\* deregisters while the loop is at its cell and however cells are reused.
RenderSurvives == pc # "segv"

\* The callback registered last is the first of the list as long as it is
\* registered, and once it is deregistered the list is empty.
NewestIsFirst == first = newest

\* A frame that is begun is presented, also when callbacks register and
\* deregister callbacks.
FrameEnds == pc = "loop" ~> pc = "idle"

\* "oxi_render_and_present calls all registered renderers and presents the
\* result" (display.h:39): when a frame is presented, every callback that was
\* registered when it began, and still is, was called.
AllRendered == pc = "loop" /\ cb = NULL => due \subseteq called

\* As long as callbacks are registered one at a time, as the kernel does with its
\* own (ox.c:75), every frame renders what is registered, also when the callback
\* deregisters itself in the middle of a frame and another takes its cell.
OneAtATime == \A c, d \in Live : c = d
OneIsRendered == []OneAtATime => []AllRendered
===============================================================================
