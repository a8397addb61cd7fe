----------------------------- MODULE DisplayProofs -----------------------------
(***************************************************************************)
(* Theorems about the render callbacks of Display, for every size of the   *)
(* store and every set of callbacks.                                       *)
(*                                                                         *)
(* What makes them true is that no cell ever gets a `next': the list has   *)
(* at most one cell, so the loop's cursor cannot run into a stale one.     *)
(***************************************************************************)
EXTENDS Display, TLAPS

\* nobody sets a next pointer, and the first cell is the newest and live
IInv ==
  /\ TypeOK
  /\ \A c \in Cells : next[c] = NULL
  /\ NewestIsFirst
  /\ first # NULL => first \in Live
  /\ RenderSurvives
  /\ pc = "loop" /\ cb # NULL => cb \in Live

LEMMA InitIInv == Init => IInv
  BY DisplayAssumption
  DEF Init, IInv, TypeOK, NewestIsFirst, RenderSurvives, Live, Cells, Pointers, NULL

LEMMA RegisterKeepsIInv ==
  ASSUME IInv, NEW render_cb \in Callbacks, ox_register_render_cb(render_cb)
  PROVE  IInv'
<1>1. PICK c \in Cells :
        /\ f' = [f EXCEPT ![c] = render_cb]
        /\ prev' = IF first # NULL THEN [prev EXCEPT ![first] = c] ELSE prev
        /\ first' = c
        /\ newest' = c
  BY DEF ox_register_render_cb
<1>2. UNCHANGED <<next, pc, cb, due, called>> /\ pc \in {"idle", "callback"}
  BY DEF ox_register_render_cb, ClientRuns
<1>3. TypeOK'
  BY <1>1, <1>2 DEF IInv, TypeOK, Pointers
<1>4. c \in Live'
  BY <1>1, DisplayAssumption DEF IInv, TypeOK, Live
<1> QED
  BY <1>1, <1>2, <1>3, <1>4 DEF IInv, NewestIsFirst, RenderSurvives

LEMMA DeregisterKeepsIInv ==
  ASSUME IInv, NEW c \in Cells, ox_deregister_render_cb(c)
  PROVE  IInv'
<1>1. UNCHANGED <<pc, cb, called>> /\ pc \in {"idle", "callback"}
  BY DEF ox_deregister_render_cb, ClientRuns
<1>2. prev' = prev /\ next[c] = NULL
  BY DEF ox_deregister_render_cb, IInv
<1>3. next' = next
  <2>1. next' = IF prev[c] # NULL THEN [next EXCEPT ![prev[c]] = NULL] ELSE next
    BY <1>2 DEF ox_deregister_render_cb
  <2>2. prev[c] # NULL => prev[c] \in Cells
    BY DEF IInv, TypeOK, Pointers
  <2> QED BY <2>1, <2>2 DEF IInv, TypeOK
<1>4. /\ f' = [f EXCEPT ![c] = NoCallback]
      /\ first' = IF c = first THEN NULL ELSE first
      /\ newest' = IF newest = c THEN NULL ELSE newest
      /\ due' = due \ {c}
  BY <1>2, <1>3 DEF ox_deregister_render_cb
<1>5. TypeOK'
  BY <1>1, <1>2, <1>3, <1>4 DEF IInv, TypeOK, Pointers
<1>6. first' # NULL => first' \in Live'
  BY <1>4 DEF IInv, TypeOK, Live, Pointers
<1> QED
  BY <1>1, <1>3, <1>4, <1>5, <1>6 DEF IInv, NewestIsFirst, RenderSurvives

LEMMA NextKeepsIInv == IInv /\ [Next]_vars => IInv'
<1> SUFFICES ASSUME IInv, [Next]_vars PROVE IInv'
  OBVIOUS
<1>1. ASSUME NEW render_cb \in Callbacks, ox_register_render_cb(render_cb) PROVE IInv'
  BY <1>1, RegisterKeepsIInv
<1>2. ASSUME NEW c \in Cells, ox_deregister_render_cb(c) PROVE IInv'
  BY <1>2, DeregisterKeepsIInv
<1>3. CASE Begin
  BY <1>3 DEF Begin, IInv, TypeOK, cells, NewestIsFirst, RenderSurvives, Live
<1>4. CASE Invoke
  <2>1. cb \in Live /\ cb \in Cells /\ pc' = "callback"
    BY <1>4 DEF Invoke, IInv, Live
  <2> QED
    BY <1>4, <2>1 DEF Invoke, IInv, TypeOK, cells, NewestIsFirst, RenderSurvives, Live
<1>5. CASE Return
  <2>1. cb' = NULL /\ pc' = "loop"
    BY <1>5 DEF Return, IInv, TypeOK, Pointers
  <2> QED
    BY <1>5, <2>1 DEF Return, IInv, TypeOK, cells, Pointers, NewestIsFirst, RenderSurvives, Live
<1>6. CASE Present
  BY <1>6 DEF Present, IInv, TypeOK, cells, NewestIsFirst, RenderSurvives, Live
<1>7. CASE UNCHANGED vars
  BY <1>7 DEF vars, cells, IInv, TypeOK, NewestIsFirst, RenderSurvives, Live
<1> QED
  BY <1>1, <1>2, <1>3, <1>4, <1>5, <1>6, <1>7 DEF Next, Render

LEMMA IInvHolds == Spec => []IInv
  BY InitIInv, NextKeepsIInv, PTL DEF Spec

\* The cells, the cursor and the ghosts keep their types, and no callback runs
\* without a cell.
THEOREM Typing == Spec => []TypeOK
<1>1. IInv => TypeOK
  BY DEF IInv
<1> QED BY <1>1, IInvHolds, PTL

\* oxi_render_and_present never calls a NULL pointer, whatever callbacks
\* register and deregister during the frame and however large the store is.
THEOREM RenderingSurvives == Spec => []RenderSurvives
<1>1. IInv => RenderSurvives
  BY DEF IInv
<1> QED BY <1>1, IInvHolds, PTL

\* The list is the newest callback alone, and nothing once that is
\* deregistered: the other registered callbacks are out of the loop's reach.
THEOREM NewestStaysFirst == Spec => []NewestIsFirst
<1>1. IInv => NewestIsFirst
  BY DEF IInv
<1> QED BY <1>1, IInvHolds, PTL

-------------------------------------------------------------------------------
(* One callback at a time *)

\* The one that is registered is the first, and the frame is at it, was at it, or
\* it has no part in this frame.
OneInv ==
  /\ \A c \in Live : c = first
  /\ pc = "loop" => due \subseteq called \cup {cb}
  /\ pc = "callback" => due \subseteq called

LEMMA OneStep ==
  ASSUME IInv, OneInv, OneAtATime', [Next]_vars
  PROVE  OneInv'
<1>1. ASSUME NEW render_cb \in Callbacks, ox_register_render_cb(render_cb) PROVE OneInv'
  <2>1. PICK c \in Cells : f' = [f EXCEPT ![c] = render_cb] /\ first' = c
    BY <1>1 DEF ox_register_render_cb
  <2>2. c \in Live'
    BY <2>1, DisplayAssumption DEF IInv, TypeOK, Live
  <2>3. UNCHANGED <<pc, cb, due, called>>
    BY <1>1 DEF ox_register_render_cb
  <2> QED
    BY <2>1, <2>2, <2>3 DEF OneInv, OneAtATime
<1>2. ASSUME NEW c \in Cells, ox_deregister_render_cb(c) PROVE OneInv'
  <2>1. /\ f' = [f EXCEPT ![c] = NoCallback]
        /\ first' = IF c = first THEN next'[c] ELSE first
        /\ due' = due \ {c} /\ UNCHANGED <<pc, cb, called>>
    BY <1>2 DEF ox_deregister_render_cb
  <2>2. Live' = Live \ {c}
    BY <2>1, DisplayAssumption DEF IInv, TypeOK, Live
  <2> QED
    BY <2>1, <2>2 DEF OneInv
<1>3. CASE Begin
  <2>1. UNCHANGED <<f, first>> /\ pc' = "loop" /\ cb' = first /\ due' = Live
    BY <1>3 DEF Begin, cells
  <2> QED
    BY <2>1 DEF OneInv, Live
<1>4. CASE Invoke
  <2>1. UNCHANGED <<f, first, due>> /\ pc = "loop" /\ pc' # "loop" /\ called' = called \cup {cb}
    BY <1>4 DEF Invoke, cells
  <2> QED
    BY <2>1 DEF OneInv, Live
<1>5. CASE Return
  <2>1. UNCHANGED <<f, first, due, called>> /\ pc = "callback" /\ pc' = "loop"
    BY <1>5 DEF Return, cells
  <2> QED
    BY <2>1 DEF OneInv, Live
<1>6. CASE Present
  BY <1>6 DEF Present, cells, OneInv, Live
<1>7. CASE UNCHANGED vars
  BY <1>7 DEF vars, cells, OneInv, Live
<1> QED
  BY <1>1, <1>2, <1>3, <1>4, <1>5, <1>6, <1>7 DEF Next, Render

\* A program that registers its render callbacks one at a time sees each of them
\* rendered in every frame it is registered for: what keeps the kernel clear of
\* the list that loses all callbacks but the newest.
THEOREM OneStaysRendered == Spec => OneIsRendered
<1>1. Init => OneInv
  BY DEF Init, OneInv, Live
<1>2. IInv /\ OneInv /\ OneAtATime' /\ [Next]_vars => OneInv'
  BY OneStep
<1>3. IInv /\ OneInv => AllRendered
  BY DEF IInv, TypeOK, OneInv, AllRendered, Cells, NULL
<1> QED
  BY <1>1, <1>2, <1>3, IInvHolds, PTL DEF Spec, OneIsRendered
===============================================================================
