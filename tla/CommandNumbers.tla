---------------------------- MODULE CommandNumbers ----------------------------
(***************************************************************************)
(* The codec run on its own: clients publish commands and quit events, one *)
(* after the other, for as long as they like.  Everything the translation  *)
(* depends on is how often it ran before.                                  *)
(***************************************************************************)
EXTENDS EventCodec

CONSTANT MaxRegistered   \* bound: stop publishing once this many numbers are taken

ASSUME MaxRegistered \in Nat

VARIABLE sent   \* ghost: the event published last and the SDL type it got

vars == <<cmd_event_type_first, cmd_event_type_last, sdl_userevents, sent>>

Outgoing == {Event(OX_EVENT_QUIT, OX_CMD_NONE)} \cup {Event(OX_EVENT_COMMAND, c) : c \in Codes}

Init ==
  /\ CodecInit
  /\ sent = [event |-> NoEvent, sdl |-> 0]

\* oxi_publish_event as far as the codec is concerned
Publish(e) ==
  /\ sdl_userevents < MaxRegistered
  /\ oxi_to_sdl_event(e)
  /\ sent' = [event |-> e, sdl |-> ToSdl(e)]

Next == \E e \in Outgoing : Publish(e)

Spec == Init /\ [][Next]_vars

-------------------------------------------------------------------------------
\* The first number is unset, SDL's failure, or a number SDL may hand out with
\* room for a whole block above it.
TypeOK ==
  /\ cmd_event_type_first \in
       {-1, 0} \cup (SDL_EVENT_USER..SDL_EVENT_LAST - OX_CMD_SYSTEM_MAX + 1)
  /\ cmd_event_type_last \in {-1} \cup Nat
  /\ sdl_userevents \in Nat
  /\ sent \in [event : Outgoing \cup {NoEvent}, sdl : Nat]

\* A key, window or quit event comes out of oxi_from_sdl_event as what it is
\* until SDL_RegisterEvents has no block left to hand out, and as a command ever
\* after: the range oxi_from_sdl_event tests then starts at 0 and has long grown
\* past the input types.
InputsKeepType ==
  \A t \in DOMAIN InputType :
    oxi_from_sdl_event(t) =
      IF cmd_event_type_first = 0 THEN Event(OX_EVENT_COMMAND, t)
      ELSE Event(InputType[t], OX_CMD_NONE)

\* As long as SDL has a whole block left, a command gets one above the block of
\* the command before it, so that system commands (codes below OX_CMD_SYSTEM_MAX)
\* of different calls have different numbers.  Then, and for good, every call
\* gets 0: command c has the number c, whichever call published it.
BlockLeft == SDL_EVENT_USER + sdl_userevents + OX_CMD_SYSTEM_MAX - 1 <= SDL_EVENT_LAST
NextBlockAbove ==
  cmd_event_type_first' # cmd_event_type_first =>
    /\ cmd_event_type_first # 0
    /\ IF BlockLeft THEN cmd_event_type_first' >= cmd_event_type_first + OX_CMD_SYSTEM_MAX
       ELSE cmd_event_type_first' = 0

BlocksDisjoint == [][NextBlockAbove]_vars

\* "oxi_publish_event queues an event to be delivered to subscribers"
\* (event.h:32): a command read back from SDL's queue is that command.
CommandComesBack ==
  sent.event.type = OX_EVENT_COMMAND => oxi_from_sdl_event(sent.sdl) = sent.event
===============================================================================
