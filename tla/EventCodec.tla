------------------------------ MODULE EventCodec ------------------------------
(***************************************************************************)
(* The translation between ox events and SDL events of ox-kernel/event.c:  *)
(* get_cmd_event_type, oxi_to_sdl_event and oxi_from_sdl_event, with the   *)
(* two globals they share and the counter behind SDL_RegisterEvents.       *)
(*                                                                         *)
(* An SDL event is its type number; an ox event is [type, code], where     *)
(* code is the ox_CommandCode of a command and 0 otherwise.  Payload       *)
(* (keys, pointers, timestamps) is copied unread by this code and left     *)
(* out.                                                                    *)
(***************************************************************************)
EXTENDS Integers

CONSTANTS
  SDL_EVENT_USER,   \* first number SDL_RegisterEvents may hand out (0x8000)
  SDL_EVENT_LAST,   \* last one (0xFFFF)
  Codes             \* command codes that clients put into command events

\* ox_EventType
OX_EVENT_NONE           == 0
OX_EVENT_WINDOW_EXPOSED == 1
OX_EVENT_KEY_DOWN       == 2
OX_EVENT_KEY_UP         == 3
OX_EVENT_COMMAND        == 4
OX_EVENT_TEXT_INPUT     == 5
OX_EVENT_QUIT           == 6
OX_EVENT_LAST           == 7

\* the ox_CommandCode values the code computes with
OX_CMD_NONE       == 0
OX_CMD_SYSTEM_MAX == 7
OX_CMD_USER       == 32768

\* SDL_EventType
SDL_EVENT_QUIT           == 256
SDL_EVENT_WINDOW_EXPOSED == 516
SDL_EVENT_KEY_DOWN       == 768
SDL_EVENT_KEY_UP         == 769

ASSUME CodecAssumption ==
  /\ SDL_EVENT_USER \in Nat /\ SDL_EVENT_USER > SDL_EVENT_KEY_UP
  /\ SDL_EVENT_LAST \in Nat /\ SDL_EVENT_USER + OX_CMD_SYSTEM_MAX <= SDL_EVENT_LAST + 1
  /\ Codes \subseteq Nat

\* the input events SDL makes that have an ox_EventType of their own
InputType ==
  [t \in {SDL_EVENT_QUIT, SDL_EVENT_WINDOW_EXPOSED, SDL_EVENT_KEY_DOWN, SDL_EVENT_KEY_UP} |->
     CASE t = SDL_EVENT_QUIT           -> OX_EVENT_QUIT
       [] t = SDL_EVENT_WINDOW_EXPOSED -> OX_EVENT_WINDOW_EXPOSED
       [] t = SDL_EVENT_KEY_DOWN       -> OX_EVENT_KEY_DOWN
       [] t = SDL_EVENT_KEY_UP         -> OX_EVENT_KEY_UP]

VARIABLES
  cmd_event_type_first,  \* globals of event.c, -1 until the first command
  cmd_event_type_last,
  sdl_userevents         \* SDL: how many user event numbers are handed out

codecVars == <<cmd_event_type_first, cmd_event_type_last, sdl_userevents>>

Event(type, code) == [type |-> type, code |-> code]

\* what from_sdl reports for an event it cannot translate (return false)
NoEvent == Event(OX_EVENT_NONE, OX_CMD_NONE)

CodecInit ==
  /\ cmd_event_type_first = -1
  /\ cmd_event_type_last = -1
  /\ sdl_userevents = 0

\* the same once n commands went before: the n-th got the n-th block of
\* numbers, or 0 because SDL had no whole block left
CodecAfter(n) ==
  /\ cmd_event_type_first =
       IF n = 0 THEN -1
       ELSE IF SDL_EVENT_USER + OX_CMD_SYSTEM_MAX * n - 1 <= SDL_EVENT_LAST
       THEN SDL_EVENT_USER + OX_CMD_SYSTEM_MAX * (n - 1)
       ELSE 0
  /\ cmd_event_type_last = (OX_CMD_SYSTEM_MAX - 1) * n - 1
  /\ sdl_userevents = OX_CMD_SYSTEM_MAX * n

-------------------------------------------------------------------------------
\* SDL_RegisterEvents(n): the first number of a fresh block of n, or 0 when
\* fewer than n are left
SDL_RegisterEvents(n) ==
  IF SDL_EVENT_USER + sdl_userevents + n - 1 <= SDL_EVENT_LAST
  THEN SDL_EVENT_USER + sdl_userevents
  ELSE 0

\* bugs for the checks: a block is taken without asking SDL; one number is
\* registered where a block is used
TakeNextBlock ==
  /\ cmd_event_type_first' =
       IF cmd_event_type_first < 0 THEN SDL_EVENT_USER
       ELSE cmd_event_type_first + OX_CMD_SYSTEM_MAX
  /\ cmd_event_type_last' = cmd_event_type_last + OX_CMD_SYSTEM_MAX - 1
  /\ sdl_userevents' = sdl_userevents + OX_CMD_SYSTEM_MAX
RegisterOne ==
  /\ cmd_event_type_first' = SDL_RegisterEvents(1)
  /\ cmd_event_type_last' = cmd_event_type_last + OX_CMD_SYSTEM_MAX - 1
  /\ sdl_userevents' = sdl_userevents + 1

\* get_cmd_event_type: its test `cmd_event_type_first = -1` assigns and is
\* always true, so every call registers another block.  The number it
\* returns is CommandNumber(code).
get_cmd_event_type ==
  /\ cmd_event_type_first' = SDL_RegisterEvents(OX_CMD_SYSTEM_MAX)
  /\ cmd_event_type_last' = cmd_event_type_last + OX_CMD_SYSTEM_MAX - 1
  /\ sdl_userevents' = sdl_userevents + OX_CMD_SYSTEM_MAX

CommandNumber(code) == SDL_RegisterEvents(OX_CMD_SYSTEM_MAX) + code

\* oxi_to_sdl_event fails on every other type
Publishable == {OX_EVENT_QUIT, OX_EVENT_COMMAND}

\* the SDL type number oxi_to_sdl_event writes
ToSdl(e) ==
  IF e.type = OX_EVENT_QUIT THEN SDL_EVENT_QUIT ELSE CommandNumber(e.code)

\* the rest of oxi_to_sdl_event's effect: a command registers its block
oxi_to_sdl_event(e) ==
  /\ e.type \in Publishable
  /\ IF e.type = OX_EVENT_COMMAND THEN get_cmd_event_type ELSE UNCHANGED codecVars

\* bugs for the checks: the globals' initial -1 is taken for a type number; one
\* end of the range is enough
IsCommandSigned(t) ==
  t >= cmd_event_type_first /\ (cmd_event_type_last < 0 \/ t <= cmd_event_type_last)
IsCommandEither(t) == t >= cmd_event_type_first \/ t <= cmd_event_type_last

\* The test of oxi_from_sdl_event for a command.  It compares an unsigned
\* type with the int globals: -1 converts to the largest unsigned number,
\* above every event type.
IsCommand(t) ==
  /\ cmd_event_type_first >= 0 /\ t >= cmd_event_type_first
  /\ cmd_event_type_last < 0 \/ t <= cmd_event_type_last

oxi_from_sdl_event(t) ==
  IF IsCommand(t) THEN Event(OX_EVENT_COMMAND, t - cmd_event_type_first)
  ELSE IF t \in DOMAIN InputType THEN Event(InputType[t], OX_CMD_NONE)
  ELSE NoEvent
===============================================================================
